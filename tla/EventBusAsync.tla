--------------------------- MODULE EventBusAsync ----------------------------
(***************************************************************************)
(* internal/eventbus, the Async bus: publishers, one worker goroutine and  *)
(* one bounded channel per subscriber, Unsubscribe and Close.              *)
(*                                                                         *)
(* The steps are the sections under mu and the selects.  An event is the   *)
(* publisher and the number of its Publish call.                           *)
(***************************************************************************)
EXTENDS Naturals, FiniteSets, Sequences

CONSTANTS Subs,        \* subscriptions
          Publishers,  \* goroutines that call Publish
          BufferSizes, \* values of AsyncConfig.BufferSize
          MaxPublishes \* bound: Publish calls per publisher

ASSUME BusAssumption == /\ BufferSizes \subseteq Nat \ {0} /\ MaxPublishes \in Nat
                        /\ IsFiniteSet(Publishers)

VARIABLES dropWhenFull, bufferSize, \* AsyncConfig, fixed when the bus is made
          closed,       \* Async.closed
          subs,         \* Async.subs
          subPc,        \* each Subscribe call and then its worker
          ch,           \* asyncSub.ch
          stop,         \* asyncSub.stop is closed
          pubPc,        \* where each publisher is
          todo,         \* subscribers its Publish has still to serve
          calls,        \* Publish calls each publisher has begun
          closePc,      \* the Close call
          early,        \* history: subscriptions complete when Close began
          handled       \* history: per subscriber and publisher, the last event handled

config == <<dropWhenFull, bufferSize>>
workVars == <<subPc, ch>>
pubVars == <<pubPc, todo, calls>>
vars == <<config, closed, subs, workVars, stop, pubVars, closePc, early, handled>>

\* A Subscribe call has passed the closed check, is in the map, or is over with
\* its worker waiting, in the handler, draining after stop, or gone.
SubPCs == {"none", "checked", "placed", "waiting", "handling", "draining", "drainHandling",
           "exited"}

Init == /\ dropWhenFull \in BOOLEAN
        /\ bufferSize \in BufferSizes
        /\ closed = FALSE
        /\ subs = {}
        /\ subPc = [s \in Subs |-> "none"]
        /\ ch = [s \in Subs |-> <<>>]
        /\ stop = [s \in Subs |-> FALSE]
        /\ pubPc = [p \in Publishers |-> "idle"]
        /\ todo = [p \in Publishers |-> {}]
        /\ calls = [p \in Publishers |-> 0]
        /\ closePc = "idle"
        /\ early = {}
        /\ handled = [s \in Subs |-> [p \in Publishers |-> 0]]

SubGoto(s, place) == subPc' = [subPc EXCEPT ![s] = place]

-----------------------------------------------------------------------------
(* Subscribe and Unsubscribe.                                              *)
\* The closed check, before mu.
SubscribeChecks(s) ==
  /\ subPc[s] = "none" /\ ~closed
  /\ SubGoto(s, "checked")
  /\ UNCHANGED <<config, closed, subs, ch, stop, pubVars, closePc, early, handled>>

SubscribePlaces(s) ==
  /\ subPc[s] = "checked"
  /\ subs' = subs \cup {s}
  /\ SubGoto(s, "placed")
  /\ UNCHANGED <<config, closed, ch, stop, pubVars, closePc, early, handled>>

\* closedWg.Add(1); go runSub; return.
SubscribeSpawns(s) ==
  /\ subPc[s] = "placed"
  /\ SubGoto(s, "waiting")
  /\ UNCHANGED <<config, closed, subs, ch, stop, pubVars, closePc, early, handled>>

Workers == {s \in Subs : subPc[s] \in {"waiting", "handling", "draining", "drainHandling"}}

\* The function Subscribe returned; a second call, or one after Close, finds
\* nothing to do.
Unsubscribe(s) ==
  /\ s \in subs /\ subPc[s] # "placed"
  /\ subs' = subs \ {s}
  /\ stop' = [stop EXCEPT ![s] = TRUE]
  /\ UNCHANGED <<config, closed, workVars, pubVars, closePc, early, handled>>

-----------------------------------------------------------------------------
(* Publish.                                                                *)
\* The closed check.
PublishChecks(p) ==
  /\ pubPc[p] = "idle" /\ calls[p] < MaxPublishes /\ ~closed
  /\ pubPc' = [pubPc EXCEPT ![p] = "checked"]
  /\ calls' = [calls EXCEPT ![p] = @ + 1]
  /\ UNCHANGED <<config, closed, subs, workVars, stop, todo, closePc, early, handled>>

\* The copy of the subscribers, under mu.
PublishCopies(p) ==
  /\ pubPc[p] = "checked"
  /\ todo' = [todo EXCEPT ![p] = subs]
  /\ pubPc' = [pubPc EXCEPT ![p] = "sending"]
  /\ UNCHANGED <<config, closed, subs, workVars, stop, calls, closePc, early, handled>>

Served(p, s) == todo' = [todo EXCEPT ![p] = @ \ {s}]

\* The event enters the channel.  Nothing gives stop precedence.
Send(p, s) ==
  /\ pubPc[p] = "sending" /\ s \in todo[p]
  /\ Len(ch[s]) < bufferSize
  /\ ch' = [ch EXCEPT ![s] = Append(@, [by |-> p, num |-> calls[p]])]
  /\ Served(p, s)
  /\ UNCHANGED <<config, closed, subs, subPc, stop, pubPc, calls, closePc, early, handled>>

\* DropWhenFull: the default branch, counted in Stats.
Drop(p, s) ==
  /\ pubPc[p] = "sending" /\ s \in todo[p]
  /\ dropWhenFull /\ Len(ch[s]) = bufferSize
  /\ Served(p, s)
  /\ UNCHANGED <<config, closed, subs, workVars, stop, pubPc, calls, closePc, early, handled>>

\* Slip: a plain send, without the stop branch.
SkipNever(p, s) == FALSE

\* The blocking select's other branch.
SkipStopped(p, s) ==
  /\ pubPc[p] = "sending" /\ s \in todo[p]
  /\ ~dropWhenFull /\ stop[s]
  /\ Served(p, s)
  /\ UNCHANGED <<config, closed, subs, workVars, stop, pubPc, calls, closePc, early, handled>>

PublishReturns(p) ==
  /\ pubPc[p] = "sending" /\ todo[p] = {}
  /\ pubPc' = [pubPc EXCEPT ![p] = "idle"]
  /\ UNCHANGED <<config, closed, subs, workVars, stop, todo, calls, closePc, early, handled>>

-----------------------------------------------------------------------------
(* runSub.                                                                 *)
HandleHead(s) == handled' = [handled EXCEPT ![s][Head(ch[s]).by] = Head(ch[s]).num]

\* Slip: the newest event first.
TakeNewest(s, from, to) ==
  /\ subPc[s] = from /\ ch[s] # <<>>
  /\ LET last == ch[s][Len(ch[s])] IN handled' = [handled EXCEPT ![s][last.by] = last.num]
  /\ ch' = [ch EXCEPT ![s] = SubSeq(@, 1, Len(@) - 1)]
  /\ SubGoto(s, to)
  /\ UNCHANGED <<config, closed, subs, stop, pubVars, closePc, early>>

\* A select receives an event and calls the handler.
Take(s, from, to) ==
  /\ subPc[s] = from /\ ch[s] # <<>>
  /\ HandleHead(s)
  /\ ch' = [ch EXCEPT ![s] = Tail(@)]
  /\ SubGoto(s, to)
  /\ UNCHANGED <<config, closed, subs, stop, pubVars, closePc, early>>

WorkerTakes(s) == Take(s, "waiting", "handling") \/ Take(s, "draining", "drainHandling")

HandlerReturns(s) ==
  /\ subPc[s] \in {"handling", "drainHandling"}
  /\ SubGoto(s, IF subPc[s] = "handling" THEN "waiting" ELSE "draining")
  /\ UNCHANGED <<config, closed, subs, ch, stop, pubVars, closePc, early, handled>>

\* Slip: the worker leaves at once.
SeesStopAndExits(s) ==
  /\ subPc[s] = "waiting" /\ stop[s]
  /\ SubGoto(s, "exited")
  /\ UNCHANGED <<config, closed, subs, ch, stop, pubVars, closePc, early, handled>>

\* The select takes stop, even with events queued: go on to the draining loop.
SeesStop(s) ==
  /\ subPc[s] = "waiting" /\ stop[s]
  /\ SubGoto(s, "draining")
  /\ UNCHANGED <<config, closed, subs, ch, stop, pubVars, closePc, early, handled>>

\* The draining loop finds the channel empty.
WorkerExits(s) ==
  /\ subPc[s] = "draining" /\ ch[s] = <<>>
  /\ SubGoto(s, "exited")
  /\ UNCHANGED <<config, closed, subs, ch, stop, pubVars, closePc, early, handled>>

-----------------------------------------------------------------------------
(* Close; a second call returns at once.                                   *)
CloseBegins ==
  /\ closePc = "idle"
  /\ closed' = TRUE
  /\ early' = Workers
  /\ closePc' = "stopping"
  /\ UNCHANGED <<config, subs, workVars, stop, pubVars, handled>>

\* Slip: the map is cleared, the workers are not told.
CloseForgetsStop ==
  /\ closePc = "stopping"
  /\ subs' = {}
  /\ closePc' = "waiting"
  /\ UNCHANGED <<config, closed, workVars, stop, pubVars, early, handled>>

\* Under mu: tell every worker, forget every subscriber.
CloseStops ==
  /\ closePc = "stopping"
  /\ stop' = [s \in Subs |-> stop[s] \/ s \in subs]
  /\ subs' = {}
  /\ closePc' = "waiting"
  /\ UNCHANGED <<config, closed, workVars, pubVars, early, handled>>

\* Slip: Close does not wait.
CloseReturnsAtOnce ==
  /\ closePc = "waiting"
  /\ closePc' = "returned"
  /\ UNCHANGED <<config, closed, subs, workVars, stop, pubVars, early, handled>>

\* closedWg.Wait returns.
CloseReturns ==
  /\ closePc = "waiting" /\ Workers = {}
  /\ closePc' = "returned"
  /\ UNCHANGED <<config, closed, subs, workVars, stop, pubVars, early, handled>>

-----------------------------------------------------------------------------
Serve(p) == \E s \in Subs : Send(p, s) \/ Drop(p, s) \/ SkipStopped(p, s)

Work(s) == WorkerTakes(s) \/ HandlerReturns(s) \/ SeesStop(s) \/ WorkerExits(s)

Next == \/ \E s \in Subs : \/ SubscribeChecks(s) \/ SubscribePlaces(s) \/ SubscribeSpawns(s)
                           \/ Unsubscribe(s) \/ Work(s)
        \/ \E p \in Publishers : \/ PublishChecks(p) \/ PublishCopies(p) \/ Serve(p)
                                 \/ PublishReturns(p)
        \/ CloseBegins \/ CloseStops \/ CloseReturns

Spec == Init /\ [][Next]_vars

\* Goroutines that can go on do, handlers return, and a select that a stop
\* stays ready for takes it in the end.
Fairness == /\ \A s \in Subs : /\ WF_vars(Work(s)) /\ SF_vars(SeesStop(s))
                               /\ WF_vars(SubscribePlaces(s)) /\ WF_vars(SubscribeSpawns(s))
            /\ \A p \in Publishers : /\ WF_vars(PublishCopies(p)) /\ SF_vars(Serve(p))
                                     /\ WF_vars(PublishReturns(p))
            /\ WF_vars(CloseStops) /\ WF_vars(CloseReturns)

FairSpec == Spec /\ Fairness

-----------------------------------------------------------------------------
Events == [by : Publishers, num : 1..MaxPublishes]

\* Every variable keeps the type its declaration gives it.
TypeOK == /\ dropWhenFull \in BOOLEAN /\ bufferSize \in BufferSizes /\ closed \in BOOLEAN
          /\ subs \subseteq Subs /\ early \subseteq Subs
          /\ subPc \in [Subs -> SubPCs]
          /\ ch \in [Subs -> Seq(Events)] /\ \A s \in Subs : Len(ch[s]) <= bufferSize
          /\ stop \in [Subs -> BOOLEAN]
          /\ pubPc \in [Publishers -> {"idle", "checked", "sending"}]
          /\ todo \in [Publishers -> SUBSET Subs]
          /\ calls \in [Publishers -> 0..MaxPublishes]
          /\ closePc \in {"idle", "stopping", "waiting", "returned"}
          /\ handled \in [Subs -> [Publishers -> 0..MaxPublishes]]

\* "Drain anything already queued so handler ordering is preserved relative to
\* Publish": a subscriber handles a publisher's events in the order of its calls.
OrderKept == [][\A s \in Subs, p \in Publishers : handled'[s][p] >= handled[s][p]]_vars

\* Events can be left in the channel of a worker that has gone, one per
\* publisher at most: that of a Publish which copied the map before the stop.
StrandedBound == \A s \in Subs : subPc[s] = "exited" =>
  /\ Len(ch[s]) <= Cardinality(Publishers)
  /\ \A i, j \in DOMAIN ch[s] : ch[s][i].by = ch[s][j].by => i = j

\* When Close returns, the worker of every subscription that was complete when
\* Close began has drained its queue and gone.
CloseWaitsForEarly == closePc = "returned" => \A s \in early : subPc[s] = "exited"

\* Close "signals all subscriber goroutines to drain their queues, and waits for
\* them to exit": it returns, when handlers do.
CloseEnds == (closePc = "stopping") ~> (closePc = "returned")

\* Close returns if no Subscribe is between its closed check and its insertion
\* when Close sets closed: a publisher still sending, a subscription not yet
\* spawned and an Unsubscribe at any point do not keep it.
CloseEndsUnlessLate ==
  (closePc = "stopping" /\ \A s \in Subs : subPc[s] # "checked") ~> (closePc = "returned")

\* A Publish returns, when handlers do: a full queue is emptied, or its
\* subscriber is stopped, in the end.
PublishEnds == \A p \in Publishers : (pubPc[p] = "sending") ~> (pubPc[p] = "idle")

\* "New sends are blocked behind close because s.stop is closed."
NothingStranded == \A s \in Subs : subPc[s] = "exited" => ch[s] = <<>>
=============================================================================
