------------------------------- MODULE Inspect -------------------------------
(***************************************************************************)
(* cmd/inspect: a scenario publishes events on an Async bus that drops     *)
(* when full, the Inspector is its one subscriber, counts the events and   *)
(* keeps the last few, and the text UI shows it until the user quits.  The *)
(* bus is that of module EventBusAsync, whose steps these are.             *)
(*                                                                         *)
(* One session: a second Enter on the picker, before the first is handled, *)
(* would start another bus and leave the first running (see LoadGen).      *)
(***************************************************************************)
EXTENDS Naturals, Sequences, SequencesExt

CONSTANTS QueueSize,   \* AsyncConfig.BufferSize, 64
          RingCap,     \* Inspector.cap, 10
          MaxEvents \* bound: events of the scenario

VARIABLES
  busDropWhenFull, busBufferSize, busClosed, busSubs, busSubPc, busCh, busStop, busPubPc,
  busTodo, busCalls, busClosePc, busEarly, busHandled, \* the bus: see EventBusAsync
  ui,        \* "picker", "live", "stopping", "closing", "gone"
  cancelled, \* the scenario's ctx
  scenario,  \* its goroutine: "none", "running" or "gone"
  done,      \* Inspector.done
  total,     \* Inspector.total
  recent,    \* Inspector.recent, each event by its number
  dropped,   \* Stats().Dropped of the bus
  last       \* history: the events handled

Handler == "inspector"
Producer == "scenario"

Bus == INSTANCE EventBusAsync WITH
         Subs <- {Handler}, Publishers <- {Producer}, BufferSizes <- {QueueSize},
         MaxPublishes <- MaxEvents,
         dropWhenFull <- busDropWhenFull, bufferSize <- busBufferSize, closed <- busClosed,
         subs <- busSubs, subPc <- busSubPc, ch <- busCh, stop <- busStop,
         pubPc <- busPubPc, todo <- busTodo, calls <- busCalls, closePc <- busClosePc,
         early <- busEarly, handled <- busHandled

busRest == <<busDropWhenFull, busBufferSize, busClosed, busCh, busStop, busPubPc, busTodo,
             busCalls, busClosePc, busEarly, busHandled>>
busVars == <<busRest, busSubs, busSubPc>>
inspector == <<done, total, recent, last>>
session == <<ui, cancelled, scenario>>
vars == <<busVars, session, inspector, dropped>>

Init == /\ Bus!Init /\ busDropWhenFull = TRUE
        /\ ui = "picker" /\ cancelled = FALSE /\ scenario = "none"
        /\ done = FALSE /\ total = 0 /\ recent = <<>> /\ last = <<>>
        /\ dropped = 0

\* onPicker: the bus is new, so Subscribe meets nobody; then the scenario
\* starts.
OnPicker == /\ ui = "picker"
            /\ ui' = "live" /\ scenario' = "running"
            /\ busSubs' = {Handler}
            /\ busSubPc' = [busSubPc EXCEPT ![Handler] = "waiting"]
            /\ UNCHANGED <<busRest, cancelled, inspector, dropped>>

-----------------------------------------------------------------------------
(* The scenario: select of ctx.Done and the ticker, then Publish; runBursty *)
(* looks at ctx before each, the others may publish once more.  A Publish  *)
(* on a closed bus does nothing.                                           *)
PublishBegins == /\ scenario = "running" /\ Bus!PublishChecks(Producer)
                 /\ UNCHANGED <<session, inspector, dropped>>

PublishGoesOn == /\ \/ Bus!PublishCopies(Producer) \/ Bus!Send(Producer, Handler)
                    \/ Bus!PublishReturns(Producer)
                 /\ ui # "gone"
                 /\ UNCHANGED <<session, inspector, dropped>>

PublishDrops == /\ Bus!Drop(Producer, Handler) /\ ui # "gone"
                /\ dropped' = dropped + 1
                /\ UNCHANGED <<session, inspector>>

ScenarioLeaves == /\ scenario = "running" /\ busPubPc[Producer] = "idle" /\ cancelled /\ ui # "gone"
                  /\ scenario' = "gone"
                  /\ UNCHANGED <<busVars, ui, cancelled, inspector, dropped>>

-----------------------------------------------------------------------------
(* The worker of the subscription.                                         *)
WorkerGoesOn == /\ Bus!WorkerTakes(Handler) \/ Bus!WorkerExits(Handler)
                /\ UNCHANGED <<session, inspector, dropped>>

WorkerSeesStop == Bus!SeesStop(Handler) /\ UNCHANGED <<session, inspector, dropped>>

\* Slip: the oldest events are the ones kept.
TrimmedToOldest(seq) == SubSeq(seq, 1, RingCap)

Trimmed(seq) == SubSeq(seq, Len(seq) - RingCap + 1, Len(seq))

\* Slip: Stop holds mu until the bus is closed.
MuHeldByStop == done

MuHeld == FALSE

\* handle, under mu.
Handle == /\ busSubPc[Handler] \in {"handling", "drainHandling"} /\ ~MuHeld
          /\ LET event == busHandled[Handler][Producer]
                 more == Append(recent, event)
             IN  /\ recent' = IF Len(more) > RingCap THEN Trimmed(more) ELSE more
                 /\ last' = Append(last, event)
          /\ total' = total + 1
          /\ Bus!HandlerReturns(Handler)
          /\ UNCHANGED <<session, done, dropped>>

-----------------------------------------------------------------------------
(* q or ctrl+c: shutdown of the model cancels, stops the Inspector, closes *)
(* the bus, and the program ends.                                          *)
Quit == /\ ui \in {"picker", "live"}
        /\ ui' = IF ui = "live" THEN "stopping" ELSE "gone"
        /\ cancelled' = (ui = "live")
        /\ done' = (ui = "live")
        /\ UNCHANGED <<busVars, scenario, total, recent, last, dropped>>

Unsubscribes == /\ ui = "stopping" /\ Bus!Unsubscribe(Handler)
                /\ ui' = "closing"
                /\ UNCHANGED <<cancelled, scenario, inspector, dropped>>

Close == /\ ui = "closing"
         /\ \/ (Bus!CloseBegins \/ Bus!CloseStops) /\ UNCHANGED ui
            \/ Bus!CloseReturns /\ ui' = "gone"
         /\ UNCHANGED <<cancelled, scenario, inspector, dropped>>

Next == \/ OnPicker \/ PublishBegins \/ PublishGoesOn \/ PublishDrops \/ ScenarioLeaves
        \/ WorkerGoesOn \/ WorkerSeesStop \/ Handle \/ Quit \/ Unsubscribes \/ Close

\* As in EventBusAsync, for the goroutines of one session.
Fairness == /\ WF_vars(PublishGoesOn) /\ WF_vars(PublishDrops) /\ WF_vars(ScenarioLeaves)
            /\ WF_vars(WorkerGoesOn) /\ SF_vars(WorkerSeesStop)
            /\ WF_vars(Handle) /\ WF_vars(Unsubscribes) /\ WF_vars(Close)

Spec == Init /\ [][Next]_vars /\ Fairness

-----------------------------------------------------------------------------
UnderWay == IF busPubPc[Producer] = "checked" \/ busTodo[Producer] # {} THEN 1 ELSE 0
InHandler == IF busSubPc[Handler] \in {"handling", "drainHandling"} THEN 1 ELSE 0

(* While the dashboard is live it accounts for every event: published ones *)
(* are counted, dropped, queued or on their way, and the ones shown are    *)
(* the last that were handled, in the order of their publication.          *)
EventsAccounted ==
  /\ ui = "live" =>
       busCalls[Producer] = total + dropped + Len(busCh[Handler]) + UnderWay + InHandler
  /\ IsSuffix(recent, last) /\ Len(recent) = (IF total < RingCap THEN total ELSE RingCap)
  /\ \A i \in 1..(Len(last) - 1) : last[i] < last[i + 1]

(* Quitting ends the program: the worker's last handler gets its lock, the *)
(* queue drains, and the scenario, which may still publish, is not waited  *)
(* for.                                                                    *)
QuitEnds == ui = "stopping" ~> ui = "gone"
=============================================================================
