-------------------------------- MODULE Perf ---------------------------------
(***************************************************************************)
(* internal/perf: a tracker, a child of it from Serial, and spans on both  *)
(* that any goroutine may annotate and stop.  Track is a span that nobody  *)
(* annotates.  An entry is the span it is about, with its attributes; that *)
(* of a child holds a slice of the child's entries, here by its length.    *)
(*                                                                         *)
(* End reads the child's entries without its mutex; the model takes them   *)
(* whole, as callers do who End a child when its spans have stopped.       *)
(***************************************************************************)
EXTENDS Naturals, FiniteSets, Sequences, SequencesExt

CONSTANTS Spans,
          MaxSets, \* bound: SetAttr calls on a span
          MaxEnds  \* bound: End calls on the child

VARIABLES on,       \* the tracker of each span
          attrs,    \* its attributes: the number of the last SetAttr
          stopped,  \* realSpan.stopped
          stopping, \* Stop calls between the unlock and the entry
          atStop,   \* history: its attributes when it was stopped
          entries   \* realTracker.entries of both trackers

vars == <<on, attrs, stopped, stopping, atStop, entries>>

Init == /\ on = [s \in Spans |-> "none"]
        /\ attrs = [s \in Spans |-> 0]
        /\ stopped = [s \in Spans |-> FALSE]
        /\ stopping = [s \in Spans |-> 0]
        /\ atStop = [s \in Spans |-> 0]
        /\ entries = [t \in {"root", "child"} |-> <<>>]

NewSpan(s) == /\ on[s] = "none"
              /\ \E t \in {"root", "child"} : on' = [on EXCEPT ![s] = t]
              /\ UNCHANGED <<attrs, stopped, stopping, atStop, entries>>

\* Slip: attributes may come after Stop.
MayAlwaysSet(s) == TRUE

MaySet(s) == ~stopped[s]

\* SetAttr and AddMetric, under the span's mutex.
SetAttr(s) == /\ on[s] # "none" /\ MaySet(s) /\ attrs[s] < MaxSets
              /\ attrs' = [attrs EXCEPT ![s] = @ + 1]
              /\ UNCHANGED <<on, stopped, stopping, atStop, entries>>

\* Stop under the mutex; a second call returns here.
Stop(s) == /\ on[s] # "none" /\ ~stopped[s]
           /\ stopped' = [stopped EXCEPT ![s] = TRUE]
           /\ stopping' = [stopping EXCEPT ![s] = @ + 1]
           /\ atStop' = [atStop EXCEPT ![s] = attrs[s]]
           /\ UNCHANGED <<on, attrs, entries>>

\* AddEntryDetails copies the maps it was given, without the span's mutex.
AddEntryDetails(s) ==
  /\ stopping[s] > 0
  /\ stopping' = [stopping EXCEPT ![s] = @ - 1]
  /\ entries' = [entries EXCEPT ![on[s]] = Append(@, [of |-> s, attrs |-> attrs[s], kids |-> 0])]
  /\ UNCHANGED <<on, attrs, stopped, atStop>>

\* End of the child; a second call records it again.
End == /\ Cardinality({i \in DOMAIN entries["root"] : entries["root"][i].of = "child"}) < MaxEnds
       /\ entries' = [entries EXCEPT !["root"] =
                        Append(@, [of |-> "child", attrs |-> 0, kids |-> Len(entries["child"])])]
       /\ UNCHANGED <<on, attrs, stopped, stopping, atStop>>

\* Slip: End hands over the child, not what it holds.
AllKids(entry) == IF entry.of = "child" THEN entries["child"] ELSE <<>>

OwnChildren(entry) == SubSeq(entries["child"], 1, entry.kids)

\* GetTimings of the root: a deep copy.
GetTimings == [i \in DOMAIN entries["root"] |->
                 [entry |-> entries["root"][i], kids |-> OwnChildren(entries["root"][i])]]

Next == End \/ \E s \in Spans : NewSpan(s) \/ SetAttr(s) \/ Stop(s) \/ AddEntryDetails(s)

Spec == Init /\ [][Next]_vars

-----------------------------------------------------------------------------
(* A stopped span is recorded once, however many goroutines stop it, with  *)
(* the attributes it had at that moment and not with later ones.           *)
SpansRecorded ==
  \A s \in Spans : \A t \in DOMAIN entries :
    LET own == {i \in DOMAIN entries[t] : entries[t][i].of = s}
    IN  IF t = on[s] /\ stopped[s] /\ stopping[s] = 0
        THEN \E i \in DOMAIN entries[t] :
               own = {i} /\ entries[t][i] = [of |-> s, attrs |-> atStop[s], kids |-> 0]
        ELSE own = {}

(* What GetTimings has reported it reports again, and only adds to it: a   *)
(* child that goes on after its End does not change the entry End made.    *)
ReportsGrow == [][IsPrefix(GetTimings, GetTimings')]_vars
=============================================================================
