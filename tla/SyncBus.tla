------------------------------ MODULE SyncBus ------------------------------
(***************************************************************************)
(* internal/eventbus, the Sync bus: Publish copies the ids of the handlers *)
(* under the read lock, sorts them, copies the handlers that are still     *)
(* there under the lock again, and calls them in its own goroutine with no *)
(* lock held.  Subscribe and Unsubscribe may come at any time, from a      *)
(* handler too.  A publisher publishes one event at a time.                *)
(***************************************************************************)
EXTENDS Naturals, FiniteSets, Sequences, SequencesExt

CONSTANTS Publishers,
          MaxID \* bound: subscriptions ever made

VARIABLES nextID,
          handlers, \* ids of the handlers subscribed
          pc,       \* "idle", "sorting", "calling" for each publisher
          ids,      \* the ids it copied
          todo,     \* the handlers it has yet to call, in order
          called,   \* those it has called for the event
          before,   \* the handlers there were when it began
          kept      \* those of them that are still there

vars == <<nextID, handlers, pc, ids, todo, called, before, kept>>
publish == <<pc, ids, todo, called, before>>

Init == /\ nextID = 0 /\ handlers = {}
        /\ pc = [p \in Publishers |-> "idle"]
        /\ ids = [p \in Publishers |-> {}] /\ before = ids /\ kept = ids
        /\ todo = [p \in Publishers |-> <<>>] /\ called = todo

Subscribe == /\ nextID < MaxID
             /\ nextID' = nextID + 1
             /\ handlers' = handlers \cup {nextID}
             /\ UNCHANGED <<publish, kept>>

Unsubscribe(id) == /\ id \in handlers
                   /\ handlers' = handlers \ {id}
                   /\ kept' = [p \in Publishers |-> kept[p] \ {id}]
                   /\ UNCHANGED <<nextID, publish>>

CopyIDs(p) == /\ pc[p] = "idle"
              /\ ids' = [ids EXCEPT ![p] = handlers]
              /\ before' = [before EXCEPT ![p] = handlers]
              /\ kept' = [kept EXCEPT ![p] = handlers]
              /\ called' = [called EXCEPT ![p] = <<>>]
              /\ pc' = [pc EXCEPT ![p] = "sorting"]
              /\ UNCHANGED <<nextID, handlers, todo>>

\* Slip: the second copy takes what the map has by now.
TakesAll(p) == handlers

StillThere(p) == ids[p] \cap handlers

\* The ids of a set in ascending order.
sortIDs(set) == CHOOSE s \in [1..Cardinality(set) -> set] :
                  /\ ToSet(s) = set
                  /\ \A i, j \in DOMAIN s : i < j => s[i] < s[j]

CopyHandlers(p) == /\ pc[p] = "sorting"
                   /\ todo' = [todo EXCEPT ![p] = sortIDs(StillThere(p))]
                   /\ pc' = [pc EXCEPT ![p] = "calling"]
                   /\ UNCHANGED <<nextID, handlers, ids, called, before, kept>>

Call(p) == /\ pc[p] = "calling" /\ todo[p] # <<>>
           /\ called' = [called EXCEPT ![p] = Append(@, Head(todo[p]))]
           /\ todo' = [todo EXCEPT ![p] = Tail(@)]
           /\ UNCHANGED <<nextID, handlers, pc, ids, before, kept>>

Return(p) == /\ pc[p] = "calling" /\ todo[p] = <<>>
             /\ pc' = [pc EXCEPT ![p] = "idle"]
             /\ UNCHANGED <<nextID, handlers, ids, todo, called, before, kept>>

\* A handler panics in the publisher's goroutine: the rest is not called.
Panic(p) == /\ pc[p] = "calling" /\ called[p] # <<>>
            /\ todo' = [todo EXCEPT ![p] = <<>>]
            /\ pc' = [pc EXCEPT ![p] = "idle"]
            /\ UNCHANGED <<nextID, handlers, ids, called, before, kept>>

Next == \/ Subscribe \/ \E id \in 0..MaxID : Unsubscribe(id)
        \/ \E p \in Publishers : CopyIDs(p) \/ CopyHandlers(p) \/ Call(p) \/ Return(p) \/ Panic(p)

Spec == Init /\ [][Next]_vars

-----------------------------------------------------------------------------
(* Publish calls handlers in subscription order, each once, and none that  *)
(* subscribed while it ran; it has called or will call all those that      *)
(* have been there since it began, whoever came and went meanwhile.        *)
Delivers ==
  \A p \in Publishers :
    /\ ToSet(called[p]) \subseteq before[p]
    /\ \A i, j \in 1..Len(called[p]) : i < j => called[p][i] < called[p][j]
    /\ pc[p] = "calling" => kept[p] \subseteq ToSet(called[p] \o todo[p])

(* A handler is not called once its Unsubscribe has returned.  False of    *)
(* the code, which calls from its copy.  Stated, not checked.              *)
UnsubscribedStaysQuiet ==
  [][\A p \in Publishers : Call(p) => Head(todo[p]) \in handlers]_vars
=============================================================================
