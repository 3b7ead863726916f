-------------------------------- MODULE Buses --------------------------------
(***************************************************************************)
(* The event buses, for model checking in one run: the Async bus under any *)
(* use (EventBusAsync), the Sync bus (SyncBus), and the inspector, which   *)
(* uses an Async bus in one way of its own (Inspect).  As in Limits, a     *)
(* behaviour picks one of them and the others stay as they begin.          *)
(***************************************************************************)
EXTENDS EventBusAsync

CONSTANTS SyncPublishers, MaxID,        \* SyncBus
          QueueSize, RingCap, MaxEvents \* Inspect

ASSUME RingAssumption == RingCap \in Nat

VARIABLES
  focus,
  nextID, handlers, pc, ids, toCall, called, before, kept,
  busDropWhenFull, busBufferSize, busClosed, busSubs, busSubPc, busCh, busStop, busPubPc,
  busTodo, busCalls, busClosePc, busEarly, busHandled,
  ui, cancelled, scenario, done, total, recent, dropped, last

Sync == INSTANCE SyncBus WITH Publishers <- SyncPublishers, todo <- toCall
Ins == INSTANCE Inspect

syncVars == <<nextID, handlers, pc, ids, toCall, called, before, kept>>
insVars == <<busDropWhenFull, busBufferSize, busClosed, busSubs, busSubPc, busCh, busStop, busPubPc,
             busTodo, busCalls, busClosePc, busEarly, busHandled,
             ui, cancelled, scenario, done, total, recent, dropped, last>>

BusesInit == /\ focus \in {"async", "sync", "inspect"}
             /\ Init /\ Sync!Init /\ Ins!Init
             /\ focus = "async" \/ (~dropWhenFull /\ bufferSize = CHOOSE n \in BufferSizes : TRUE)

Only(part) == /\ focus = part /\ UNCHANGED focus
              /\ part # "async" => UNCHANGED vars
              /\ part # "sync" => UNCHANGED syncVars
              /\ part # "inspect" => UNCHANGED insVars

BusesNext == \/ Next /\ Only("async")
             \/ Sync!Next /\ Only("sync")
             \/ Ins!Next /\ Only("inspect")

BusesSpec == /\ BusesInit /\ [][BusesNext]_<<focus, vars, syncVars, insVars>>
             /\ Fairness /\ Ins!Fairness

-----------------------------------------------------------------------------
(* Events reach who they are for: a Sync Publish calls the handlers that   *)
(* stay, in their order, each once (eventbus.go), and the inspector's      *)
(* counts cover every event of a scenario, shown, dropped or under way     *)
(* (cmd/inspect/producer.go, model.go).                                    *)
NoneLost == Sync!Delivers /\ Ins!EventsAccounted

(* Quitting the inspector ends it: neither the full queue nor the worker   *)
(* that feeds the screen can hold it up (cmd/inspect/model.go).            *)
QuitEnds == Ins!QuitEnds
=============================================================================
