------------------------------- MODULE Server -------------------------------
(***************************************************************************)
(* The life of cmd/server: main boots its resources in parallel, registers *)
(* how to close them with the Coordinator of module Shutdown, starts the   *)
(* river job client, and calls Run of internal/httpserver, which on a      *)
(* signal drains the HTTP server and then calls Coordinator.Shutdown, both *)
(* under one context of ten seconds, the budget.                           *)
(*                                                                         *)
(* The hooks' own limit is ten seconds as well and starts later, so a hook *)
(* never times out before the budget has ended.  pgxpool, river, valkey    *)
(* and net/http are modelled by what main relies on: Pool.Close refuses    *)
(* new users and returns when there are none, Client.Stop returns when no  *)
(* job is at work, http.Server.Shutdown when no request is.  A request to  *)
(* /ws is no longer one of them once its connection has been hijacked: its *)
(* handler then echoes messages, with neither pool nor cache, for as long  *)
(* as the client likes.                                                    *)
(***************************************************************************)
EXTENDS Naturals, FiniteSets, Sequences

CONSTANTS MaxRequests, \* bound: requests in flight and sockets
          MaxJobs,     \* bound: jobs at work
          Nil

VARIABLES
  coHooks, coClosure, coGone, coStarted, coDoneCh, coPc, coRunner, coCtxDone, coCopied,
  coTodo, coHookAt, coOutcome, coRet, \* the Coordinator: see Shutdown
  boot,     \* the three functions bootResources runs in parallel
  pool,     \* the pgx pool: "none", "open", "closing" (no new users), "closed"
  cache,    \* the valkey client: "none", "open" or "closed"
  main,     \* where main is
  serve,    \* the goroutine of http.Server.Serve
  requests, \* requests in flight that http.Server keeps track of
  sockets,  \* handlers of hijacked connections, which it does not
  river,    \* the job client: "off", "on", "stopping", "cancelling", "stopped"
  jobs,     \* jobs at work
  drainErr, \* hs.Shutdown returned an error
  exit      \* "none", "nil" (Run returned nil) or "fatal" (log.Fatalf)

coordRest == <<coHooks, coClosure, coGone, coStarted, coDoneCh, coPc, coRunner, coCopied,
               coTodo, coHookAt, coOutcome, coRet>>
coordVars == <<coordRest, coCtxDone>>
bootVars == <<boot, pool, cache>>
workVars == <<serve, requests, sockets, river, jobs>>
vars == <<coordVars, bootVars, main, workVars, drainErr, exit>>

MainHooks == {"cache", "db-pool", "river"}
Run == "Run"

Coord == INSTANCE Shutdown WITH
           Callers <- {Run}, Hooks <- MainHooks, Names <- MainHooks, Bounded <- TRUE,
           hooks <- coHooks, closure <- coClosure, gone <- coGone, started <- coStarted,
           doneCh <- coDoneCh, pc <- coPc, runner <- coRunner, ctxDone <- coCtxDone,
           copied <- coCopied, todo <- coTodo, hookAt <- coHookAt, outcome <- coOutcome,
           ret <- coRet

Init == /\ Coord!Init
        /\ boot = [f \in {"migrate", "pool", "cache"} |-> "running"]
        /\ pool = "none" /\ cache = "none"
        /\ main = "booting"
        /\ serve = "off" /\ requests = 0 /\ sockets = 0
        /\ river = "off" /\ jobs = 0
        /\ drainErr = FALSE /\ exit = "none"

Fatal == main' = "gone" /\ exit' = "fatal"

-----------------------------------------------------------------------------
(* Booting.                                                                *)
\* One of the functions of the group opens its resource or fails.
BootReturns(f) ==
  /\ boot[f] = "running"
  /\ \/ /\ boot' = [boot EXCEPT ![f] = "ok"]
        /\ pool' = IF f = "pool" THEN "open" ELSE pool
        /\ cache' = IF f = "cache" THEN "open" ELSE cache
     \/ /\ boot' = [boot EXCEPT ![f] = "failed"]
        /\ UNCHANGED <<pool, cache>>
  /\ UNCHANGED <<coordVars, main, workVars, drainErr, exit>>

BootJoined == main = "booting" /\ \A f \in DOMAIN boot : boot[f] # "running"

\* What did open is closed again before main gives up.
BootFails == /\ BootJoined /\ \E f \in DOMAIN boot : boot[f] = "failed"
             /\ pool' = IF pool = "open" THEN "closed" ELSE pool
             /\ cache' = IF cache = "open" THEN "closed" ELSE cache
             /\ Fatal
             /\ UNCHANGED <<coordVars, boot, workVars, drainErr>>

\* Slip: the pool is registered last, and so closed first.
RegistersPoolLast(from, h, to) ==
  /\ \/ from = "booted" /\ h = "cache" /\ to = "cacheRegistered"
     \/ from = "cacheRegistered" /\ h = "river" /\ to = "poolRegistered"
     \/ from = "riverStarted" /\ h = "db-pool" /\ to = "ready"

\* The order in which main registers.
Registers(from, h, to) ==
  /\ \/ from = "booted" /\ h = "cache" /\ to = "cacheRegistered"
     \/ from = "cacheRegistered" /\ h = "db-pool" /\ to = "poolRegistered"
     \/ from = "riverStarted" /\ h = "river" /\ to = "ready"

BootSucceeds == /\ BootJoined /\ \A f \in DOMAIN boot : boot[f] = "ok"
                /\ main' = "booted"
                /\ UNCHANGED <<coordVars, bootVars, workVars, drainErr, exit>>

RegisterHook == \E h \in MainHooks, to \in {"cacheRegistered", "poolRegistered", "ready"} :
                  /\ Registers(main, h, to)
                  /\ Coord!Register(h, h)
                  /\ main' = to
                  /\ UNCHANGED <<bootVars, workVars, drainErr, exit>>

\* jobs.Migrate, NewClient and Start; any of them may fail, and main leaves
\* without closing what it has.
StartRiver == /\ main = "poolRegistered"
              /\ \/ /\ main' = "riverStarted" /\ river' = "on" /\ UNCHANGED exit
                 \/ Fatal /\ UNCHANGED river
              /\ UNCHANGED <<coordVars, bootVars, serve, requests, sockets, jobs, drainErr>>

\* Run: the listener is bound and Serve has its goroutine, or Listen fails.
Listen == /\ main = "ready"
          /\ \/ main' = "serving" /\ serve' = "serving" /\ UNCHANGED exit
             \/ Fatal /\ UNCHANGED serve
          /\ UNCHANGED <<coordVars, bootVars, requests, sockets, river, jobs, drainErr>>

-----------------------------------------------------------------------------
(* Requests and jobs, while the process lives.                             *)
RequestBegins == /\ serve = "serving" /\ main # "gone"
                 /\ requests + sockets < MaxRequests
                 /\ requests' = requests + 1
                 /\ UNCHANGED <<coordVars, bootVars, main, serve, sockets, river, jobs,
                                drainErr, exit>>

RequestEnds == /\ requests > 0 /\ main # "gone"
               /\ requests' = requests - 1
               /\ UNCHANGED <<coordVars, bootVars, main, serve, sockets, river, jobs, drainErr,
                              exit>>

\* A request to /ws is upgraded.
SocketOpens == /\ requests > 0 /\ main # "gone"
               /\ requests' = requests - 1 /\ sockets' = sockets + 1
               /\ UNCHANGED <<coordVars, bootVars, main, serve, river, jobs, drainErr, exit>>

SocketEnds == /\ sockets > 0 /\ main # "gone"
              /\ sockets' = sockets - 1
              /\ UNCHANGED <<coordVars, bootVars, main, serve, requests, river, jobs, drainErr,
                             exit>>

JobBegins == /\ river = "on" /\ main # "gone" /\ jobs < MaxJobs
             /\ jobs' = jobs + 1
             /\ UNCHANGED <<coordVars, bootVars, main, serve, requests, sockets, river, drainErr,
                            exit>>

JobEnds == /\ jobs > 0 /\ main # "gone"
           /\ jobs' = jobs - 1
           /\ UNCHANGED <<coordVars, bootVars, main, serve, requests, sockets, river, drainErr,
                          exit>>

\* Serve breaks down: Run returns its error, and nothing is drained or closed.
ServeFails == /\ main = "serving"
              /\ serve' = "failed"
              /\ Fatal
              /\ UNCHANGED <<coordVars, bootVars, requests, sockets, river, jobs, drainErr>>

-----------------------------------------------------------------------------
(* Stopping.                                                               *)
\* A signal: Run leaves its select, the budget starts, hs.Shutdown closes
\* the listener and Serve returns ErrServerClosed.
Signal == /\ main = "serving"
          /\ main' = "draining" /\ serve' = "closed"
          /\ UNCHANGED <<coordVars, bootVars, requests, sockets, river, jobs, drainErr, exit>>

BudgetEnds == /\ main \in {"draining", "closing"} /\ ~coCtxDone
              /\ coCtxDone' = TRUE
              /\ UNCHANGED <<coordRest, bootVars, main, workVars, drainErr, exit>>

\* Slip: the hooks run beside the drain instead of after it.
DrainedAtOnce == main = "draining" /\ drainErr' = FALSE

\* Slip: the drain is given a context without a limit.
DrainedFully == main = "draining" /\ requests = 0 /\ drainErr' = FALSE

\* hs.Shutdown returns: no request is left that it waits for, or the budget
\* has ended.
Drained == /\ main = "draining"
           /\ \/ requests = 0 /\ drainErr' = FALSE
              \/ coCtxDone /\ drainErr' = TRUE

\* Run goes on to OnShutdown, with what is left of the budget.
CallOnShutdown == /\ Drained
                  /\ Coord!ShutdownFirst(Run)
                  /\ main' = "closing"
                  /\ UNCHANGED <<bootVars, workVars, exit>>

\* The Coordinator's own steps; a hook's limit is the budget (see above).
CoordStep == /\ main = "closing"
             /\ \/ Coord!StartHook \/ Coord!HookDone \/ Coord!Abort \/ Coord!Finish
                \/ coCtxDone /\ Coord!HookTimesOut
             /\ UNCHANGED <<bootVars, main, workVars, drainErr, exit>>

Hook(h) == main # "gone" /\ coHookAt[h] = "running"

CloseCache == /\ Hook("cache")
              /\ Coord!HookReturns("cache") /\ coHookAt'["cache"] = "ok"
              /\ cache' = "closed"
              /\ UNCHANGED <<boot, pool, main, workVars, drainErr, exit>>

ClosePoolBegins == /\ Hook("db-pool") /\ pool = "open"
                   /\ pool' = "closing"
                   /\ UNCHANGED <<coordVars, boot, cache, main, workVars, drainErr, exit>>

ClosePoolReturns == /\ Hook("db-pool") /\ pool = "closing" /\ requests + jobs = 0
                    /\ Coord!HookReturns("db-pool") /\ coHookAt'["db-pool"] = "ok"
                    /\ pool' = "closed"
                    /\ UNCHANGED <<boot, cache, main, workVars, drainErr, exit>>

\* jobs.Stop: graceful at first.
StopRiverBegins == /\ Hook("river") /\ river = "on"
                   /\ river' = "stopping"
                   /\ UNCHANGED <<coordVars, bootVars, main, serve, requests, sockets, jobs,
                                  drainErr, exit>>

RiverHookReturns(r) == Coord!HookReturns("river") /\ coHookAt'["river"] = r

\* Client.Stop returns nil, or StopAndCancel does.
RiverStops == /\ Hook("river") /\ river \in {"stopping", "cancelling"} /\ jobs = 0
              /\ RiverHookReturns("ok")
              /\ river' = "stopped"
              /\ UNCHANGED <<bootVars, main, serve, requests, sockets, jobs, drainErr, exit>>

\* The grace period is over: cancel what is at work.
GraceEnds == /\ Hook("river") /\ river = "stopping"
             /\ river' = "cancelling"
             /\ UNCHANGED <<coordVars, bootVars, main, serve, requests, sockets, jobs,
                            drainErr, exit>>

\* Client.Stop fails in another way, or StopAndCancel because the context
\* has ended.
RiverStopFails == /\ Hook("river")
                  /\ river = "stopping" \/ (river = "cancelling" /\ coCtxDone)
                  /\ RiverHookReturns("failed")
                  /\ UNCHANGED <<bootVars, main, workVars, drainErr, exit>>

\* Slip: the error of OnShutdown is dropped.
RunReturnsDrainErr == IF ~drainErr THEN "nil" ELSE "fatal"

\* Run joins the errors; main makes any of them fatal.
RunResult == IF coRet[Run] = "nil" /\ ~drainErr THEN "nil" ELSE "fatal"

RunReturns == /\ main = "closing" /\ coRet[Run] # "none"
              /\ main' = "gone" /\ exit' = RunResult
              /\ UNCHANGED <<coordVars, bootVars, workVars, drainErr>>

-----------------------------------------------------------------------------
HookBody == \/ CloseCache \/ ClosePoolBegins \/ ClosePoolReturns
            \/ StopRiverBegins \/ RiverStops \/ GraceEnds \/ RiverStopFails

Next == \/ \E f \in DOMAIN boot : BootReturns(f)
        \/ BootFails \/ BootSucceeds \/ RegisterHook \/ StartRiver \/ Listen
        \/ RequestBegins \/ RequestEnds \/ SocketOpens \/ SocketEnds \/ JobBegins \/ JobEnds
        \/ ServeFails \/ Signal \/ BudgetEnds \/ CallOnShutdown \/ CoordStep \/ HookBody
        \/ RunReturns

\* Time passes and Run's goroutine runs; no request, socket, job or hook has
\* to end.
Fairness == WF_vars(BudgetEnds) /\ WF_vars(CallOnShutdown) /\ WF_vars(CoordStep)
            /\ WF_vars(RunReturns)

Spec == Init /\ [][Next]_vars /\ Fairness

-----------------------------------------------------------------------------
(* The pool is not closed under anybody who uses it: requests are drained  *)
(* and jobs stopped first, whatever times out, because a drain or a river  *)
(* hook that runs out of budget leaves none for the hooks after it.  The   *)
(* exception is Client.Stop failing for a reason of its own.               *)
PoolOutlivesUsers == pool \in {"closing", "closed"} /\ main # "gone" =>
                       requests = 0 /\ (jobs = 0 \/ coOutcome["river"] = "failed")

(* Run returns nil only when nothing was cut short that the server answers *)
(* for: no request that net/http tracks and no job is at work, and the job *)
(* client, the pool and the cache are closed.  Handlers of hijacked        *)
(* connections may still be at work.                                       *)
NilMeansClean == exit = "nil" => /\ requests = 0 /\ jobs = 0
                                 /\ river = "stopped" /\ pool = "closed"
                                 /\ cache = "closed"

(* Run is to "drain in-flight requests" (httpserver.go:3): when it returns *)
(* nil, no handler is at work.  False of the code, where those of /ws go   *)
(* on after their connections were hijacked.  Stated, not checked.         *)
NilMeansDrained == exit = "nil" => requests + sockets = 0

(* A signal ends the process, though requests, jobs and hooks may hang.    *)
SignalEndsRun == main = "draining" ~> main = "gone"
=============================================================================
