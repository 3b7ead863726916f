------------------------------ MODULE Stopping -------------------------------
(***************************************************************************)
(* Three parts that stop a program, for model checking in one run: the     *)
(* Coordinator by itself (Shutdown), the server that is built around one   *)
(* (Server), and the readiness it reports (HealthCheck).  As in Limits, a  *)
(* behaviour picks one of them and the others stay as they begin.          *)
(***************************************************************************)
EXTENDS Shutdown

CONSTANTS MaxRequests, MaxJobs, \* Server
          Probes, Deps, Checks  \* HealthCheck

VARIABLES
  focus,
  coHooks, coClosure, coGone, coStarted, coDoneCh, coPc, coRunner, coCtxDone, coCopied,
  coTodo, coHookAt, coOutcome, coRet, boot, pool, cache, main, serve, requests, sockets,
  river, jobs, drainErr, exit,
  readiness, liveness, shuttingDown, up, checkPc, kind, probes, result, report, kept,
  seenUp, late

Srv == INSTANCE Server
Ready == INSTANCE HealthCheck WITH Names <- Probes, pc <- checkPc

srvVars == <<coHooks, coClosure, coGone, coStarted, coDoneCh, coPc, coRunner, coCtxDone,
             coCopied, coTodo, coHookAt, coOutcome, coRet, boot, pool, cache, main, serve,
             requests, sockets, river, jobs, drainErr, exit>>
readyVars == <<readiness, liveness, shuttingDown, up, checkPc, kind, probes, result, report,
               kept, seenUp, late>>

StoppingInit == /\ focus \in {"coordinator", "server", "readiness"}
                /\ Init /\ Srv!Init /\ Ready!Init
                /\ focus = "readiness" \/ up = {}

Only(part) == /\ focus = part /\ UNCHANGED focus
              /\ part # "coordinator" => UNCHANGED vars
              /\ part # "server" => UNCHANGED srvVars
              /\ part # "readiness" => UNCHANGED readyVars

StoppingNext == \/ Next /\ Only("coordinator")
                \/ Srv!Next /\ Only("server")
                \/ Ready!Next /\ Only("readiness")

StoppingSpec == /\ StoppingInit /\ [][StoppingNext]_<<focus, vars, srvVars, readyVars>>
                /\ Fairness /\ Srv!Fairness

-----------------------------------------------------------------------------
(* What the server says of its end is true: the pool is not closed under   *)
(* its users, and when Run returns nil, requests are drained, jobs stopped *)
(* and resources closed (main.go, httpserver.go), though hijacked          *)
(* connections may still be served; a readiness of "ok" vouches for every  *)
(* probe that was registered all along, and was not begun in the shutdown  *)
(* (healthcheck.go).                                                       *)
ReportsAreTrue == Srv!PoolOutlivesUsers /\ Srv!NilMeansClean /\ Ready!OkVouches

(* A signal ends the server, whatever hangs (httpserver.go, Run).          *)
SignalEndsRun == Srv!SignalEndsRun
=============================================================================
