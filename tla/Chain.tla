-------------------------------- MODULE Chain --------------------------------
(***************************************************************************)
(* internal/middleware as buildRouter stacks it over /api: Recover, the    *)
(* TrafficRecorder, ContentType and Gzip around a handler that may set a   *)
(* status, write and panic, in any order.                                  *)
(*                                                                         *)
(* net/http and compress/gzip (external) by what the code relies on: the   *)
(* first WriteHeader or Write settles the status, 200 for a Write; a       *)
(* gzip.Writer sends its header with its first Write, or with Close, may   *)
(* keep data back until Close, and writes to whatever Reset named last.    *)
(***************************************************************************)
EXTENDS Naturals, FiniteSets, Sequences

CONSTANTS Requests,
          Writers,   \* gzip.Writers, in gzipPool or out of it
          MaxWrites, \* bound: writes of one handler
          None

ErrorText == "Internal Server Error" \* what Recover writes

VARIABLES pc,      \* where each request is in the chain
          zip,     \* it accepts gzip
          writes,  \* history: what its handler wrote, so far
          gz,      \* the gzip.Writer it holds
          pool,    \* gzipPool, and the writers New has yet to make
          target,  \* the request each writer writes to
          kept,    \* what each writer has yet to send
          begun,   \* the writer has sent its header
          status,  \* what the client got, 0 for nothing so far
          body,    \* the content sent to the client, by its owners, and ErrorText
          seen,    \* statusWriter: status and wroteHeader
          stats    \* TrafficRecorder.stats: how many requests per status

vars == <<pc, zip, writes, gz, pool, target, kept, begun, status, body, seen, stats>>
gzipVars == <<gz, pool, target, kept, begun>>

Statuses == {200, 404, 500}

Init == /\ pc = [r \in Requests |-> "none"]
        /\ zip \in [Requests -> BOOLEAN]
        /\ writes = [r \in Requests |-> 0]
        /\ gz = [r \in Requests |-> None]
        /\ pool = Writers
        /\ target = [w \in Writers |-> None]
        /\ kept = [w \in Writers |-> <<>>]
        /\ begun = [w \in Writers |-> FALSE]
        /\ status = [r \in Requests |-> 0]
        /\ body = [r \in Requests |-> <<>>]
        /\ seen = [r \in Requests |-> [status |-> 200, wrote |-> FALSE]]
        /\ stats = [code \in Statuses |-> 0]

Goto(r, place) == pc' = [pc EXCEPT ![r] = place]

\* net/http: a status that is settled stays.
Settled(r, code) == IF status[r] = 0 THEN code ELSE status[r]

\* Slip: the last WriteHeader counts.
SeenLast(r, code) == [status |-> code, wrote |-> TRUE]

\* statusWriter.WriteHeader.
Seen(r, code) == IF seen[r].wrote THEN seen[r] ELSE [status |-> code, wrote |-> TRUE]

\* A WriteHeader that passes all writers below Recover.
SendHeader(r, code) == /\ status' = [status EXCEPT ![r] = Settled(r, code)]
                       /\ seen' = [seen EXCEPT ![r] = Seen(r, code)]

\* A Write of content by the chain, to the client of r.
Send(r, content) == /\ status' = [status EXCEPT ![r] = Settled(r, 200)]
                    /\ seen' = [seen EXCEPT ![r].wrote = TRUE]
                    /\ body' = [body EXCEPT ![r] = @ \o content]

-----------------------------------------------------------------------------
\* Slip: a pooled writer goes on where it was.
TargetKept(w, r) == IF target[w] = None THEN r ELSE target[w]

Target(w, r) == r

\* Down to the handler; Gzip takes a writer out of the pool and resets it.
Enter(r) ==
  /\ pc[r] = "none"
  /\ Goto(r, "handling")
  /\ IF zip[r]
     THEN \E w \in pool :
            /\ gz' = [gz EXCEPT ![r] = w]
            /\ pool' = pool \ {w}
            /\ target' = [target EXCEPT ![w] = Target(w, r)]
            /\ kept' = [kept EXCEPT ![w] = <<>>]
            /\ begun' = [begun EXCEPT ![w] = FALSE]
     ELSE UNCHANGED gzipVars
  /\ UNCHANGED <<zip, writes, status, body, seen, stats>>

HandlerSetsStatus(r) ==
  /\ pc[r] = "handling"
  /\ \E code \in Statuses : SendHeader(r, code)
  /\ UNCHANGED <<pc, zip, writes, gzipVars, body, stats>>

\* Plainly, or through the writer, which may keep it back.
HandlerWrites(r) ==
  /\ pc[r] = "handling" /\ writes[r] < MaxWrites
  /\ writes' = [writes EXCEPT ![r] = @ + 1]
  /\ IF gz[r] = None THEN Send(r, <<r>>) /\ UNCHANGED gzipVars
     ELSE LET w == gz[r]
          IN  /\ begun' = [begun EXCEPT ![w] = TRUE]
              /\ \/ /\ Send(target[w], kept[w] \o <<r>>)
                    /\ kept' = [kept EXCEPT ![w] = <<>>]
                 \/ /\ kept' = [kept EXCEPT ![w] = Append(@, r)]
                    /\ IF begun[w] THEN UNCHANGED <<status, body, seen>> ELSE Send(target[w], <<>>)
              /\ UNCHANGED <<gz, pool, target>>
  /\ UNCHANGED <<pc, zip, stats>>

\* The handler is over; Gzip's deferred function runs in either case.
HandlerEnds(r) == /\ pc[r] = "handling"
                  /\ Goto(r, "returning") \/ Goto(r, "panicking")
                  /\ UNCHANGED <<zip, writes, gzipVars, status, body, seen, stats>>

CloseGzip(r) == /\ pc[r] \in {"returning", "panicking"} /\ gz[r] # None
                /\ LET w == gz[r]
                   IN  /\ Send(target[w], kept[w])
                       /\ kept' = [kept EXCEPT ![w] = <<>>]
                       /\ pool' = pool \cup {w}
                /\ gz' = [gz EXCEPT ![r] = None]
                /\ UNCHANGED <<pc, zip, writes, target, begun, stats>>

\* The TrafficRecorder, past a handler that returned; net/http sends a 200
\* if nobody has sent anything.
Record(r) == /\ pc[r] = "returning" /\ gz[r] = None
             /\ stats' = [stats EXCEPT ![seen[r].status] = @ + 1]
             /\ status' = [status EXCEPT ![r] = Settled(r, 200)]
             /\ Goto(r, "done")
             /\ UNCHANGED <<zip, writes, gzipVars, body, seen>>

\* Recover's http.Error, on the writer below which all others are: a status
\* and a text, behind what was sent and, for gzip, behind the closed stream.
Recover(r) == /\ pc[r] = "panicking" /\ gz[r] = None
              /\ status' = [status EXCEPT ![r] = Settled(r, 500)]
              /\ body' = [body EXCEPT ![r] = Append(@, ErrorText)]
              /\ Goto(r, "recovered")
              /\ UNCHANGED <<zip, writes, gzipVars, seen, stats>>

Next == \E r \in Requests : \/ Enter(r) \/ HandlerSetsStatus(r) \/ HandlerWrites(r)
                            \/ HandlerEnds(r) \/ CloseGzip(r) \/ Record(r) \/ Recover(r)

Spec == Init /\ [][Next]_vars

-----------------------------------------------------------------------------
(* The statistics are about what clients got: as many requests are counted *)
(* under a status as were answered with it and returned, whatever order    *)
(* the handlers wrote in and whoever settled the status.                   *)
Counted(code) == {r \in Requests : pc[r] = "done" /\ status[r] = code}

TrafficAgrees == \A code \in Statuses : stats[code] = Cardinality(Counted(code))

(* Pooled writers keep responses apart and whole: a client gets what its   *)
(* own handler wrote and, once the request is over, all of it; one whose   *)
(* handler panicked gets Recover's text after that, and nothing else.      *)
Own(r) == [i \in 1..writes[r] |-> r]

BodiesWhole == \A r \in Requests :
                 /\ pc[r] # "recovered" => \A i \in DOMAIN body[r] : body[r][i] = r
                 /\ pc[r] = "done" => body[r] = Own(r)
                 /\ pc[r] = "recovered" => body[r] = Append(Own(r), ErrorText)

(* A panic before anything was written becomes a 500.  False of the code,  *)
(* and not only if the handler had set a status: for clients that accept   *)
(* gzip, closing the gzip.Writer sends a header and a trailer, and with    *)
(* them a 200, before Recover runs.  Stated, not checked.                  *)
PanicIsAnError == \A r \in Requests : pc[r] = "recovered" /\ writes[r] = 0 => status[r] # 200

(* What a client gets after a panic is the error and not a part of the     *)
(* response as well.  False of the code for a handler that had written.    *)
(* Stated, not checked.                                                    *)
PanicAnswersOnce == \A r \in Requests : pc[r] = "recovered" => body[r] = <<ErrorText>>
=============================================================================
