-------------------------------- MODULE JWKS --------------------------------
(***************************************************************************)
(* internal/auth, jwksCache: requests look a key up by its id; one that    *)
(* finds the cache stale or the id missing fetches the provider's document *)
(* unless a refresh succeeded a short while ago.  mu is not held across    *)
(* the fetch, so fetches overlap and their answers come in any order.      *)
(*                                                                         *)
(* The provider (external) adds and retires ids.  A request, its fetch     *)
(* included, lasts Patience ticks at most: the parameter in which the      *)
(* bounds are stated.  jwks.go sets no limit; its caller's context may.    *)
(***************************************************************************)
EXTENDS Integers

CONSTANTS Requests, Kids,
          TTL,      \* ttl of newJWKSCache
          Interval, \* the 30 seconds between refreshes
          Patience, \* how long a request may last
          MaxTime,  \* bound: the last tick
          Never,    \* no such time yet
          None      \* no keys yet, no key served

VARIABLES now,
          published,   \* the provider's document
          retiredAt,   \* when each id left it
          keys,        \* jwksCache.keys, None for nil
          fetchedAt,   \* jwksCache.fetchedAt; it and lastRefresh are set together
          pc, kid,     \* where each request is, and the id it looks up
          startedAt,   \* when it began
          answer,      \* the document its fetch was answered with
          served       \* the id it was served, None for an error

vars == <<now, published, retiredAt, keys, fetchedAt, pc, kid, startedAt, answer, served>>
provider == <<published, retiredAt>>
cache == <<keys, fetchedAt>>

\* One id is published, the others are to come.
Init == /\ now = 0
        /\ \E k \in Kids : published = {k}
        /\ retiredAt = [k \in Kids |-> Never]
        /\ keys = None /\ fetchedAt = Never
        /\ pc = [r \in Requests |-> "idle"]
        /\ kid \in [Requests -> Kids]
        /\ startedAt = [r \in Requests |-> 0]
        /\ answer = [r \in Requests |-> {}]
        /\ served = [r \in Requests |-> None]

Tick == /\ now < MaxTime
        /\ \A r \in Requests : pc[r] # "idle" => now < startedAt[r] + Patience
        /\ now' = now + 1
        /\ UNCHANGED <<provider, cache, pc, kid, startedAt, answer, served>>

\* The provider publishes an id it has not used before, retires another.
Rotate == \E new \in Kids \ published, old \in published :
            /\ retiredAt[new] = Never
            /\ published' = (published \ {old}) \cup {new}
            /\ retiredAt' = [retiredAt EXCEPT ![old] = now]
            /\ UNCHANGED <<now, cache, pc, kid, startedAt, answer, served>>

\* Slip: a document once fetched is good for ever.
NotStale == keys # None

Fresh == keys # None /\ now - fetchedAt <= TTL

MayRefresh == fetchedAt = Never \/ now - fetchedAt > Interval

Goto(r, label) == pc' = [pc EXCEPT ![r] = label]

Serve(r, k) == served' = [served EXCEPT ![r] = IF keys # None /\ k \in keys THEN k ELSE None]

\* key, under the first hold of mu.
Key(r, k) == /\ pc[r] = "idle"
             /\ kid' = [kid EXCEPT ![r] = k]
             /\ startedAt' = [startedAt EXCEPT ![r] = now]
             /\ IF Fresh /\ k \in keys
                THEN Serve(r, k) /\ UNCHANGED pc
                ELSE /\ served' = [served EXCEPT ![r] = None]
                     /\ Goto(r, IF MayRefresh THEN "fetching" ELSE "looking")
             /\ UNCHANGED <<now, provider, cache, answer>>

\* The provider answers the fetch with the document of this moment.
Answered(r) == /\ pc[r] = "fetching"
               /\ answer' = [answer EXCEPT ![r] = published]
               /\ Goto(r, "answered")
               /\ UNCHANGED <<now, provider, cache, kid, startedAt, served>>

\* The fetch fails, or its status or body is no good: key returns the error.
FetchFails(r) == /\ pc[r] \in {"fetching", "answered"}
                 /\ Goto(r, "idle")
                 /\ UNCHANGED <<now, provider, cache, kid, startedAt, answer, served>>

\* refresh stores what it got, under mu.
Refreshes(r) == /\ pc[r] = "answered"
                /\ keys' = answer[r] /\ fetchedAt' = now
                /\ Goto(r, "looking")
                /\ UNCHANGED <<now, provider, kid, startedAt, answer, served>>

\* key, under the second hold of mu, whatever is in the cache by now.
Looks(r) == /\ pc[r] = "looking"
            /\ Serve(r, kid[r])
            /\ Goto(r, "idle")
            /\ UNCHANGED <<now, provider, cache, kid, startedAt, answer>>

Next == \/ Tick \/ Rotate
        \/ \E r \in Requests : \/ \E k \in Kids : Key(r, k)
                               \/ Answered(r) \/ FetchFails(r) \/ Refreshes(r) \/ Looks(r)

Spec == Init /\ [][Next]_vars

-----------------------------------------------------------------------------
\* The age a document may have when it is served: its answer waited for mu,
\* it stayed fresh or young, and the request that found it so went on.
Bound == Patience + (IF TTL > Interval THEN TTL ELSE Interval) + Patience

(* A retired key is not served for ever: although a slow answer may        *)
(* replace a newer one and count as fetched just now, no request is served *)
(* a key that left the provider's document longer than Bound ago.          *)
RetiredKeysGo ==
  [][\A r \in Requests, k \in Kids :
       served[r] # k /\ served'[r] = k =>
         retiredAt[k] = Never \/ now - retiredAt[k] <= Bound]_vars

(* A request that was answered with a document that has its id is served   *)
(* it, as the type's comment says of rotations (jwks.go:24-26).  False of  *)
(* the code: an older answer may come in before the second look.  Stated,  *)
(* not checked.                                                            *)
RefreshedKeyServed ==
  [][\A r \in Requests : Looks(r) /\ kid[r] \in answer[r] => served'[r] = kid[r]]_vars
=============================================================================
