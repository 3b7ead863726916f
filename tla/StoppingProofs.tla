--------------------------- MODULE StoppingProofs ---------------------------
(***************************************************************************)
(* Proofs about the parts that Stopping puts side by side: the Coordinator *)
(* of internal/shutdown, for any callers, registrations and names, with    *)
(* and without a bound on the hooks; the life of cmd/server around one,    *)
(* for any load; the health checks, for any probes; and what Stopping asks *)
(* of the last two together.                                               *)
(***************************************************************************)
EXTENDS Stopping, SequenceTheorems, TLAPS

-----------------------------------------------------------------------------
(* The Coordinator.                                                        *)
Id(i) == copied[i].id

\* Only the first caller runs hooks, and it has begun exactly when started is
\* set; the others wait.
OneRunner == /\ runner = Nil <=> ~started
             /\ \A p \in Callers : /\ pc[p] \in {"looping", "inHook"} => p = runner
                                   /\ p = runner => pc[p] \in {"looping", "inHook", "returned"}
                                   /\ ret[p] # "none" => pc[p] = "returned"

\* A registration occurs once in the list, under the name it was made with.
HooksDistinct == \A i \in DOMAIN hooks :
  /\ closure[hooks[i].id] # Nil
  /\ closure[hooks[i].id].name = hooks[i].name
  /\ \A j \in DOMAIN hooks : hooks[i].id = hooks[j].id => i = j

\* Only a registration is deregistered.
GoneRegistered == gone \subseteq Registered

CopiedDistinct == \A i, j \in DOMAIN copied : Id(i) = Id(j) => i = j

\* Behind the loop's index every hook is settled; at the index one may run;
\* before it nothing has happened.
LoopPosition ==
  /\ runner = Nil => copied = <<>> /\ todo = 0
  /\ runner # Nil /\ pc[runner] = "inHook" => todo > 0
  /\ \A i \in DOMAIN copied :
       /\ i > todo => outcome[Id(i)] # "none" /\ hookAt[Id(i)] # "none"
       /\ i < todo => outcome[Id(i)] = "none" /\ hookAt[Id(i)] = "none"
       /\ i = todo => /\ outcome[Id(i)] = "none"
                      /\ hookAt[Id(i)] # "none" <=> pc[runner] = "inHook"
  /\ \A h \in Hooks : hookAt[h] # "none" \/ outcome[h] # "none" =>
                        \E i \in DOMAIN copied : h = Id(i)

\* What is recorded as a success was one.
OkIsOk == \A h \in Hooks : outcome[h] = "ok" => hookAt[h] = "ok"

\* What the end of the loop means.
EndOfLoop ==
  /\ doneCh => runner # Nil /\ pc[runner] = "returned"
  /\ runner # Nil /\ pc[runner] = "returned" => todo = 0 \/ ctxDone
  /\ runner # Nil /\ ret[runner] = "nil" => todo = 0 /\ ~Errors

\* The inductive invariant.
CoordinatorInv == /\ TypeOK
        /\ OneRunner /\ HooksDistinct /\ GoneRegistered /\ CopiedDistinct
        /\ LoopPosition /\ OkIsOk /\ EndOfLoop
        /\ LostByName
-----------------------------------------------------------------------------
\* What RemoveAt leaves of a sequence: everything but the i-th element.
LEMMA RemoveAtKeeps ==
  ASSUME NEW S, NEW s \in Seq(S), NEW i \in 1..Len(s)
  PROVE  /\ RemoveAt(s, i) \in Seq(S)
         /\ DOMAIN RemoveAt(s, i) = 1..(Len(s) - 1)
         /\ \A k \in 1..(Len(s) - 1) : RemoveAt(s, i)[k] = IF k < i THEN s[k] ELSE s[k + 1]
<1> DEFINE a == SubSeq(s, 1, i - 1)
<1> DEFINE b == SubSeq(s, i + 1, Len(s))
<1>1. a \in Seq(S) /\ Len(a) = i - 1 /\ \A k \in 1..(i - 1) : a[k] = s[k]
  <2>1. \A k \in 1..(i - 1) : s[k] \in S
    OBVIOUS
  <2> QED
    BY <2>1, SubSeqProperties
<1>2. b \in Seq(S) /\ Len(b) = Len(s) - i /\ \A k \in 1..(Len(s) - i) : b[k] = s[k + i]
  <2>1. \A k \in (i + 1)..Len(s) : s[k] \in S
    OBVIOUS
  <2> QED
    BY <2>1, SubSeqProperties
<1> HIDE DEF a, b
<1>3. /\ a \o b \in Seq(S)
      /\ Len(a \o b) = Len(s) - 1
      /\ \A k \in 1..(Len(s) - 1) : (a \o b)[k] = IF k < i THEN a[k] ELSE b[k - (i - 1)]
  <2>1. /\ a \o b \in Seq(S)
        /\ Len(a \o b) = Len(a) + Len(b)
        /\ \A k \in 1..(Len(a) + Len(b)) :
             (a \o b)[k] = IF k <= Len(a) THEN a[k] ELSE b[k - Len(a)]
    BY <1>1, <1>2, ConcatProperties, Zenon
  <2>2. Len(a) + Len(b) = Len(s) - 1 /\ \A k \in Int : k <= Len(a) <=> k < i
    BY <1>1, <1>2
  <2> QED
    BY <1>1, <2>1, <2>2
<1>4. \A k \in 1..(Len(s) - 1) : (a \o b)[k] = IF k < i THEN s[k] ELSE s[k + 1]
  BY <1>1, <1>2, <1>3
<1>5. RemoveAt(s, i) = a \o b
  BY DEF a, b, RemoveAt
<1> QED
  BY <1>3, <1>4, <1>5

\* What the lists hold are registrations.
LEMMA ListsOfHooks ==
  ASSUME TypeOK
  PROVE  /\ \A i \in DOMAIN hooks : hooks[i].id \in Hooks
         /\ \A i \in DOMAIN copied : i \in Nat /\ i > 0 /\ Id(i) \in Hooks
         /\ DOMAIN copied = 1..Len(copied) /\ todo \in Nat
<1> DEFINE R == [name : Names, id : Hooks]
<1>1. hooks \in Seq(R) /\ copied \in Seq(R) /\ todo \in 0..Len(copied)
  BY DEF TypeOK
<1>2. \A r \in R : r.id \in Hooks
  OBVIOUS
<1> HIDE DEF R
<1>3. \A i \in DOMAIN hooks : hooks[i] \in R
  BY <1>1
<1>4. /\ \A i \in DOMAIN copied : copied[i] \in R
      /\ DOMAIN copied = 1..Len(copied) /\ Len(copied) \in Nat
  BY <1>1
<1> QED
  BY <1>1, <1>2, <1>3, <1>4 DEF Id

\* A new coordinator has nothing registered and nothing running.
LEMMA CoordinatorStarts == Init => CoordinatorInv
<1> SUFFICES ASSUME Init PROVE CoordinatorInv
  OBVIOUS
<1> USE DEF Init
<1>1. TypeOK
  <2>1. hooks \in Seq([name : Names, id : Hooks]) /\ copied \in Seq([name : Names, id : Hooks])
    OBVIOUS
  <2>2. todo \in 0..Len(copied)
    OBVIOUS
  <2> QED
    BY <2>1, <2>2 DEF TypeOK
<1>2. OneRunner /\ HooksDistinct /\ GoneRegistered /\ CopiedDistinct
  BY ShutdownAssumption DEF OneRunner, HooksDistinct, GoneRegistered, CopiedDistinct
<1>3. LoopPosition /\ OkIsOk /\ EndOfLoop
  BY DEF LoopPosition, OkIsOk, EndOfLoop, Id
<1>4. LostByName
  BY DEF LostByName, Registered
<1> QED
  BY <1>1, <1>2, <1>3, <1>4 DEF CoordinatorInv

\* A step of the registering side moves the list and what deregister has
\* captured; the run of the hooks works on its copy.
LEMMA RegisteringKeepsRun ==
  ASSUME CoordinatorInv, UNCHANGED <<started, doneCh, pc, runner, ctxDone, runVars, ret>>
  PROVE  OneRunner' /\ CopiedDistinct' /\ LoopPosition' /\ OkIsOk' /\ EndOfLoop'
BY DEF CoordinatorInv, runVars, OneRunner, CopiedDistinct, LoopPosition, OkIsOk, EndOfLoop, Id, Errors

\* Register appends a registration that was not there.
LEMMA RegisterStep ==
  ASSUME CoordinatorInv, NEW h \in Hooks, NEW n \in Names, Register(h, n)
  PROVE  CoordinatorInv'
<1> DEFINE new == [name |-> n, id |-> h]
<1>1. /\ hooks \in Seq([name : Names, id : Hooks]) /\ new \in [name : Names, id : Hooks]
      /\ closure[h] = Nil /\ hooks' = Append(hooks, new)
      /\ closure' = [closure EXCEPT ![h] = [name |-> n, idx |-> Len(hooks) + 1]]
      /\ UNCHANGED <<gone, started, doneCh, pc, runner, ctxDone, runVars, ret>>
  BY DEF CoordinatorInv, TypeOK, Register
<1>2. /\ hooks' \in Seq([name : Names, id : Hooks])
      /\ DOMAIN hooks' = DOMAIN hooks \cup {Len(hooks) + 1}
      /\ \A i \in DOMAIN hooks : hooks'[i] = hooks[i]
      /\ hooks'[Len(hooks) + 1] = new
      /\ Len(hooks) \in Nat
  BY <1>1
<1>3. [name |-> n, idx |-> Len(hooks) + 1] # Nil
  BY <1>2, ShutdownAssumption
<1>4. TypeOK'
  BY <1>1, <1>2 DEF CoordinatorInv, TypeOK, runVars
<1>5. HooksDistinct'
  BY <1>1, <1>2, <1>3 DEF CoordinatorInv, TypeOK, HooksDistinct
<1>6. LostByName' /\ GoneRegistered'
  <2>1. Registered' = Registered \cup {h}
    BY <1>1, <1>3 DEF CoordinatorInv, TypeOK, Registered
  <2>2. Present' = Present \cup {h}
    BY <1>2 DEF Present
  <2>3. ASSUME NEW g \in Registered PROVE closure'[g] = closure[g]
    BY <1>1 DEF Registered, CoordinatorInv, TypeOK
  <2>4. gone \subseteq Registered
    BY DEF CoordinatorInv, GoneRegistered
  <2> QED
    BY <1>1, <2>1, <2>2, <2>3, <2>4 DEF CoordinatorInv, LostByName, GoneRegistered
<1> QED
  BY <1>1, <1>4, <1>5, <1>6, RegisteringKeepsRun DEF CoordinatorInv


\* What deregister finds at its index is a registration of its own name, so
\* the one that is lost has a deregister of that name to blame.
LEMMA DeregisterStep ==
  ASSUME CoordinatorInv, NEW h \in Hooks, Deregister(h)
  PROVE  CoordinatorInv'
<1>1. /\ hooks \in Seq([name : Names, id : Hooks])
      /\ closure[h] # Nil /\ gone' = gone \cup {h} /\ closure' = closure
      /\ UNCHANGED <<started, doneCh, pc, runner, ctxDone, runVars, ret>>
  BY DEF CoordinatorInv, TypeOK, Deregister
<1>2. GoneRegistered'
  BY <1>1 DEF CoordinatorInv, GoneRegistered, Registered
<1>3. CASE ~Removable(h)
  <2>1. hooks' = hooks
    BY <1>3 DEF Deregister
  <2>2. TypeOK' /\ HooksDistinct'
    BY <1>1, <2>1 DEF CoordinatorInv, TypeOK, HooksDistinct, runVars
  <2>3. LostByName'
    BY <1>1, <2>1 DEF CoordinatorInv, LostByName, Registered, Present
  <2> QED
    BY <1>1, <1>2, <2>2, <2>3, RegisteringKeepsRun DEF CoordinatorInv
<1>4. CASE Removable(h)
  <2> DEFINE x == closure[h].idx
  <2>1. x \in 1..Len(hooks) /\ hooks[x].name = closure[h].name
    BY <1>1, <1>4 DEF Removable, CoordinatorInv, TypeOK
  <2>2. hooks' = RemoveAt(hooks, x)
    BY <1>4 DEF Deregister
  <2> HIDE DEF x
  <2>3. /\ hooks' \in Seq([name : Names, id : Hooks])
        /\ DOMAIN hooks' = 1..(Len(hooks) - 1)
        /\ \A k \in 1..(Len(hooks) - 1) : hooks'[k] = IF k < x THEN hooks[k] ELSE hooks[k + 1]
    BY <1>1, <2>1, <2>2, RemoveAtKeeps
  <2>4. DOMAIN hooks = 1..Len(hooks) /\ Len(hooks) \in Nat
    BY <1>1
  <2>5. TypeOK'
    BY <1>1, <2>3 DEF CoordinatorInv, TypeOK, runVars
  <2>6. HooksDistinct'
    <3> DEFINE old(k) == IF k < x THEN k ELSE k + 1
    <3>1. \A k \in DOMAIN hooks' : old(k) \in DOMAIN hooks /\ hooks'[k] = hooks[old(k)]
      BY <2>1, <2>3, <2>4
    <3>2. \A k, l \in DOMAIN hooks' : old(k) = old(l) => k = l
      BY <2>1, <2>3, <2>4
    <3> HIDE DEF old
    <3> QED
      BY <1>1, <3>1, <3>2 DEF CoordinatorInv, HooksDistinct
  <2>7. \A i \in DOMAIN hooks : i # x => hooks[i].id \in Present'
    <3> SUFFICES ASSUME NEW i \in DOMAIN hooks, i # x PROVE hooks[i].id \in Present'
      OBVIOUS
    <3> DEFINE k == IF i < x THEN i ELSE i - 1
    <3>1. k \in DOMAIN hooks' /\ hooks'[k] = hooks[i]
      BY <2>1, <2>3, <2>4
    <3> QED
      BY <3>1 DEF Present
  <2>8. LostByName'
    <3> SUFFICES ASSUME NEW y \in Registered \ Present'
                 PROVE  \E g \in gone' : closure[g].name = closure[y].name
      BY <1>1 DEF LostByName, Registered
    <3>1. CASE y \in Present
      <4>1. y = hooks[x].id
        BY <2>7, <3>1 DEF Present
      <4>2. closure[y].name = hooks[x].name
        BY <2>1, <2>4, <4>1 DEF CoordinatorInv, HooksDistinct
      <4> QED
        BY <1>1, <2>1, <4>2
    <3>2. CASE y \notin Present
      BY <1>1, <3>2 DEF CoordinatorInv, LostByName
    <3> QED
      BY <3>1, <3>2
  <2> QED
    BY <1>1, <1>2, <2>5, <2>6, <2>8, RegisteringKeepsRun DEF CoordinatorInv
<1> QED
  BY <1>3, <1>4

\* Outside registration and deregistration the list stays as it is.
LEMMA RunKeepsRegistered ==
  ASSUME CoordinatorInv, UNCHANGED regVars
  PROVE  HooksDistinct' /\ GoneRegistered' /\ LostByName'
BY DEF CoordinatorInv, regVars, HooksDistinct, GoneRegistered, LostByName, Registered, Present

\* The first call takes the list over, with nothing of it begun.
LEMMA ShutdownFirstStep ==
  ASSUME CoordinatorInv, NEW p \in Callers, ShutdownFirst(p)
  PROVE  CoordinatorInv'
<1> USE DEF ShutdownFirst
<1>1. runner = Nil /\ p # Nil /\ copied = <<>>
  BY ShutdownAssumption DEF CoordinatorInv, OneRunner, LoopPosition
<1>2. TypeOK'
  BY DEF CoordinatorInv, TypeOK, regVars
<1>3. OneRunner'
  BY <1>1, ShutdownAssumption DEF CoordinatorInv, TypeOK, OneRunner
<1>4. CopiedDistinct'
  BY DEF CoordinatorInv, HooksDistinct, CopiedDistinct, Id
<1>5. /\ todo' = Len(hooks) /\ copied' = hooks /\ DOMAIN hooks = 1..Len(hooks)
      /\ runner' = p /\ pc'[p] = "looping" /\ UNCHANGED <<hookAt, outcome>>
  BY DEF CoordinatorInv, TypeOK
<1>6. \A g \in Hooks : hookAt[g] = "none" /\ outcome[g] = "none"
  <2>1. DOMAIN copied = {}
    BY <1>1
  <2> QED
    BY <2>1 DEF CoordinatorInv, LoopPosition
<1>7. \A i \in DOMAIN hooks : hooks[i].id \in Hooks
  BY ListsOfHooks DEF CoordinatorInv
<1>8. LoopPosition'
  BY <1>1, <1>5, <1>6, <1>7 DEF LoopPosition, Id
<1>9. OkIsOk' /\ EndOfLoop'
  BY <1>1, <1>5, <1>6 DEF CoordinatorInv, OneRunner, OkIsOk, EndOfLoop, Errors
<1> QED
  BY <1>2, <1>3, <1>4, <1>8, <1>9, RunKeepsRegistered DEF CoordinatorInv

\* Other callers come and go, and the context ends.
LEMMA BystanderStep ==
  ASSUME CoordinatorInv, \/ \E p \in Callers : ShutdownAgain(p) \/ WaitReturns(p)
               \/ ContextEnds
  PROVE  CoordinatorInv'
<1>1. CASE ContextEnds
  <2>1. TypeOK' /\ OneRunner'
    BY <1>1 DEF CoordinatorInv, TypeOK, OneRunner, ContextEnds, regVars, runVars
  <2>2. CopiedDistinct' /\ LoopPosition' /\ OkIsOk' /\ EndOfLoop'
    BY <1>1 DEF CoordinatorInv, TypeOK, ContextEnds, runVars, CopiedDistinct, LoopPosition, OkIsOk, EndOfLoop,
                Id, Errors
  <2> QED
    BY <1>1, <2>1, <2>2, RunKeepsRegistered DEF CoordinatorInv, ContextEnds
<1>2. ASSUME NEW p \in Callers, ShutdownAgain(p) \/ WaitReturns(p)
      PROVE  CoordinatorInv'
  <2>1. /\ p # runner /\ UNCHANGED <<regVars, started, doneCh, runner, ctxDone, runVars>>
        /\ \A q \in Callers \ {p} : pc'[q] = pc[q] /\ ret'[q] = ret[q]
    BY <1>2 DEF CoordinatorInv, TypeOK, OneRunner, ShutdownAgain, WaitReturns
  <2>2. pc' \in [Callers -> {"idle", "looping", "inHook", "waiting", "returned"}]
    BY <1>2 DEF CoordinatorInv, TypeOK, ShutdownAgain, WaitReturns
  <2>3. ret' \in [Callers -> {"none", "nil", "error"}]
    BY <1>2 DEF CoordinatorInv, TypeOK, ShutdownAgain, WaitReturns
  <2>4. TypeOK'
    BY <2>1, <2>2, <2>3 DEF CoordinatorInv, TypeOK, regVars, runVars
  <2>5. pc'[p] \notin {"looping", "inHook"} /\ (ret'[p] # "none" => pc'[p] = "returned")
    BY <1>2 DEF CoordinatorInv, TypeOK, OneRunner, ShutdownAgain, WaitReturns
  <2>6. OneRunner'
    BY <2>1, <2>5 DEF CoordinatorInv, OneRunner
  <2>7. runner # Nil => pc'[runner] = pc[runner] /\ ret'[runner] = ret[runner]
    BY <2>1 DEF CoordinatorInv, TypeOK
  <2>8. CopiedDistinct' /\ OkIsOk' /\ EndOfLoop'
    BY <2>1, <2>7 DEF CoordinatorInv, CopiedDistinct, OkIsOk, EndOfLoop, Id, Errors, runVars
  <2>9. LoopPosition'
    BY <2>1, <2>7 DEF CoordinatorInv, TypeOK, LoopPosition, Id, runVars
  <2> QED
    BY <2>1, <2>4, <2>6, <2>8, <2>9, RunKeepsRegistered DEF CoordinatorInv
<1> QED
  BY <1>1, <1>2

\* A hook that returns was started, and stays started.
LEMMA HookReturnsStep ==
  ASSUME CoordinatorInv, NEW h \in Hooks, HookReturns(h)
  PROVE  CoordinatorInv'
<1> USE DEF HookReturns
<1>1. TypeOK' /\ OneRunner' /\ CopiedDistinct'
  BY DEF CoordinatorInv, TypeOK, OneRunner, CopiedDistinct, Id, regVars
<1>2. \A g \in Hooks : /\ hookAt'[g] = "none" <=> hookAt[g] = "none"
                       /\ hookAt[g] = "ok" => hookAt'[g] = "ok"
  BY DEF CoordinatorInv, TypeOK
<1>3. \A i \in DOMAIN copied : Id(i) \in Hooks
  BY ListsOfHooks DEF CoordinatorInv
<1>4. LoopPosition'
  BY <1>2, <1>3 DEF CoordinatorInv, LoopPosition, Id
<1>5. OkIsOk' /\ EndOfLoop'
  BY <1>2 DEF CoordinatorInv, OkIsOk, EndOfLoop, Errors
<1> QED
  BY <1>1, <1>4, <1>5, RunKeepsRegistered DEF CoordinatorInv

\* The loop starts the hook at its index.
LEMMA StartHookStep ==
  ASSUME CoordinatorInv, StartHook
  PROVE  CoordinatorInv'
<1> USE DEF StartHook, NextHook
<1>1. runner \in Callers /\ todo \in DOMAIN copied /\ Id(todo) \in Hooks
  BY ListsOfHooks DEF CoordinatorInv, TypeOK
<1>2. TypeOK' /\ OneRunner' /\ CopiedDistinct'
  BY <1>1 DEF CoordinatorInv, TypeOK, OneRunner, CopiedDistinct, Id, regVars
<1>3. /\ hookAt' = [hookAt EXCEPT ![Id(todo)] = "running"]
      /\ hookAt[Id(todo)] = "none"
      /\ pc'[runner] = "inHook" /\ pc[runner] = "looping"
      /\ UNCHANGED <<runner, copied, todo, outcome, ret, doneCh, ctxDone>>
  BY <1>1 DEF CoordinatorInv, TypeOK, LoopPosition, Id
<1>4. \A i \in DOMAIN copied : Id(i) \in Hooks /\ (i # todo => hookAt'[Id(i)] = hookAt[Id(i)])
  BY <1>1, <1>3, ListsOfHooks DEF CoordinatorInv, TypeOK, CopiedDistinct
<1>5. LoopPosition'
  BY <1>1, <1>3, <1>4 DEF CoordinatorInv, TypeOK, LoopPosition, Id
<1>6. OkIsOk' /\ EndOfLoop'
  BY <1>1, <1>3 DEF CoordinatorInv, TypeOK, OneRunner, OkIsOk, EndOfLoop, Errors
<1> QED
  BY <1>2, <1>5, <1>6, RunKeepsRegistered DEF CoordinatorInv

\* The loop settles the hook at its index, as it ended or as timed out.
LEMMA SettleStep ==
  ASSUME CoordinatorInv, HookDone \/ HookTimesOut
  PROVE  CoordinatorInv'
<1>1. runner \in Callers /\ runner # Nil /\ pc[runner] = "inHook"
  BY DEF HookDone, HookTimesOut, CoordinatorInv, TypeOK
<1>2. todo \in DOMAIN copied /\ Id(todo) \in Hooks /\ hookAt[Id(todo)] # "none"
  BY <1>1, ListsOfHooks DEF CoordinatorInv, TypeOK, LoopPosition
<1>3. PICK r \in {"ok", "failed", "timedOut"} :
        Settle(r) /\ (r = "ok" => hookAt[Id(todo)] = "ok")
  BY <1>2 DEF HookDone, HookTimesOut, NextHook, Id, CoordinatorInv, TypeOK
<1>4. /\ outcome' = [outcome EXCEPT ![Id(todo)] = r]
      /\ todo' = todo - 1 /\ pc' = [pc EXCEPT ![runner] = "looping"]
      /\ UNCHANGED <<regVars, started, doneCh, runner, ctxDone, copied, hookAt, ret>>
  BY <1>3 DEF Settle, NextHook, Id
<1>5. TypeOK' /\ OneRunner' /\ CopiedDistinct'
  BY <1>1, <1>2, <1>4 DEF CoordinatorInv, TypeOK, OneRunner, CopiedDistinct, Id, regVars
<1>6. \A i \in DOMAIN copied : Id(i) \in Hooks /\ (i # todo => outcome'[Id(i)] = outcome[Id(i)])
  BY <1>2, <1>4, ListsOfHooks DEF CoordinatorInv, TypeOK, CopiedDistinct
<1>7. outcome'[Id(todo)] = r /\ pc'[runner] = "looping"
  BY <1>1, <1>2, <1>4 DEF CoordinatorInv, TypeOK
<1>8. LoopPosition'
  BY <1>1, <1>2, <1>4, <1>6, <1>7 DEF CoordinatorInv, TypeOK, LoopPosition, Id
<1>9. OkIsOk' /\ EndOfLoop'
  BY <1>1, <1>2, <1>3, <1>4, <1>7 DEF CoordinatorInv, TypeOK, OneRunner, OkIsOk, EndOfLoop, Errors
<1> QED
  BY <1>4, <1>5, <1>8, <1>9, RunKeepsRegistered DEF CoordinatorInv

\* The loop ends: it has settled everything, or its context is over.
LEMMA CompleteStep ==
  ASSUME CoordinatorInv, Abort \/ Finish
  PROVE  CoordinatorInv'
<1>1. /\ runner \in Callers /\ runner # Nil /\ pc[runner] = "looping"
      /\ todo = 0 \/ ctxDone
  BY DEF Abort, Finish, CoordinatorInv, TypeOK
<1>2. PICK r \in {"nil", "error"} : Complete(r) /\ (r = "nil" => todo = 0 /\ ~Errors)
  BY DEF Abort, Finish
<1>3. /\ doneCh' = TRUE /\ pc' = [pc EXCEPT ![runner] = "returned"]
      /\ ret' = [ret EXCEPT ![runner] = r]
      /\ UNCHANGED <<regVars, started, runner, ctxDone, runVars>>
  BY <1>2 DEF Complete
<1>4. TypeOK' /\ OneRunner' /\ CopiedDistinct'
  BY <1>1, <1>3 DEF CoordinatorInv, TypeOK, OneRunner, CopiedDistinct, Id, regVars, runVars
<1>5. LoopPosition' /\ OkIsOk'
  BY <1>1, <1>3 DEF CoordinatorInv, TypeOK, LoopPosition, OkIsOk, Id, runVars
<1>6. EndOfLoop'
  BY <1>1, <1>2, <1>3 DEF CoordinatorInv, TypeOK, EndOfLoop, Errors, runVars
<1> QED
  BY <1>3, <1>4, <1>5, <1>6, RunKeepsRegistered DEF CoordinatorInv

LEMMA CoordinatorStep == CoordinatorInv /\ [Next]_vars => CoordinatorInv'
<1> SUFFICES ASSUME CoordinatorInv, [Next]_vars PROVE CoordinatorInv'
  OBVIOUS
<1>1. ASSUME NEW h \in Hooks, NEW n \in Names, Register(h, n) PROVE CoordinatorInv'
  BY <1>1, RegisterStep
<1>2. ASSUME NEW h \in Hooks, Deregister(h) \/ HookReturns(h) PROVE CoordinatorInv'
  BY <1>2, DeregisterStep, HookReturnsStep
<1>3. ASSUME NEW p \in Callers, ShutdownFirst(p) PROVE CoordinatorInv'
  BY <1>3, ShutdownFirstStep
<1>4. CASE ContextEnds \/ \E p \in Callers : ShutdownAgain(p) \/ WaitReturns(p)
  BY <1>4, BystanderStep
<1>5. CASE StartHook
  BY <1>5, StartHookStep
<1>6. CASE HookDone \/ HookTimesOut
  BY <1>6, SettleStep
<1>7. CASE Abort \/ Finish
  BY <1>7, CompleteStep
<1>8. CASE UNCHANGED vars
  <2>1. TypeOK' /\ OneRunner'
    BY <1>8 DEF CoordinatorInv, vars, regVars, runVars, TypeOK, OneRunner
  <2> QED
    BY <1>8, <2>1, RunKeepsRegistered, RegisteringKeepsRun DEF CoordinatorInv, vars
<1> QED
  BY <1>1, <1>2, <1>3, <1>4, <1>5, <1>6, <1>7, <1>8 DEF Next

-----------------------------------------------------------------------------
\* The inductive invariant holds in every reachable state.
THEOREM CoordinatorInvariance == Spec => []CoordinatorInv
BY CoordinatorStarts, CoordinatorStep, PTL DEF Spec

\* Types hold in every reachable state: the loop's index stays in its list.
THEOREM TypeCorrect == Spec => []TypeOK
<1>1. CoordinatorInv => TypeOK
  BY DEF CoordinatorInv
<1> QED
  BY <1>1, CoordinatorInvariance, PTL

\* A registered hook is lost only to a deregister of the same name.
THEOREM OnlyNamesakesRemove == Spec => []LostByName
<1>1. CoordinatorInv => LostByName
  BY DEF CoordinatorInv
<1> QED
  BY <1>1, CoordinatorInvariance, PTL

\* Hooks are begun in the reverse order of registration, each after the one
\* before it has been waited for.
THEOREM ReverseOrder == Spec => []LastInFirstOut
<1>1. CoordinatorInv => LastInFirstOut
  <2> SUFFICES ASSUME CoordinatorInv, NEW i \in DOMAIN copied, NEW j \in DOMAIN copied,
                      i < j, hookAt[Id(i)] # "none"
               PROVE  outcome[Id(j)] # "none"
    BY DEF LastInFirstOut, Id
  <2>1. i \in Nat /\ j \in Nat /\ todo \in Nat
    BY DEF CoordinatorInv, TypeOK
  <2>2. i >= todo
    BY <2>1 DEF CoordinatorInv, LoopPosition
  <2> QED
    BY <2>1, <2>2 DEF CoordinatorInv, LoopPosition
<1> QED
  BY <1>1, CoordinatorInvariance, PTL

\* A nil from the call that ran the hooks vouches for every one of them: it
\* was started, was waited for, and returned nil.
THEOREM NilVouches == Spec => []NilMeansAllClosed
<1>1. CoordinatorInv => NilMeansAllClosed
  <2> SUFFICES ASSUME CoordinatorInv, runner # Nil, ret[runner] = "nil", NEW i \in DOMAIN copied
               PROVE  hookAt[Id(i)] = "ok"
    BY DEF NilMeansAllClosed, Id
  <2>1. todo = 0 /\ ~Errors
    BY DEF CoordinatorInv, EndOfLoop
  <2>2. i > todo /\ Id(i) \in Hooks
    BY <2>1, ListsOfHooks DEF CoordinatorInv
  <2>3. outcome[Id(i)] # "none"
    BY <2>2 DEF CoordinatorInv, LoopPosition
  <2>4. outcome[Id(i)] = "ok"
    BY <2>1, <2>2, <2>3 DEF CoordinatorInv, TypeOK, Errors
  <2> QED
    BY <2>2, <2>4 DEF CoordinatorInv, OkIsOk
<1> QED
  BY <1>1, CoordinatorInvariance, PTL

\* Without an ended context, a closed doneCh means that every hook was started.
THEOREM DoneStartedAll == Spec => []DoneMeansAllStarted
<1>1. CoordinatorInv => DoneMeansAllStarted
  <2> SUFFICES ASSUME CoordinatorInv, doneCh, ~ctxDone, NEW i \in DOMAIN copied
               PROVE  hookAt[Id(i)] # "none"
    BY DEF DoneMeansAllStarted, Id
  <2>1. todo = 0
    BY DEF CoordinatorInv, EndOfLoop
  <2>2. i > todo
    BY <2>1 DEF CoordinatorInv, TypeOK
  <2> QED
    BY <2>2 DEF CoordinatorInv, LoopPosition
<1> QED
  BY <1>1, CoordinatorInvariance, PTL

-----------------------------------------------------------------------------
(* HealthCheck.                                                            *)
\* Named for the check: what it has kept is still registered; it has copied what it may
\* count on; and what passed was up, at a time the check has seen.
ReadyTypeOK ==
  /\ kind \in [Checks -> {"ready", "live"}]
  /\ checkPc \in [Checks -> {"idle", "begun", "probing"}]
  /\ DOMAIN probes = Checks /\ DOMAIN result = Checks /\ DOMAIN report = Checks
  /\ DOMAIN kept = Checks /\ DOMAIN seenUp = Checks /\ DOMAIN late = Checks

ChecksInOrder ==
  \A c \in Checks :
    /\ kept[c] \subseteq Ready!Registered(Ready!Map(kind[c]))
    /\ checkPc[c] # "idle" => /\ up \subseteq seenUp[c]
                              /\ kind[c] = "ready" => late[c] = FALSE
    /\ checkPc[c] = "probing" =>
         /\ kept[c] \subseteq probes[c]
         /\ result[c] \in [probes[c] -> {"running", "ok", "failed"}]
         /\ \A p \in probes[c] : result[c][p] = "ok" => p[2] \in seenUp[c]

ReadyInv == ReadyTypeOK /\ shuttingDown \in BOOLEAN /\ ChecksInOrder /\ Ready!OkVouches

LEMMA ReadyStarts == Ready!Init => ReadyInv
<1> SUFFICES ASSUME Ready!Init PROVE ReadyInv
  OBVIOUS
<1>1. /\ checkPc = [c \in Checks |-> "idle"] /\ kind = [c \in Checks |-> "ready"]
      /\ probes = [c \in Checks |-> {}] /\ kept = [c \in Checks |-> {}]
      /\ seenUp = [c \in Checks |-> {}] /\ report = [c \in Checks |-> "none"]
      /\ DOMAIN result = Checks /\ DOMAIN late = Checks
  BY DEF Ready!Init
<1>2. shuttingDown \in BOOLEAN
  BY DEF Ready!Init
<1>3. ReadyTypeOK /\ ChecksInOrder /\ Ready!OkVouches
  BY <1>1 DEF ReadyTypeOK, ChecksInOrder, Ready!OkVouches
<1> QED
  BY <1>2, <1>3 DEF ReadyInv

\* A registration, or its end, takes from what is kept and from nothing else.
LEMMA RegistryStep ==
  ASSUME ReadyInv, Ready!Keep,
         UNCHANGED <<shuttingDown, checkPc, kind, probes, result, report, late, up, seenUp>>
  PROVE  ReadyInv'
<1>1. \A c \in Checks : /\ kept'[c] \subseteq kept[c]
                        /\ kept'[c] \subseteq Ready!Registered(Ready!Map(kind[c]))'
  BY DEF Ready!Keep
<1>2. ReadyTypeOK'
  BY DEF ReadyInv, ReadyTypeOK, Ready!Keep
<1>3. ChecksInOrder'
  BY <1>1 DEF ReadyInv, ChecksInOrder
<1>4. Ready!OkVouches'
  BY <1>1 DEF ReadyInv, Ready!OkVouches
<1> QED
  BY <1>2, <1>3, <1>4 DEF ReadyInv

\* One check moves, and only it.
LEMMA OneCheckMoves ==
  ASSUME ReadyInv, NEW c \in Checks, ReadyTypeOK',
         UNCHANGED <<readiness, liveness, shuttingDown, up>>,
         \A d \in Checks \ {c} :
           /\ checkPc'[d] = checkPc[d] /\ kind'[d] = kind[d] /\ probes'[d] = probes[d]
           /\ result'[d] = result[d] /\ report'[d] = report[d] /\ late'[d] = late[d]
           /\ kept'[d] = kept[d] /\ seenUp'[d] = seenUp[d],
         kept'[c] \subseteq Ready!Registered(Ready!Map(kind[c]))',
         checkPc'[c] # "idle" => /\ up \subseteq seenUp'[c]
                                 /\ kind'[c] = "ready" => late'[c] = FALSE,
         checkPc'[c] = "probing" =>
           /\ kept'[c] \subseteq probes'[c]
           /\ result'[c] \in [probes'[c] -> {"running", "ok", "failed"}]
           /\ \A p \in probes'[c] : result'[c][p] = "ok" => p[2] \in seenUp'[c],
         checkPc'[c] = "idle" /\ report'[c] = "ok" =>
           /\ \A p \in kept'[c] : p \in probes'[c] /\ p[2] \in seenUp'[c]
           /\ kind'[c] = "ready" => late'[c] = FALSE
  PROVE  ReadyInv'
<1>1. \A d \in Checks \ {c} :
        Ready!Registered(Ready!Map(kind[d]))' = Ready!Registered(Ready!Map(kind[d]))
  BY DEF Ready!Registered, Ready!Map
<1>2. ChecksInOrder'
  <2> SUFFICES ASSUME NEW d \in Checks
               PROVE  /\ kept'[d] \subseteq Ready!Registered(Ready!Map(kind[d]))'
                      /\ checkPc'[d] # "idle" => /\ up' \subseteq seenUp'[d]
                                                 /\ kind'[d] = "ready" => late'[d] = FALSE
                      /\ checkPc'[d] = "probing" =>
                           /\ kept'[d] \subseteq probes'[d]
                           /\ result'[d] \in [probes'[d] -> {"running", "ok", "failed"}]
                           /\ \A p \in probes'[d] : result'[d][p] = "ok" => p[2] \in seenUp'[d]
    BY DEF ChecksInOrder
  <2>1. CASE d = c
    BY <2>1
  <2>2. CASE d # c
    BY <1>1, <2>2 DEF ReadyInv, ChecksInOrder
  <2> QED
    BY <2>1, <2>2
<1>3. Ready!OkVouches'
  BY DEF ReadyInv, Ready!OkVouches
<1> QED
  BY <1>2, <1>3 DEF ReadyInv

LEMMA ReadyStep == ReadyInv /\ [Ready!Next]_readyVars => ReadyInv'
<1> SUFFICES ASSUME ReadyInv, [Ready!Next]_readyVars PROVE ReadyInv'
  OBVIOUS
<1>a. ReadyTypeOK /\ ChecksInOrder /\ Ready!OkVouches
  BY DEF ReadyInv
\* A step of a check leaves the registry, and so what is kept, as it is.
<1>b. ASSUME NEW c \in Checks, UNCHANGED <<readiness, liveness, kind, kept>>
      PROVE  kept'[c] \subseteq Ready!Registered(Ready!Map(kind[c]))'
  BY <1>a, <1>b DEF ChecksInOrder, Ready!Registered, Ready!Map
<1>1. ASSUME NEW n \in Probes, NEW d \in Deps,
             Ready!RegisterReadiness(n, d) \/ Ready!RegisterLiveness(n, d)
      PROVE  ReadyInv'
  BY <1>1, RegistryStep DEF Ready!RegisterReadiness, Ready!RegisterLiveness, Ready!check
<1>2. ASSUME NEW n \in Probes, Ready!Unregister(n) PROVE ReadyInv'
  BY <1>2, RegistryStep DEF Ready!Unregister, Ready!check
<1>3. ASSUME UNCHANGED <<readiness, liveness, checkPc, kind, probes, result, report, late, kept>>,
             shuttingDown' \in BOOLEAN,
             \/ up' = up /\ seenUp' = seenUp
             \/ seenUp' = [c \in Checks |-> seenUp[c] \cup up']
      PROVE  ReadyInv'
  <2>1. ReadyTypeOK'
    BY <1>a, <1>3 DEF ReadyTypeOK
  <2>2. \A c \in Checks : /\ seenUp[c] \subseteq seenUp'[c]
                          /\ up \subseteq seenUp[c] => up' \subseteq seenUp'[c]
    BY <1>3
  <2>3. ChecksInOrder'
    BY <1>a, <1>3, <2>2 DEF ChecksInOrder, Ready!Registered, Ready!Map
  <2>4. Ready!OkVouches'
    BY <1>a, <1>3, <2>2 DEF Ready!OkVouches
  <2> QED
    BY <1>3, <2>1, <2>3, <2>4 DEF ReadyInv
<1>4. CASE Ready!SetShuttingDown
  BY <1>3, <1>4 DEF Ready!SetShuttingDown, Ready!check
<1>5. ASSUME NEW d \in Deps, Ready!Toggle(d) PROVE ReadyInv'
  BY <1>3, <1>5 DEF ReadyInv, Ready!Toggle, Ready!registry, Ready!check
<1>6. ASSUME NEW c \in Checks, NEW k \in {"ready", "live"}, Ready!Begin(c, k) PROVE ReadyInv'
  <2>1. ReadyTypeOK'
    BY <1>a, <1>6 DEF Ready!Begin, ReadyTypeOK
  <2>2. /\ kind'[c] = k /\ seenUp'[c] = up /\ kept'[c] = Ready!Registered(Ready!Map(k))
        /\ late' = [late EXCEPT ![c] = shuttingDown]
        /\ UNCHANGED <<readiness, liveness, shuttingDown, up>>
    BY <1>a, <1>6 DEF Ready!Begin, Ready!registry, ReadyTypeOK
  <2>3. kept'[c] \subseteq Ready!Registered(Ready!Map(kind[c]))'
    BY <2>2 DEF Ready!Registered, Ready!Map
  <2>4. \A d \in Checks \ {c} :
          /\ checkPc'[d] = checkPc[d] /\ kind'[d] = kind[d] /\ probes'[d] = probes[d]
          /\ result'[d] = result[d] /\ report'[d] = report[d] /\ late'[d] = late[d]
          /\ kept'[d] = kept[d] /\ seenUp'[d] = seenUp[d]
    BY <1>a, <1>6 DEF Ready!Begin, ReadyTypeOK
  <2>5. CASE k = "ready" /\ shuttingDown
    <3>1. checkPc'[c] = "idle" /\ report'[c] = "fail"
      BY <1>a, <1>6, <2>5 DEF Ready!Begin, ReadyTypeOK
    <3> QED
      BY <1>a, <2>1, <2>2, <2>3, <2>4, <3>1, OneCheckMoves
  <2>6. CASE ~(k = "ready" /\ shuttingDown)
    <3>1. checkPc'[c] = "begun"
      BY <1>a, <1>6, <2>6 DEF Ready!Begin, ReadyTypeOK
    <3>2. k = "ready" => shuttingDown = FALSE
      BY <2>6, Zenon DEF ReadyInv
    <3>3. k = "ready" => late'[c] = FALSE
      BY <1>a, <2>2, <3>2 DEF ReadyTypeOK
    <3> QED
      BY <1>a, <2>1, <2>2, <2>3, <2>4, <3>1, <3>3, OneCheckMoves
  <2> QED
    BY <2>5, <2>6
<1>7. ASSUME NEW c \in Checks, Ready!Snapshot(c) PROVE ReadyInv'
  <2>1. ReadyTypeOK'
    BY <1>a, <1>7 DEF Ready!Snapshot, ReadyTypeOK
  <2>2. /\ probes'[c] = Ready!Registered(Ready!Map(kind[c]))
        /\ result'[c] = [p \in probes'[c] |-> "running"] /\ checkPc'[c] = "probing"
        /\ checkPc[c] = "begun"
        /\ UNCHANGED <<readiness, liveness, shuttingDown, up, kind, report, kept, seenUp, late>>
    BY <1>a, <1>7 DEF Ready!Snapshot, Ready!registry, ReadyTypeOK
  <2>3. \A d \in Checks \ {c} : /\ probes'[d] = probes[d] /\ result'[d] = result[d]
                                /\ checkPc'[d] = checkPc[d]
    BY <1>a, <1>7 DEF Ready!Snapshot, ReadyTypeOK
  <2>4. /\ kept'[c] \subseteq probes'[c] /\ up \subseteq seenUp'[c]
        /\ kind'[c] = "ready" => late'[c] = FALSE
        /\ result'[c] \in [probes'[c] -> {"running", "ok", "failed"}]
        /\ \A p \in probes'[c] : result'[c][p] # "ok"
    BY <1>a, <2>2 DEF ChecksInOrder
  <2> QED
    BY <1>a, <1>b, <2>2, <2>1, <2>3, <2>4, OneCheckMoves
<1>8. ASSUME NEW c \in Checks, NEW p \in probes[c], Ready!RunOne(c, p) PROVE ReadyInv'
  <2>1. PICK o \in Ready!Outcomes(p) :
          result' = [result EXCEPT ![c][p] = IF Ready!Passed(o) THEN "ok" ELSE "failed"]
    BY <1>8 DEF Ready!RunOne
  <2>2. /\ checkPc[c] = "probing"
        /\ UNCHANGED <<readiness, liveness, shuttingDown, up, checkPc, kind, probes, report,
                       kept, seenUp, late>>
    BY <1>8 DEF Ready!RunOne, Ready!registry
  <2>3. ReadyTypeOK'
    BY <1>a, <2>1, <2>2 DEF ReadyTypeOK
  <2>4. Ready!Passed(o) => p[2] \in up
    BY <2>1 DEF Ready!Outcomes, Ready!Passed
  <2>5. result[c] \in [probes[c] -> {"running", "ok", "failed"}] /\ up \subseteq seenUp[c]
    BY <1>a, <2>2 DEF ChecksInOrder
  <2>6. /\ result'[c] = [result[c] EXCEPT ![p] = IF Ready!Passed(o) THEN "ok" ELSE "failed"]
        /\ \A d \in Checks \ {c} : result'[d] = result[d]
    BY <1>a, <2>1 DEF ReadyTypeOK
  <2>7. /\ result'[c] \in [probes[c] -> {"running", "ok", "failed"}]
        /\ \A q \in probes[c] : result'[c][q] = "ok" => q[2] \in seenUp[c]
    BY <1>a, <2>2, <2>4, <2>5, <2>6 DEF ChecksInOrder
  <2>8. /\ kept[c] \subseteq probes[c]
        /\ kind[c] = "ready" => late[c] = FALSE
    BY <1>a, <2>2 DEF ChecksInOrder
  <2> QED
    BY <1>a, <1>b, <2>2, <2>3, <2>5, <2>6, <2>7, <2>8, OneCheckMoves
<1>9. ASSUME NEW c \in Checks, Ready!Reports(c) PROVE ReadyInv'
  <2>1. ReadyTypeOK'
    BY <1>a, <1>9 DEF Ready!Reports, ReadyTypeOK
  <2>2. /\ report'[c] = (IF \A p \in probes[c] : result[c][p] = "ok" THEN "ok" ELSE "fail")
        /\ checkPc'[c] = "idle" /\ checkPc[c] = "probing"
        /\ UNCHANGED <<readiness, liveness, shuttingDown, up, kind, probes, result, kept, seenUp,
                       late>>
    BY <1>a, <1>9 DEF Ready!Reports, Ready!registry, ReadyTypeOK
  <2>3. \A d \in Checks \ {c} : checkPc'[d] = checkPc[d] /\ report'[d] = report[d]
    BY <1>a, <1>9 DEF Ready!Reports, ReadyTypeOK
  <2>4. /\ kept[c] \subseteq probes[c]
        /\ \A p \in probes[c] : result[c][p] = "ok" => p[2] \in seenUp[c]
        /\ kind[c] = "ready" => late[c] = FALSE
    BY <1>a, <2>2 DEF ChecksInOrder
  <2> QED
    BY <1>a, <1>b, <2>1, <2>2, <2>3, <2>4, OneCheckMoves
<1>10. CASE UNCHANGED readyVars
  BY <1>3, <1>10 DEF ReadyInv, readyVars
<1> QED
  BY <1>1, <1>2, <1>4, <1>5, <1>6, <1>7, <1>8, <1>9, <1>10 DEF Ready!Next

-----------------------------------------------------------------------------
(* Server.                                                                 *)
BeforeRun == {"booting", "booted", "cacheRegistered", "poolRegistered", "riverStarted", "ready",
              "serving", "draining"}

ServerTypeOK ==
  /\ main \in BeforeRun \cup {"closing", "gone"}
  /\ DOMAIN boot = {"migrate", "pool", "cache"}
  /\ pool \in {"none", "open", "closing", "closed"}
  /\ cache \in {"none", "open", "closed"}
  /\ serve \in {"off", "serving", "failed", "closed"}
  /\ river \in {"off", "on", "stopping", "cancelling", "stopped"}
  /\ requests \in Nat /\ sockets \in Nat /\ jobs \in Nat
  /\ exit \in {"none", "nil", "fatal"}
  /\ coTodo \in Nat
  /\ DOMAIN coPc = {"Run"} /\ DOMAIN coRet = {"Run"}
  /\ coHookAt \in [Srv!MainHooks -> {"none", "running", "ok", "failed"}]
  /\ coOutcome \in [Srv!MainHooks -> {"none", "ok", "failed", "timedOut"}]

\* The place of a hook in main's order of registration.
Turn(h) == IF h = "cache" THEN 1 ELSE IF h = "db-pool" THEN 2 ELSE 3

Entry(h) == [name |-> h, id |-> h]

\* What main has registered with the Coordinator by the time it is there.
HooksOf(place) ==
  IF place \in {"booting", "booted"} THEN <<>>
  ELSE IF place = "cacheRegistered" THEN <<Entry("cache")>>
  ELSE IF place \in {"poolRegistered", "riverStarted"} THEN <<Entry("cache"), Entry("db-pool")>>
  ELSE <<Entry("cache"), Entry("db-pool"), Entry("river")>>

\* Until Run has drained, the Coordinator only registers.
NotYetClosing ==
  main \in BeforeRun =>
    /\ coHooks = HooksOf(main)
    /\ \A h \in Srv!MainHooks : coHookAt[h] = "none" /\ coOutcome[h] = "none"
    /\ coRet["Run"] = "none"

\* Then it goes through the hooks from the last to the first.
Closing ==
  main = "closing" =>
    /\ coRunner = "Run" /\ coCopied = HooksOf("closing") /\ coTodo \in 0..3
    /\ coPc["Run"] \in {"looping", "inHook", "returned"}
    /\ coPc["Run"] = "inHook" => coTodo > 0
    /\ coRet["Run"] # "none" => coPc["Run"] = "returned"
    /\ coRet["Run"] = "nil" => /\ coTodo = 0
                               /\ \A h \in Srv!MainHooks : coOutcome[h] = "ok"
    /\ \A h \in Srv!MainHooks :
         /\ Turn(h) > coTodo => coOutcome[h] # "none" /\ coHookAt[h] # "none"
         /\ Turn(h) < coTodo => coOutcome[h] = "none" /\ coHookAt[h] = "none"
         /\ Turn(h) = coTodo => /\ coOutcome[h] = "none"
                                /\ coHookAt[h] # "none" <=> coPc["Run"] = "inHook"
         /\ coOutcome[h] = "ok" => coHookAt[h] = "ok"

\* What a hook has done to its resource.
HooksCloseTheirOwn ==
  main # "gone" =>
    /\ coHookAt["cache"] = "ok" => cache = "closed"
    /\ coHookAt["db-pool"] = "ok" => pool = "closed"
    /\ coHookAt["river"] = "ok" => river = "stopped"
    /\ pool \in {"closing", "closed"} => coHookAt["db-pool"] # "none"

\* The hooks come after the drain and go backwards, and a drain or a hook that ran out
\* of budget leaves none for the next: whoever is in the pool's hook has drained the
\* requests and stopped the river.
BudgetIsShared ==
  main = "closing" =>
    /\ serve = "closed"
    /\ ~coCtxDone \/ ~drainErr \/ (\E h \in Srv!MainHooks : coHookAt[h] # "none") => requests = 0
    /\ ~coCtxDone => \A h \in Srv!MainHooks : coOutcome[h] # "timedOut"
    /\ coHookAt["db-pool"] # "none" => coOutcome["river"] \in {"ok", "failed"}

LifeInOrder ==
  /\ main # "booting" => \A f \in {"migrate", "pool", "cache"} : boot[f] # "running"
  /\ main = "booting" => pool \in {"none", "open"}
  /\ main = "draining" => serve = "closed"
  /\ river = "stopped" => jobs = 0
  /\ exit = "nil" => main = "gone"

ServerInv == /\ ServerTypeOK /\ NotYetClosing /\ Closing /\ HooksCloseTheirOwn
             /\ BudgetIsShared /\ LifeInOrder /\ Srv!NilMeansClean
LEMMA AppendToOne == ASSUME NEW a, NEW b PROVE Append(<<a>>, b) = <<a, b>>
<1> DEFINE S == {a, b}
<1>1. <<a>> \in Seq(S) /\ b \in S /\ <<a, b>> \in Seq(S) /\ Len(<<a, b>>) = 2
  OBVIOUS
<1>2. /\ Append(<<a>>, b) \in Seq(S) /\ Len(Append(<<a>>, b)) = 2
      /\ Append(<<a>>, b)[1] = a /\ Append(<<a>>, b)[2] = b
  BY <1>1, AppendProperties
<1>3. \A i \in 1..2 : Append(<<a>>, b)[i] = <<a, b>>[i]
  BY <1>2
<1> QED
  BY <1>1, <1>2, <1>3, SeqEqual

LEMMA AppendToTwo == ASSUME NEW a, NEW b, NEW c PROVE Append(<<a, b>>, c) = <<a, b, c>>
<1> DEFINE S == {a, b, c}
<1>1. <<a, b>> \in Seq(S) /\ c \in S /\ <<a, b, c>> \in Seq(S) /\ Len(<<a, b, c>>) = 3
  OBVIOUS
<1>2. /\ Append(<<a, b>>, c) \in Seq(S) /\ Len(Append(<<a, b>>, c)) = 3
      /\ Append(<<a, b>>, c)[1] = a /\ Append(<<a, b>>, c)[2] = b /\ Append(<<a, b>>, c)[3] = c
  BY <1>1, AppendProperties
<1>3. \A i \in 1..3 : Append(<<a, b>>, c)[i] = <<a, b, c>>[i]
  BY <1>2
<1> QED
  BY <1>1, <1>2, <1>3, SeqEqual

LEMMA HooksInTurn ==
  /\ Append(<<>>, Entry("cache")) = <<Entry("cache")>>
  /\ Append(<<Entry("cache")>>, Entry("db-pool")) = <<Entry("cache"), Entry("db-pool")>>
  /\ Append(<<Entry("cache"), Entry("db-pool")>>, Entry("river"))
       = <<Entry("cache"), Entry("db-pool"), Entry("river")>>
<1>1. Append(<<>>, Entry("cache")) = <<Entry("cache")>>
  OBVIOUS
<1> QED
  BY <1>1, AppendToOne, AppendToTwo

\* The hook at the loop's index.
LEMMA HookAtIndex ==
  ASSUME NEW i \in 1..3
  PROVE  LET h == HooksOf("closing")[i].id IN h \in Srv!MainHooks /\ Turn(h) = i
BY DEF HooksOf, Entry, Turn, Srv!MainHooks, BeforeRun

LEMMA TurnIsBetween == \A h \in Srv!MainHooks : Turn(h) \in 1..3
BY DEF Turn, Srv!MainHooks

LEMMA EachHasItsTurn ==
  ASSUME NEW h \in Srv!MainHooks, NEW g \in Srv!MainHooks, Turn(h) = Turn(g) PROVE h = g
BY DEF Turn, Srv!MainHooks

LEMMA ServerStarts == Srv!Init => ServerInv
BY DEF Srv!Init, Srv!Coord!Init, ServerInv, ServerTypeOK, NotYetClosing, Closing,
   HooksCloseTheirOwn, BudgetIsShared, LifeInOrder, Srv!NilMeansClean, BeforeRun, HooksOf,
   Srv!MainHooks, Srv!Run

\* Steps beside the Coordinator.
LEMMA CoordinatorWaits ==
  ASSUME NotYetClosing, Closing, Srv!coordRest' = Srv!coordRest,
         \/ main' = main
         \/ main' = "gone"
         \/ main \in BeforeRun /\ main' \in BeforeRun /\ HooksOf(main') = HooksOf(main)
  PROVE  NotYetClosing' /\ Closing'
BY DEF Srv!coordRest, NotYetClosing, Closing, BeforeRun

\* A step that leaves the pool, the cache and the river alone.
LEMMA NothingCloses ==
  ASSUME HooksCloseTheirOwn, UNCHANGED <<pool, cache, river, coHookAt>>,
         main # "gone" \/ main' = "gone"
  PROVE  HooksCloseTheirOwn'
BY DEF HooksCloseTheirOwn

LEMMA BootStep ==
  ASSUME ServerInv, \/ \E f \in DOMAIN boot : Srv!BootReturns(f)
                    \/ Srv!BootFails \/ Srv!BootSucceeds
  PROVE  ServerInv'
<1> USE DEF ServerInv
<1>1. ASSUME NEW f \in DOMAIN boot, Srv!BootReturns(f) PROVE ServerInv'
  <2>1. /\ main = "booting" /\ UNCHANGED <<main, Srv!coordVars, Srv!workVars, drainErr, exit>>
        /\ f \in {"migrate", "pool", "cache"}
    BY <1>1 DEF Srv!BootReturns, LifeInOrder, ServerTypeOK
  <2>2. ServerTypeOK' /\ pool' \in {"none", "open"}
    BY <1>1, <2>1 DEF Srv!BootReturns, ServerTypeOK, LifeInOrder, Srv!coordVars, Srv!coordRest,
                      Srv!workVars
  <2>3. NotYetClosing' /\ Closing'
    BY <2>1, CoordinatorWaits DEF Srv!coordVars
  <2>4. HooksCloseTheirOwn' /\ BudgetIsShared' /\ LifeInOrder' /\ Srv!NilMeansClean'
    BY <2>1, <2>2 DEF HooksCloseTheirOwn, BudgetIsShared, LifeInOrder, Srv!NilMeansClean,
                 NotYetClosing, BeforeRun, Srv!coordVars, Srv!coordRest, Srv!workVars, Srv!MainHooks
  <2> QED
    BY <2>2, <2>3, <2>4
<1>2. CASE Srv!BootFails
  <2>1. /\ main' = "gone" /\ exit' = "fatal" /\ UNCHANGED <<Srv!coordVars, boot, Srv!workVars>>
        /\ \A f \in {"migrate", "pool", "cache"} : boot[f] # "running"
    BY <1>2 DEF Srv!BootFails, Srv!Fatal, Srv!BootJoined, ServerTypeOK
  <2>2. ServerTypeOK'
    BY <1>2, <2>1 DEF Srv!BootFails, ServerTypeOK, Srv!coordVars, Srv!coordRest, Srv!workVars
  <2>3. NotYetClosing' /\ Closing'
    BY <2>1, CoordinatorWaits DEF Srv!coordVars
  <2>4. HooksCloseTheirOwn' /\ BudgetIsShared' /\ LifeInOrder' /\ Srv!NilMeansClean'
    BY <2>1 DEF HooksCloseTheirOwn, BudgetIsShared, LifeInOrder, Srv!NilMeansClean, Srv!workVars
  <2> QED
    BY <2>2, <2>3, <2>4
<1>3. CASE Srv!BootSucceeds
  <2>1. /\ main = "booting" /\ main' = "booted"
        /\ UNCHANGED <<Srv!coordVars, Srv!bootVars, Srv!workVars, drainErr, exit>>
        /\ \A f \in {"migrate", "pool", "cache"} : boot[f] # "running"
    BY <1>3 DEF Srv!BootSucceeds, Srv!BootJoined, ServerTypeOK
  <2>2. ServerTypeOK'
    BY <2>1 DEF ServerTypeOK, Srv!coordVars, Srv!coordRest, Srv!workVars, Srv!bootVars, BeforeRun
  <2>3. NotYetClosing' /\ Closing'
    BY <2>1, CoordinatorWaits DEF Srv!coordVars, BeforeRun, HooksOf
  <2>4. HooksCloseTheirOwn' /\ BudgetIsShared' /\ LifeInOrder' /\ Srv!NilMeansClean'
    BY <2>1, NothingCloses
    DEF BudgetIsShared, LifeInOrder, Srv!NilMeansClean, Srv!coordVars, Srv!coordRest,
        Srv!workVars, Srv!bootVars
  <2> QED
    BY <2>2, <2>3, <2>4
<1> QED
  BY <1>1, <1>2, <1>3

LEMMA RegisterHookStep == ASSUME ServerInv, Srv!RegisterHook PROVE ServerInv'
<1> USE DEF ServerInv
<1>1. PICK h \in Srv!MainHooks, to \in {"cacheRegistered", "poolRegistered", "ready"} :
        Srv!Registers(main, h, to) /\ Srv!Coord!Register(h, h) /\ main' = to
  BY DEF Srv!RegisterHook
<1>2. /\ UNCHANGED <<Srv!bootVars, Srv!workVars, drainErr, exit>>
      /\ main \in BeforeRun \ {"booting", "draining"} /\ main' \in BeforeRun \ {"booting", "draining"}
  BY <1>1 DEF Srv!RegisterHook, Srv!Registers, BeforeRun
<1>3. /\ UNCHANGED <<coPc, coRunner, coCtxDone, coCopied, coTodo, coHookAt, coOutcome, coRet>>
      /\ coHooks' = Append(coHooks, Entry(h))
  BY <1>1 DEF Srv!Coord!Register, Srv!Coord!runVars, Entry
<1>4. coHooks' = HooksOf(main')
  <2>1. coHooks = HooksOf(main)
    BY <1>2 DEF NotYetClosing
  <2> QED
    BY <1>1, <1>3, <2>1, HooksInTurn DEF Srv!Registers, HooksOf
<1>5. ServerTypeOK'
  BY <1>2, <1>3 DEF ServerTypeOK, Srv!bootVars, Srv!workVars, BeforeRun
<1>6. NotYetClosing' /\ Closing'
  BY <1>2, <1>3, <1>4 DEF NotYetClosing, Closing, BeforeRun
<1>7. HooksCloseTheirOwn' /\ BudgetIsShared' /\ LifeInOrder' /\ Srv!NilMeansClean'
  BY <1>2, <1>3, NothingCloses
  DEF BudgetIsShared, LifeInOrder, Srv!NilMeansClean, Srv!workVars, Srv!bootVars, BeforeRun
<1> QED
  BY <1>5, <1>6, <1>7

\* Steps of main on its way into Run, and out of it when Serve or its start fails.
LEMMA StartStep ==
  ASSUME ServerInv, Srv!StartRiver \/ Srv!Listen \/ Srv!ServeFails \/ Srv!Signal
  PROVE  ServerInv'
<1> USE DEF ServerInv
<1>1. /\ main \in BeforeRun \ {"booting", "draining"}
      /\ UNCHANGED <<Srv!coordVars, Srv!bootVars, requests, sockets, jobs, drainErr>>
      /\ exit' \in {exit, "fatal"} /\ river' \in {river, "on"}
      /\ serve' \in {"off", "serving", "failed", "closed"}
      /\ main' = "draining" => serve' = "closed"
      /\ \/ main' = "gone"
         \/ /\ exit' = exit /\ main' \in BeforeRun \ {"booting"}
            /\ HooksOf(main') = HooksOf(main)
  BY DEF Srv!StartRiver, Srv!Listen, Srv!ServeFails, Srv!Signal, Srv!Fatal, Srv!workVars,
         BeforeRun, HooksOf, ServerTypeOK
<1>2. ServerTypeOK'
  BY <1>1 DEF ServerTypeOK, Srv!bootVars, Srv!coordVars, Srv!coordRest, BeforeRun
<1>3. NotYetClosing' /\ Closing'
  BY <1>1, CoordinatorWaits DEF Srv!coordVars
<1>4. \A h \in Srv!MainHooks : coHookAt[h] = "none"
  BY <1>1 DEF NotYetClosing
<1>5. HooksCloseTheirOwn' /\ BudgetIsShared' /\ LifeInOrder' /\ Srv!NilMeansClean'
  BY <1>1, <1>4
  DEF HooksCloseTheirOwn, BudgetIsShared, LifeInOrder, Srv!NilMeansClean, Srv!coordVars,
      Srv!coordRest, Srv!bootVars, BeforeRun, Srv!MainHooks
<1> QED
  BY <1>2, <1>3, <1>5

\* Requests, sockets and jobs come and go.
LEMMA WorkStep ==
  ASSUME ServerInv,
         \/ Srv!RequestBegins \/ Srv!RequestEnds \/ Srv!SocketOpens \/ Srv!SocketEnds
         \/ Srv!JobBegins \/ Srv!JobEnds
  PROVE  ServerInv'
<1> USE DEF ServerInv
<1>1. /\ main # "gone" /\ UNCHANGED <<Srv!coordVars, Srv!bootVars, main, serve, river, drainErr, exit>>
      /\ requests' \in Nat /\ sockets' \in Nat /\ jobs' \in Nat
      /\ serve # "serving" /\ requests = 0 => requests' = 0
      /\ river # "on" /\ jobs = 0 => jobs' = 0
  BY DEF Srv!RequestBegins, Srv!RequestEnds, Srv!SocketOpens, Srv!SocketEnds, Srv!JobBegins,
         Srv!JobEnds, ServerTypeOK
<1>2. ServerTypeOK'
  BY <1>1 DEF ServerTypeOK, Srv!bootVars, Srv!coordVars, Srv!coordRest
<1>3. NotYetClosing' /\ Closing'
  BY <1>1, CoordinatorWaits DEF Srv!coordVars
<1>4. HooksCloseTheirOwn' /\ BudgetIsShared' /\ LifeInOrder' /\ Srv!NilMeansClean'
  BY <1>1, NothingCloses
  DEF BudgetIsShared, LifeInOrder, Srv!NilMeansClean, Srv!coordVars, Srv!coordRest, Srv!bootVars
<1> QED
  BY <1>2, <1>3, <1>4

LEMMA BudgetStep == ASSUME ServerInv, Srv!BudgetEnds PROVE ServerInv'
<1> USE DEF ServerInv
<1>1. UNCHANGED <<Srv!coordRest, Srv!bootVars, main, Srv!workVars, drainErr, exit>>
  BY DEF Srv!BudgetEnds
<1>2. ServerTypeOK'
  BY <1>1 DEF ServerTypeOK, Srv!bootVars, Srv!coordRest, Srv!workVars
<1>3. NotYetClosing' /\ Closing'
  BY <1>1, CoordinatorWaits
<1>4. HooksCloseTheirOwn' /\ BudgetIsShared' /\ LifeInOrder' /\ Srv!NilMeansClean'
  BY <1>1, NothingCloses
  DEF BudgetIsShared, LifeInOrder, Srv!NilMeansClean, Srv!coordRest, Srv!bootVars, Srv!workVars,
      Srv!BudgetEnds, HooksCloseTheirOwn
<1> QED
  BY <1>2, <1>3, <1>4
-----------------------------------------------------------------------------
\* The drain is over, or the budget is, and the Coordinator takes the hooks.
LEMMA OnShutdownStep == ASSUME ServerInv, Srv!CallOnShutdown PROVE ServerInv'
<1> USE DEF ServerInv
<1>1. /\ main = "draining" /\ main' = "closing" /\ UNCHANGED <<Srv!bootVars, Srv!workVars, exit>>
      /\ coRunner' = "Run" /\ coCopied' = coHooks /\ coTodo' = Len(coHooks)
      /\ coPc' = [coPc EXCEPT !["Run"] = "looping"]
      /\ UNCHANGED <<coHooks, coCtxDone, coHookAt, coOutcome, coRet>>
  BY DEF Srv!CallOnShutdown, Srv!Drained, Srv!Coord!ShutdownFirst, Srv!Coord!regVars, Srv!Run
<1>2. requests = 0 \/ (coCtxDone /\ drainErr')
  BY DEF Srv!CallOnShutdown, Srv!Drained
<1>3. /\ coHooks = HooksOf("closing") /\ Len(coHooks) = 3
      /\ \A h \in Srv!MainHooks : coHookAt[h] = "none" /\ coOutcome[h] = "none"
      /\ coRet["Run"] = "none"
  BY <1>1 DEF NotYetClosing, BeforeRun, HooksOf
<1>4. ServerTypeOK'
  BY <1>1, <1>3 DEF ServerTypeOK, Srv!bootVars, Srv!workVars
<1>5. NotYetClosing' /\ Closing'
  BY <1>1, <1>3, TurnIsBetween DEF NotYetClosing, Closing, BeforeRun, ServerTypeOK
<1>6. HooksCloseTheirOwn' /\ LifeInOrder' /\ Srv!NilMeansClean'
  BY <1>1, NothingCloses
  DEF LifeInOrder, Srv!NilMeansClean, Srv!bootVars, Srv!workVars, HooksCloseTheirOwn
<1>7. BudgetIsShared'
  BY <1>1, <1>2, <1>3 DEF BudgetIsShared, LifeInOrder, Srv!workVars, Srv!MainHooks
<1> QED
  BY <1>4, <1>5, <1>6, <1>7

\* The Coordinator's steps leave the rest of the server alone.
LEMMA BesidesTheCoordinator ==
  ASSUME ServerInv, main = "closing",
         UNCHANGED <<Srv!bootVars, main, Srv!workVars, drainErr, exit>>
  PROVE  /\ NotYetClosing' /\ LifeInOrder' /\ Srv!NilMeansClean'
         /\ coHookAt' = coHookAt => HooksCloseTheirOwn'
BY NothingCloses
DEF ServerInv, NotYetClosing, BeforeRun, LifeInOrder, Srv!NilMeansClean, Srv!bootVars,
    Srv!workVars

LEMMA StartHookTakesNext ==
  ASSUME ServerInv, main = "closing", Srv!Coord!StartHook,
         UNCHANGED <<Srv!bootVars, main, Srv!workVars, drainErr, exit>>
  PROVE  ServerInv'
<1> USE DEF ServerInv
<1> DEFINE next == HooksOf("closing")[coTodo].id
<1>1. /\ coRunner = "Run" /\ coPc["Run"] = "looping" /\ coTodo \in 1..3 /\ ~coCtxDone
      /\ coHookAt' = [coHookAt EXCEPT ![next] = "running"]
      /\ coPc' = [coPc EXCEPT !["Run"] = "inHook"]
      /\ UNCHANGED <<coRunner, coCtxDone, coCopied, coTodo, coOutcome, coRet>>
  BY DEF Srv!Coord!StartHook, Srv!Coord!NextHook, Closing
<1>2. next \in Srv!MainHooks /\ Turn(next) = coTodo
  BY <1>1, HookAtIndex
<1> HIDE DEF next
<1>3. /\ \A h \in Srv!MainHooks \ {next} : coHookAt'[h] = coHookAt[h] /\ Turn(h) # coTodo
      /\ coHookAt'[next] = "running" /\ coPc'["Run"] = "inHook"
      /\ coHookAt[next] = "none" /\ coOutcome[next] = "none"
  BY <1>1, <1>2, EachHasItsTurn DEF ServerTypeOK, Closing
<1>4. ServerTypeOK'
  BY <1>1, <1>2 DEF ServerTypeOK, Srv!bootVars, Srv!workVars
<1>5. Closing'
  BY <1>1, <1>2, <1>3 DEF Closing
<1>6. HooksCloseTheirOwn'
  BY <1>2, <1>3 DEF HooksCloseTheirOwn, Srv!bootVars, Srv!workVars, Srv!MainHooks
<1>7. BudgetIsShared'
  <2>1. requests = 0 /\ \A h \in Srv!MainHooks : coOutcome[h] # "timedOut"
    BY <1>1 DEF BudgetIsShared
  <2>2. next = "db-pool" => coOutcome["river"] \in {"ok", "failed"}
    <3>1. next = "db-pool" => Turn("river") > coTodo
      BY <1>2 DEF Turn
    <3> QED
      BY <2>1, <3>1 DEF Closing, ServerTypeOK, Srv!MainHooks
  <2>3. coHookAt'["db-pool"] # "none" => coOutcome["river"] \in {"ok", "failed"}
    BY <1>3, <2>2 DEF BudgetIsShared, Srv!MainHooks
  <2> QED
    BY <1>1, <2>1, <2>3 DEF BudgetIsShared, Srv!workVars
<1> QED
  BY <1>4, <1>5, <1>6, <1>7, BesidesTheCoordinator

LEMMA SettleMovesOn ==
  ASSUME ServerInv, main = "closing",
         Srv!Coord!HookDone \/ (coCtxDone /\ Srv!Coord!HookTimesOut),
         UNCHANGED <<Srv!bootVars, main, Srv!workVars, drainErr, exit>>
  PROVE  ServerInv'
<1> USE DEF ServerInv
<1> DEFINE next == HooksOf("closing")[coTodo].id
<1>1. coPc["Run"] = "inHook" /\ coTodo \in 1..3 /\ coRunner = "Run" /\ coCopied = HooksOf("closing")
  BY DEF Srv!Coord!HookDone, Srv!Coord!HookTimesOut, Closing
<1>2. next \in Srv!MainHooks /\ Turn(next) = coTodo
  BY <1>1, HookAtIndex
<1>3. PICK r \in {"ok", "failed", "timedOut"} :
        /\ Srv!Coord!Settle(r)
        /\ r = "timedOut" => coCtxDone
        /\ r = "ok" => coHookAt[next] = "ok"
  <2>1. CASE Srv!Coord!HookDone
    <3>1. coHookAt[next] # "running" /\ Srv!Coord!Settle(coHookAt[next])
      BY <1>1, <2>1 DEF Srv!Coord!HookDone, Srv!Coord!NextHook
    <3>2. coHookAt[next] \in {"ok", "failed"}
      BY <1>1, <1>2, <3>1 DEF Closing, ServerTypeOK
    <3> QED
      BY <3>1, <3>2
  <2>2. CASE coCtxDone /\ Srv!Coord!HookTimesOut
    BY <2>2 DEF Srv!Coord!HookTimesOut
  <2> QED
    BY <2>1, <2>2
<1>4. /\ coOutcome' = [coOutcome EXCEPT ![next] = r] /\ coTodo' = coTodo - 1
      /\ coPc' = [coPc EXCEPT !["Run"] = "looping"]
      /\ UNCHANGED <<coRunner, coCtxDone, coCopied, coHookAt, coRet>>
  BY <1>1, <1>3 DEF Srv!Coord!Settle, Srv!Coord!NextHook
<1> HIDE DEF next
<1>5. /\ \A h \in Srv!MainHooks \ {next} : coOutcome'[h] = coOutcome[h] /\ Turn(h) # coTodo
      /\ coOutcome'[next] = r /\ coPc'["Run"] = "looping"
      /\ coHookAt[next] # "none" /\ coOutcome[next] = "none"
  BY <1>1, <1>2, <1>4, EachHasItsTurn DEF ServerTypeOK, Closing
<1>6. ServerTypeOK'
  BY <1>1, <1>2, <1>4 DEF ServerTypeOK, Srv!bootVars, Srv!workVars
<1>7. Closing'
  BY <1>1, <1>2, <1>3, <1>4, <1>5, TurnIsBetween DEF Closing
<1>8. BudgetIsShared'
  <2>1. coHookAt["db-pool"] # "none" => coOutcome'["river"] \in {"ok", "failed"}
    <3>1. coHookAt["db-pool"] # "none" => next # "river"
      BY <1>5 DEF BudgetIsShared
    <3> QED
      BY <1>5, <3>1 DEF BudgetIsShared, Srv!MainHooks
  <2>2. ~coCtxDone => \A h \in Srv!MainHooks : coOutcome'[h] # "timedOut"
    BY <1>3, <1>5 DEF BudgetIsShared
  <2> QED
    BY <1>4, <2>1, <2>2 DEF BudgetIsShared, Srv!workVars
<1> QED
  BY <1>4, <1>6, <1>7, <1>8, BesidesTheCoordinator

LEMMA CompleteEndsTheLoop ==
  ASSUME ServerInv, main = "closing", Srv!Coord!Abort \/ Srv!Coord!Finish,
         UNCHANGED <<Srv!bootVars, main, Srv!workVars, drainErr, exit>>
  PROVE  ServerInv'
<1> USE DEF ServerInv
<1>1. coRunner = "Run" /\ coPc["Run"] = "looping" /\ coTodo \in 0..3
  BY DEF Srv!Coord!Abort, Srv!Coord!Finish, Closing
<1>2. PICK r \in {"nil", "error"} :
        Srv!Coord!Complete(r) /\ (r = "nil" => coTodo = 0 /\ ~Srv!Coord!Errors)
  BY DEF Srv!Coord!Abort, Srv!Coord!Finish
<1>3. /\ coPc' = [coPc EXCEPT !["Run"] = "returned"] /\ coRet' = [coRet EXCEPT !["Run"] = r]
      /\ UNCHANGED <<coRunner, coCtxDone, coCopied, coTodo, coHookAt, coOutcome>>
  BY <1>1, <1>2 DEF Srv!Coord!Complete, Srv!Coord!runVars
<1>4. r = "nil" => \A h \in Srv!MainHooks : coOutcome[h] = "ok"
  <2> SUFFICES ASSUME r = "nil", NEW h \in Srv!MainHooks PROVE coOutcome[h] = "ok"
    OBVIOUS
  <2>1. coOutcome[h] # "none"
    BY <1>2, TurnIsBetween DEF Closing
  <2>2. coOutcome[h] \notin {"failed", "timedOut"}
    BY <1>2 DEF Srv!Coord!Errors
  <2> QED
    BY <2>1, <2>2 DEF ServerTypeOK
<1>5. ServerTypeOK'
  BY <1>3 DEF ServerTypeOK, Srv!bootVars, Srv!workVars
<1>6. Closing'
  BY <1>1, <1>2, <1>3, <1>4 DEF Closing, ServerTypeOK
<1>7. BudgetIsShared'
  BY <1>3 DEF BudgetIsShared, Srv!workVars
<1> QED
  BY <1>3, <1>5, <1>6, <1>7, BesidesTheCoordinator

\* A hook at work: Run is still waiting for the Coordinator.
LEMMA HookMeansClosing ==
  ASSUME ServerInv, NEW h \in Srv!MainHooks, Srv!Hook(h)
  PROVE  main = "closing" /\ coHookAt[h] = "running"
BY DEF Srv!Hook, ServerInv, ServerTypeOK, NotYetClosing

\* A hook returns r, with what it has done to its own resource.
LEMMA HookEnds ==
  ASSUME ServerInv, NEW h \in Srv!MainHooks, Srv!Hook(h), NEW r \in {"ok", "failed"},
         coHookAt' = [coHookAt EXCEPT ![h] = r],
         UNCHANGED <<coHooks, coRunner, coCtxDone, coCopied, coTodo, coPc, coOutcome, coRet,
                     main, boot, serve, requests, sockets, jobs, drainErr, exit>>,
         pool' \in {"none", "open", "closing", "closed"}, cache' \in {"none", "open", "closed"},
         river' \in {"off", "on", "stopping", "cancelling", "stopped"},
         cache' # cache => cache' = "closed",
         pool' # pool => h = "db-pool" /\ pool' = "closed",
         river' # river => h = "river" /\ river' = "stopped" /\ jobs = 0,
         r = "ok" => /\ h = "cache" => cache' = "closed"
                     /\ h = "db-pool" => pool' = "closed"
                     /\ h = "river" => river' = "stopped"
  PROVE  ServerInv'
<1> USE DEF ServerInv
<1>1. main = "closing" /\ coHookAt[h] = "running"
  BY HookMeansClosing
<1>2. coHookAt'[h] = r /\ \A g \in Srv!MainHooks \ {h} : coHookAt'[g] = coHookAt[g]
  BY DEF ServerTypeOK
<1>3. ServerTypeOK'
  BY DEF ServerTypeOK
<1>4. NotYetClosing' /\ LifeInOrder' /\ Srv!NilMeansClean'
  BY <1>1 DEF NotYetClosing, LifeInOrder, Srv!NilMeansClean, BeforeRun
<1>5. Closing'
  BY <1>1, <1>2 DEF Closing
<1>6. HooksCloseTheirOwn'
  BY <1>1, <1>2 DEF HooksCloseTheirOwn, Srv!MainHooks
<1>7. BudgetIsShared'
  BY <1>1, <1>2 DEF BudgetIsShared, Srv!MainHooks
<1> QED
  BY <1>3, <1>4, <1>5, <1>6, <1>7

\* A hook goes on without returning.
LEMMA HookGoesOn ==
  ASSUME ServerInv, NEW h \in Srv!MainHooks, Srv!Hook(h),
         UNCHANGED <<Srv!coordVars, boot, cache, main, serve, requests, sockets, jobs, drainErr,
                     exit>>,
         river' \in {river, "stopping", "cancelling"}, river \in {"on", "stopping"} \/ river' = river,
         pool' = pool \/ (h = "db-pool" /\ pool' = "closing" /\ pool = "open")
  PROVE  ServerInv'
<1> USE DEF ServerInv
<1>1. main = "closing" /\ coHookAt[h] = "running"
  BY HookMeansClosing
<1>2. ServerTypeOK'
  BY DEF ServerTypeOK, Srv!coordVars, Srv!coordRest
<1>3. NotYetClosing' /\ Closing'
  BY CoordinatorWaits DEF Srv!coordVars
<1>4. LifeInOrder' /\ Srv!NilMeansClean' /\ HooksCloseTheirOwn' /\ BudgetIsShared'
  BY <1>1
  DEF LifeInOrder, Srv!NilMeansClean, HooksCloseTheirOwn, BudgetIsShared, Srv!coordVars,
      Srv!coordRest, BeforeRun
<1> QED
  BY <1>2, <1>3, <1>4

LEMMA HookBodyStep == ASSUME ServerInv, Srv!HookBody PROVE ServerInv'
<1>a. "cache" \in Srv!MainHooks /\ "db-pool" \in Srv!MainHooks /\ "river" \in Srv!MainHooks
  BY DEF Srv!MainHooks
<1>b. ASSUME NEW h \in Srv!MainHooks, Srv!Coord!HookReturns(h)
      PROVE  \E r \in {"ok", "failed"} :
               /\ coHookAt' = [coHookAt EXCEPT ![h] = r] /\ coHookAt'[h] = r
               /\ UNCHANGED <<coHooks, coRunner, coCtxDone, coCopied, coTodo, coPc, coOutcome,
                              coRet>>
  BY <1>b DEF Srv!Coord!HookReturns, Srv!Coord!regVars, ServerInv, ServerTypeOK
<1>c. /\ pool \in {"none", "open", "closing", "closed"} /\ cache \in {"none", "open", "closed"}
      /\ river \in {"off", "on", "stopping", "cancelling", "stopped"}
  BY DEF ServerInv, ServerTypeOK
<1>1. CASE Srv!CloseCache
  <2>1. /\ coHookAt' = [coHookAt EXCEPT !["cache"] = "ok"]
        /\ UNCHANGED <<coHooks, coRunner, coCtxDone, coCopied, coTodo, coPc, coOutcome, coRet>>
    BY <1>1, <1>a, <1>b DEF Srv!CloseCache
  <2> QED
    BY <1>1, <1>a, <1>c, <2>1, HookEnds DEF Srv!CloseCache, Srv!workVars
<1>2. CASE Srv!ClosePoolBegins
  BY <1>2, <1>a, HookGoesOn DEF Srv!ClosePoolBegins, Srv!workVars
<1>3. CASE Srv!ClosePoolReturns
  <2>1. /\ coHookAt' = [coHookAt EXCEPT !["db-pool"] = "ok"]
        /\ UNCHANGED <<coHooks, coRunner, coCtxDone, coCopied, coTodo, coPc, coOutcome, coRet>>
    BY <1>3, <1>a, <1>b DEF Srv!ClosePoolReturns
  <2> QED
    BY <1>3, <1>a, <1>c, <2>1, HookEnds DEF Srv!ClosePoolReturns, Srv!workVars
<1>4. CASE Srv!StopRiverBegins \/ Srv!GraceEnds
  BY <1>4, <1>a, HookGoesOn DEF Srv!StopRiverBegins, Srv!GraceEnds, Srv!bootVars
<1>5. CASE Srv!RiverStops
  <2>1. /\ coHookAt' = [coHookAt EXCEPT !["river"] = "ok"]
        /\ UNCHANGED <<coHooks, coRunner, coCtxDone, coCopied, coTodo, coPc, coOutcome, coRet>>
    BY <1>5, <1>a, <1>b DEF Srv!RiverStops, Srv!RiverHookReturns
  <2> QED
    BY <1>5, <1>a, <1>c, <2>1, HookEnds DEF Srv!RiverStops, Srv!bootVars
<1>6. CASE Srv!RiverStopFails
  <2>1. /\ coHookAt' = [coHookAt EXCEPT !["river"] = "failed"]
        /\ UNCHANGED <<coHooks, coRunner, coCtxDone, coCopied, coTodo, coPc, coOutcome, coRet>>
    BY <1>6, <1>a, <1>b DEF Srv!RiverStopFails, Srv!RiverHookReturns
  <2> QED
    BY <1>6, <1>a, <1>c, <2>1, HookEnds DEF Srv!RiverStopFails, Srv!bootVars, Srv!workVars
<1> QED
  BY <1>1, <1>2, <1>3, <1>4, <1>5, <1>6 DEF Srv!HookBody

\* Run returns nil when every hook has returned nil and the drain was complete.
LEMMA RunReturnsStep == ASSUME ServerInv, Srv!RunReturns PROVE ServerInv'
<1> USE DEF ServerInv
<1>1. /\ main = "closing" /\ main' = "gone"
      /\ exit' = (IF coRet["Run"] = "nil" /\ ~drainErr THEN "nil" ELSE "fatal")
      /\ UNCHANGED <<Srv!coordVars, Srv!bootVars, Srv!workVars>>
  BY DEF Srv!RunReturns, Srv!RunResult, Srv!Run
<1>2. ServerTypeOK'
  BY <1>1 DEF ServerTypeOK, Srv!coordVars, Srv!coordRest, Srv!bootVars, Srv!workVars
<1>3. NotYetClosing' /\ Closing'
  BY <1>1, CoordinatorWaits DEF Srv!coordVars
<1>4. HooksCloseTheirOwn' /\ BudgetIsShared' /\ LifeInOrder'
  BY <1>1 DEF HooksCloseTheirOwn, BudgetIsShared, LifeInOrder, Srv!bootVars, Srv!workVars, BeforeRun
<1>5. Srv!NilMeansClean'
  <2> SUFFICES ASSUME coRet["Run"] = "nil", ~drainErr
               PROVE  /\ requests = 0 /\ jobs = 0
                      /\ river = "stopped" /\ pool = "closed" /\ cache = "closed"
    BY <1>1 DEF Srv!NilMeansClean, Srv!bootVars, Srv!workVars
  <2>1. \A h \in {"cache", "db-pool", "river"} : coHookAt[h] = "ok"
    BY <1>1 DEF Closing, Srv!MainHooks
  <2>2. river = "stopped" /\ pool = "closed" /\ cache = "closed" /\ jobs = 0
    BY <1>1, <2>1 DEF HooksCloseTheirOwn, LifeInOrder
  <2> QED
    BY <1>1, <2>2 DEF BudgetIsShared
<1> QED
  BY <1>2, <1>3, <1>4, <1>5

LEMMA ServerStep == ServerInv /\ [Srv!Next]_srvVars => ServerInv'
<1> SUFFICES ASSUME ServerInv, [Srv!Next]_srvVars PROVE ServerInv'
  OBVIOUS
<1>1. CASE Srv!CoordStep
  <2>1. main = "closing" /\ UNCHANGED <<Srv!bootVars, main, Srv!workVars, drainErr, exit>>
    BY <1>1 DEF Srv!CoordStep
  <2> QED
    BY <1>1, <2>1, StartHookTakesNext, SettleMovesOn, CompleteEndsTheLoop DEF Srv!CoordStep
<1>2. CASE UNCHANGED srvVars
  <2>1. UNCHANGED <<Srv!coordRest, coCtxDone, boot, pool, cache, main, serve, requests, sockets,
                    river, jobs, drainErr, exit>>
    BY <1>2 DEF srvVars, Srv!coordRest
  <2>2. ServerTypeOK'
    BY <2>1 DEF ServerInv, ServerTypeOK, Srv!coordRest
  <2>3. NotYetClosing' /\ Closing'
    BY <2>1, CoordinatorWaits DEF ServerInv
  <2>4. HooksCloseTheirOwn' /\ BudgetIsShared' /\ LifeInOrder' /\ Srv!NilMeansClean'
    BY <2>1 DEF ServerInv, HooksCloseTheirOwn, BudgetIsShared, LifeInOrder, Srv!NilMeansClean,
                Srv!coordRest
  <2> QED
    BY <2>2, <2>3, <2>4 DEF ServerInv
<1> QED
  BY <1>1, <1>2, BootStep, RegisterHookStep, StartStep, WorkStep, BudgetStep, OnShutdownStep,
     HookBodyStep, RunReturnsStep DEF Srv!Next

\* Whoever has the pool closed under it was not there.
LEMMA PoolClosesLast == ServerInv => Srv!PoolOutlivesUsers
<1> SUFFICES ASSUME ServerInv, pool \in {"closing", "closed"}, main # "gone"
             PROVE  requests = 0 /\ (jobs = 0 \/ coOutcome["river"] = "failed")
  BY DEF Srv!PoolOutlivesUsers
<1> USE DEF ServerInv
<1>1. coHookAt["db-pool"] # "none" /\ main = "closing"
  BY DEF HooksCloseTheirOwn, NotYetClosing, ServerTypeOK, Srv!MainHooks
<1>2. requests = 0 /\ coOutcome["river"] \in {"ok", "failed"}
  BY <1>1 DEF BudgetIsShared, Srv!MainHooks
<1>3. coOutcome["river"] = "ok" => jobs = 0
  BY <1>1 DEF Closing, HooksCloseTheirOwn, LifeInOrder, Srv!MainHooks
<1> QED
  BY <1>2, <1>3

-----------------------------------------------------------------------------
(* The parts together.                                                     *)
LEMMA EachPartSteps ==
  [StoppingNext]_<<focus, vars, srvVars, readyVars>> =>
    [Next]_vars /\ [Srv!Next]_srvVars /\ [Ready!Next]_readyVars
BY DEF StoppingNext, Only

(* The end of the server and the reports on it are true: the pool outlives *)
(* the requests and the jobs that use it, a Run that returns nil has       *)
(* drained the requests http.Server tracks, stopped the jobs and closed    *)
(* its resources, however many hijacked connections are still served       *)
(* (cmd/server/main.go, httpserver.Run), and an "ok" of the health checks  *)
(* vouches for every probe that was registered all along (healthcheck.go), *)
(* for any number of requests, jobs, probes, dependencies and checks.      *)
THEOREM ServerEndsTruly == StoppingSpec => []ReportsAreTrue
<1>1. StoppingInit => ServerInv /\ ReadyInv
  BY ServerStarts, ReadyStarts DEF StoppingInit
<1>2. ServerInv /\ ReadyInv /\ [StoppingNext]_<<focus, vars, srvVars, readyVars>>
        => ServerInv' /\ ReadyInv'
  BY EachPartSteps, ServerStep, ReadyStep
<1>3. ServerInv /\ ReadyInv => ReportsAreTrue
  BY PoolClosesLast DEF ReportsAreTrue, ServerInv, ReadyInv
<1> QED
  BY <1>1, <1>2, <1>3, PTL DEF StoppingSpec
=============================================================================
