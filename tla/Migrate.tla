------------------------------ MODULE Migrate ------------------------------
(***************************************************************************)
(* cmd/migrate: the text UI over a Migrator, with FakeMigrator (or         *)
(* golang-migrate behind LiveMigrator, external, which moves the same      *)
(* version) as the database.                                               *)
(*                                                                         *)
(* bubbletea (external) hands Update one message at a time: the user's     *)
(* keys, and what the commands of earlier Updates return, in any order.    *)
(* So a key may come between an Enter and the message it caused.  Moving   *)
(* a cursor and pressing Enter is one step here, ChooseAction and Answer.  *)
(***************************************************************************)
EXTENDS Integers, FiniteSets, Sequences, FiniteSetsExt

CONSTANTS Versions, \* versions of the migrations on disk, sorted by scanMigrations
          MaxKeys,  \* bound: Enter keys pressed
          None      \* no status yet, no action

VARIABLES applied, maxApplied, \* FakeMigrator
          phase,    \* "loading", "picker", "confirm", "running", "done"
          status,   \* Status.CurrentVersion as loaded, None before that
          pending,  \* model.pending
          msgs,     \* messages under way to Update
          tasks,    \* AsyncTasks whose worker has not returned
          keys,     \* Enter keys pressed so far, and names for what they cause
          shown,    \* the action of the confirm screen when Yes was last pressed
          hasty,    \* a key was pressed while a message was under way
          done,     \* the versions of the runResult on screen, none for an error
          exit      \* "none", "quit" or "error"

vars == <<applied, maxApplied, phase, status, pending, msgs, tasks, keys, shown, hasty,
          done, exit>>
migrator == <<applied, maxApplied>>
user == <<keys, shown, hasty>>

Promised == INSTANCE Migrations

Actions == {"up-all", "up-one", "down-one", "refresh", "quit"}

Init == /\ applied = {} /\ maxApplied = 0
        /\ phase = "loading" /\ status = None /\ pending = None
        /\ msgs = {} /\ tasks = {[tag |-> "load-status", key |-> 0]}
        /\ keys = 0 /\ shown = None /\ hasty = FALSE
        /\ done = None /\ exit = "none"

-----------------------------------------------------------------------------
(* FakeMigrator.                                                           *)
\* Slip: DownOne leaves maxApplied alone.
HighestKept(set) == maxApplied

Highest(set) == IF set = {} THEN 0 ELSE Max(set)

UpAll == applied' = Versions /\ maxApplied' = Max(Versions \cup {maxApplied})

UpOne == LET v == Min(Versions \ applied)
         IN  /\ applied' = applied \cup {v}
             /\ maxApplied' = Max({v, maxApplied})

DownOne == /\ applied' = applied \ {maxApplied}
           /\ maxApplied' = Highest(applied')

\* ErrNoChange, or the error that FailNext queued.
NoChange(a) == \/ a = "up-one" /\ applied = Versions
               \/ a = "down-one" /\ maxApplied = 0

Runs(a) == \/ a = "up-all" /\ UpAll
           \/ a = "up-one" /\ ~NoChange(a) /\ UpOne
           \/ a = "down-one" /\ ~NoChange(a) /\ DownOne

\* Another operator: the headless command.
RunHeadless(a) == /\ Runs(a)
                  /\ UNCHANGED <<phase, status, pending, msgs, tasks, user, done, exit>>

-----------------------------------------------------------------------------
(* Workers of AsyncTasks.  Each sends its TaskDoneMsg when it returns.     *)
Returns(task, msg) == tasks' = tasks \ {task} /\ msgs' = msgs \cup {msg}

LoadStatus(task) ==
  /\ exit = "none" /\ task.tag = "load-status"
  /\ \/ Returns(task, [tag |-> "load-status", version |-> maxApplied])
     \/ Returns(task, [tag |-> "failed"])
  /\ UNCHANGED <<migrator, phase, status, pending, user, done, exit>>

\* runMigration: the operation, then Status for the new version; an error of
\* either is part of the result.
RunMigration(task) ==
  /\ exit = "none" /\ task.tag = "run"
  /\ \/ /\ Runs(task.action)
        /\ tasks' = (tasks \ {task}) \cup {[tag |-> "ran", prior |-> task.prior,
                                            key |-> task.key]}
        /\ UNCHANGED msgs
     \/ /\ Returns(task, [tag |-> "run", result |-> <<>>])
        /\ UNCHANGED migrator
  /\ UNCHANGED <<phase, status, pending, user, done, exit>>

ReadNewVersion(task) ==
  /\ exit = "none" /\ task.tag = "ran"
  /\ \/ Returns(task, [tag |-> "run", result |-> <<task.prior, maxApplied>>])
     \/ Returns(task, [tag |-> "run", result |-> <<>>])
  /\ UNCHANGED <<migrator, phase, status, pending, user, done, exit>>

-----------------------------------------------------------------------------
(* Keys.  The phase's Update turns an Enter into a message.                *)
Press(msg) == /\ exit = "none" /\ keys < MaxKeys
              /\ keys' = keys + 1
              /\ hasty' = (hasty \/ msgs # {})
              /\ msgs' = msgs \cup {msg}

ChooseAction(a) == /\ phase = "picker"
                   /\ Press([tag |-> "action", action |-> a, key |-> keys'])
                   /\ UNCHANGED <<migrator, phase, status, pending, tasks, shown, done, exit>>

Answer(yes) == /\ phase = "confirm"
               /\ Press([tag |-> "confirm", yes |-> yes, key |-> keys'])
               /\ shown' = IF yes THEN pending ELSE None
               /\ UNCHANGED <<migrator, phase, status, pending, tasks, done, exit>>

\* q or ctrl+c in any phase, Enter or esc in the last: the program returns,
\* whatever its workers are doing.
Quit == /\ exit = "none"
        /\ exit' = "quit"
        /\ UNCHANGED <<migrator, phase, status, pending, msgs, tasks, user, done>>

-----------------------------------------------------------------------------
(* Update, by the tag of the message.                                      *)
Handles(msg) == exit = "none" /\ msg \in msgs /\ msgs' = msgs \ {msg}

EntersLoading(k) == /\ phase' = "loading"
                    /\ tasks' = tasks \cup {[tag |-> "load-status", key |-> k]}

OnTaskDone(msg) ==
  /\ Handles(msg)
  /\ \/ /\ msg.tag = "failed" /\ exit' = "error"
        /\ UNCHANGED <<phase, status, done>>
     \/ /\ msg.tag = "load-status"
        /\ status' = msg.version /\ phase' = "picker"
        /\ UNCHANGED <<done, exit>>
     \/ /\ msg.tag = "run"
        /\ done' = msg.result /\ phase' = "done"
        /\ UNCHANGED <<status, exit>>
  /\ UNCHANGED <<migrator, pending, tasks, user>>

OnPicker(msg) ==
  /\ Handles(msg) /\ msg.tag = "action"
  /\ pending' = msg.action
  /\ \/ /\ msg.action = "quit" /\ exit' = "quit"
        /\ UNCHANGED <<phase, tasks>>
     \/ /\ msg.action = "refresh" /\ EntersLoading(msg.key)
        /\ UNCHANGED exit
     \/ /\ msg.action \notin {"quit", "refresh"} /\ phase' = "confirm"
        /\ UNCHANGED <<tasks, exit>>
  /\ UNCHANGED <<migrator, status, user, done>>

\* Slip: any answer will do.
ConfirmedAnyhow(msg) == TRUE

Confirmed(msg) == msg.yes

OnConfirm(msg) ==
  /\ Handles(msg) /\ msg.tag = "confirm"
  /\ IF Confirmed(msg)
     THEN /\ phase' = "running"
          /\ tasks' = tasks \cup {[tag |-> "run", action |-> pending, prior |-> status,
                                     key |-> msg.key]}
     ELSE EntersLoading(msg.key)
  /\ UNCHANGED <<migrator, status, pending, user, done, exit>>

Next == \/ \E a \in Actions : RunHeadless(a) \/ ChooseAction(a)
        \/ \E task \in tasks : LoadStatus(task) \/ RunMigration(task) \/ ReadNewVersion(task)
        \/ \E yes \in BOOLEAN : Answer(yes)
        \/ Quit
        \/ \E msg \in msgs : OnTaskDone(msg) \/ OnPicker(msg) \/ OnConfirm(msg)

Spec == Init /\ [][Next]_vars

-----------------------------------------------------------------------------
Ends == {v \in applied \cup {0} : \A w \in applied : w <= v}

(* However many operators apply and revert, what is applied is the prefix  *)
(* of the migrations that one operation after the other leaves, and        *)
(* maxApplied is its end.                                                  *)
ImplementsMigrations == Promised!Spec /\ [](maxApplied \in Ends)

(* For a user who waits for the screen to follow, a run is a run of the    *)
(* action on the screen that was answered last, and with Yes, and no other *)
(* run is under way beside it.                                             *)
RunsWhatWasShown ==
  [][\A task \in tasks' \ tasks : task.tag = "run" /\ ~hasty =>
       task.action = shown /\ \A other \in tasks : other.tag \notin {"run", "ran"}]_vars

(* The same without patience.  False of the code: a second Enter before    *)
(* the message of the first starts a second run.  Stated, not checked.     *)
OneRunPerScreen == Cardinality({task \in tasks : task.tag \in {"run", "ran"}}) <= 1
=============================================================================
