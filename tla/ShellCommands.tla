---------------------------- MODULE ShellCommands ----------------------------
(***************************************************************************)
(* Foreground shell commands (tools/command_runner.py) and what can stop   *)
(* them.  A coroutine on the event loop may ask for confirmation, then     *)
(* takes the keyboard context and hands the command to a thread of the     *)
(* pool, which starts the process, registers it and watches it.  Ctrl-X    *)
(* kills all registered processes from the listener thread, Ctrl-C from a  *)
(* signal handler on the main thread, where the loop and earlier handlers  *)
(* stand still meanwhile.  The agent may be cancelled while nothing is     *)
(* registered (agents/_run_signals.py); the cancellation takes effect      *)
(* later, on the loop.                                                     *)
(***************************************************************************)
EXTENDS Integers, FiniteSets

CONSTANTS
  Commands,
  PoolSize,      \* threads of _SHELL_EXECUTOR
  MaxPresses     \* bound: times Ctrl-X, Ctrl-C or the cancel key is pressed

ASSUME ShellAssumption ==
  /\ IsFiniteSet(Commands)
  /\ PoolSize \in Nat \ {0} /\ MaxPresses \in Nat

Handlers == 1 .. MaxPresses
Listener == 0
Killers  == Listener .. MaxPresses
Nobody   == -1

VARIABLES
  task,        \* the coroutine run_shell_command of each command
  worker,      \* _run_command_sync in the pool
  proc,        \* each process: "none", "alive", or how it ended: "clean"
               \* or "failed" (by itself or by a signal)
  hardy,       \* the processes found to survive our signals
  outcome,     \* what the command returned
  confirm,     \* _CONFIRMATION_LOCK is held
  refcount,    \* _KEYBOARD_CONTEXT_REFCOUNT
  running,     \* _RUNNING_PROCESSES
  lock,        \* the handler interrupted inside _RUNNING_PROCESSES_LOCK, or Nobody
  userKilled,  \* _USER_KILLED_PROCESSES
  killer,      \* each call of kill_all_running_shell_processes
  left,        \* procs it has not dealt with yet
  victim,      \* the one it deals with
  presses,     \* number of key presses
  cancelling   \* a cancel is scheduled on the loop

taskVars   == <<task, confirm, refcount>>
workerVars == <<worker, outcome>>
procVars   == <<proc, hardy>>
killVars   == <<killer, left, victim, lock, userKilled>>
vars == <<taskVars, workerVars, procVars, running, killVars, presses, cancelling>>

Init ==
  /\ task = [c \in Commands |-> "idle"] /\ worker = [c \in Commands |-> "none"]
  /\ proc = [c \in Commands |-> "none"] /\ hardy = {}
  /\ outcome = [c \in Commands |-> "none"]
  /\ confirm = FALSE /\ refcount = 0
  /\ running = {} /\ lock = Nobody /\ userKilled = {}
  /\ killer = [k \in Killers |-> "idle"]
  /\ left = [k \in Killers |-> {}] /\ victim = [k \in Killers |-> {}]
  /\ presses = 0 /\ cancelling = FALSE

InHandler(i) == killer[i] \notin {"idle", "done"}
LoopFree     == \A i \in Handlers : ~ InHandler(i)
Watched      == refcount > 0
Busy         == {c \in Commands : worker[c] \notin {"none", "queued", "aborted", "returned"}}
Dead         == {c \in Commands : proc[c] \in {"clean", "failed"}}
-------------------------------------------------------------------------------
(* The coroutine, on the event loop.                                       *)

(* The lock is tried, never waited for.                                    *)
Ask(c) ==
  /\ LoopFree /\ task[c] = "idle" /\ ~ confirm
  /\ confirm' = TRUE
  /\ task' = [task EXCEPT ![c] = "asking"]
  /\ UNCHANGED <<refcount, workerVars, procVars, running, killVars, presses, cancelling>>

AskBusy(c) ==
  /\ LoopFree /\ task[c] = "idle" /\ confirm
  /\ task' = [task EXCEPT ![c] = "done"]
  /\ outcome' = [outcome EXCEPT ![c] = "refused"]
  /\ UNCHANGED <<confirm, refcount, worker, procVars, running, killVars, presses, cancelling>>

Reject(c) ==
  /\ LoopFree /\ task[c] = "asking"
  /\ confirm' = FALSE
  /\ task' = [task EXCEPT ![c] = "done"]
  /\ outcome' = [outcome EXCEPT ![c] = "refused"]
  /\ UNCHANGED <<refcount, worker, procVars, running, killVars, presses, cancelling>>

(* Approved, or no question asked (yolo mode, subagent, policy): the       *)
(* keyboard context is taken and the command handed to the pool.           *)
Execute(c) ==
  /\ LoopFree
  /\ \/ task[c] = "asking" /\ confirm' = FALSE
     \/ task[c] = "idle" /\ UNCHANGED confirm
  /\ task' = [task EXCEPT ![c] = "running"]
  /\ refcount' = refcount + 1
  /\ worker' = [worker EXCEPT ![c] = "queued"]
  /\ UNCHANGED <<outcome, procVars, running, killVars, presses, cancelling>>

Released(n) == IF refcount - n <= 0 THEN 0 ELSE refcount - n

(* The thread has returned: the context is released, the tool returns.     *)
Deliver(c) ==
  /\ LoopFree /\ task[c] = "running" /\ worker[c] = "returned"
  /\ task' = [task EXCEPT ![c] = "done"]
  /\ refcount' = Released(1)
  /\ UNCHANGED <<confirm, workerVars, procVars, running, killVars, presses, cancelling>>

(* The cancel key, on its listener's thread.                               *)
RequestCancel ==
  /\ presses < MaxPresses /\ running = {}
  /\ presses' = presses + 1 /\ cancelling' = TRUE
  /\ UNCHANGED <<taskVars, workerVars, procVars, running, killVars>>

Cancelled == {c \in Commands : task[c] \in {"asking", "running"}}

CancelKeepingContext ==       \* faulty: no finally around the await
  /\ LoopFree /\ cancelling
  /\ cancelling' = FALSE
  /\ task' = [c \in Commands |-> IF c \in Cancelled THEN "cancelled" ELSE task[c]]
  /\ worker' = [c \in Commands |-> IF c \in Cancelled /\ worker[c] = "queued"
                                     THEN "aborted" ELSE worker[c]]
  /\ UNCHANGED <<confirm, refcount, outcome, procVars, running, killVars, presses>>

(* The scheduled cancel reaches the coroutines: those that run release the *)
(* context; those that ask never come to release the confirmation lock; a  *)
(* queued call is withdrawn, one that has begun goes on.                   *)
Cancel ==
  /\ LoopFree /\ cancelling
  /\ cancelling' = FALSE
  /\ task' = [c \in Commands |-> IF c \in Cancelled THEN "cancelled" ELSE task[c]]
  /\ refcount' = Released(Cardinality({c \in Cancelled : task[c] = "running"}))
  /\ worker' = [c \in Commands |-> IF c \in Cancelled /\ worker[c] = "queued"
                                     THEN "aborted" ELSE worker[c]]
  /\ UNCHANGED <<confirm, outcome, procVars, running, killVars, presses>>
-------------------------------------------------------------------------------
(* The thread that runs the command, and its process.                      *)

Goto(c, label) == worker' = [worker EXCEPT ![c] = label]
Unregistered(c) == running \ ({c} \cup Dead)

(* A free thread of the pool starts the process, or fails to.              *)
Start(c) ==
  /\ worker[c] = "queued" /\ Cardinality(Busy) < PoolSize
  /\ proc' = [proc EXCEPT ![c] = "alive"]
  /\ Goto(c, "register")
  /\ UNCHANGED <<taskVars, outcome, hardy, running, killVars, presses, cancelling>>

StartFails(c) ==
  /\ worker[c] = "queued" /\ Cardinality(Busy) < PoolSize
  /\ outcome' = [outcome EXCEPT ![c] = "error"]
  /\ Goto(c, "returned")
  /\ UNCHANGED <<taskVars, procVars, running, killVars, presses, cancelling>>

Register(c) ==
  /\ worker[c] = "register" /\ lock = Nobody
  /\ running' = running \cup {c}
  /\ Goto(c, "watch")
  /\ UNCHANGED <<taskVars, outcome, procVars, killVars, presses, cancelling>>

(* A failure between Popen and the registration loses sight of the process.*)
RegisterFails(c) ==
  /\ worker[c] = "register"
  /\ outcome' = [outcome EXCEPT ![c] = "error"]
  /\ Goto(c, "returned")
  /\ UNCHANGED <<taskVars, procVars, running, killVars, presses, cancelling>>

ProcessEnds(c) == \E how \in {"clean", "failed"} :
  /\ proc[c] = "alive"
  /\ proc' = [proc EXCEPT ![c] = how]
  /\ UNCHANGED <<taskVars, workerVars, hardy, running, killVars, presses, cancelling>>

(* The process was seen alive after the inactivity or the absolute limit.  *)
TimesOut(c) ==
  /\ worker[c] = "watch" /\ proc[c] = "alive"
  /\ Goto(c, "cleanup")
  /\ UNCHANGED <<taskVars, outcome, procVars, running, killVars, presses, cancelling>>

(* _kill_process_group on a process seen alive: it ends one way or         *)
(* another, unless our signals cannot reach it.                            *)
Signal(c, ways) ==
  \/ /\ proc[c] = "alive"
     /\ \/ c \notin hardy /\ (\E how \in ways : proc' = [proc EXCEPT ![c] = how])
                          /\ UNCHANGED hardy
        \/ hardy' = hardy \cup {c} /\ UNCHANGED proc
  \/ proc[c] # "alive" /\ UNCHANGED <<proc, hardy>>

CleanupWaiting(c) ==          \* faulty: waits for the process to be gone
  /\ worker[c] = "cleanup" /\ lock = Nobody
  /\ Signal(c, {"failed"}) /\ proc'[c] # "alive"
  /\ running' = Unregistered(c)
  /\ outcome' = [outcome EXCEPT ![c] = "timeout"]
  /\ Goto(c, "returned")
  /\ UNCHANGED <<taskVars, killVars, presses, cancelling>>

(* cleanup_process_and_threads: a last kill, then the process is           *)
(* unregistered whatever became of it.                                     *)
Cleanup(c) ==
  /\ worker[c] = "cleanup" /\ lock = Nobody
  /\ Signal(c, {"failed"})
  /\ running' = Unregistered(c)
  /\ outcome' = [outcome EXCEPT ![c] = "timeout"]
  /\ Goto(c, "returned")
  /\ UNCHANGED <<taskVars, killVars, presses, cancelling>>

ResultOf(c) == IF proc[c] = "clean" THEN "clean"
               ELSE IF c \in userKilled THEN "interrupted" ELSE "failed"

(* faulty: a process that the killer unregistered counts as ended.         *)
SeeEndByRegistry(c) ==
  /\ worker[c] = "watch" /\ lock = Nobody
  /\ c \in Dead \/ c \notin running
  /\ running' = Unregistered(c)
  /\ outcome' = [outcome EXCEPT ![c] = ResultOf(c)]
  /\ Goto(c, "returned")
  /\ UNCHANGED <<taskVars, procVars, killVars, presses, cancelling>>

(* The watch loop finds the process gone, unregisters it and looks up      *)
(* whether the user killed it.                                             *)
SeeEnd(c) ==
  /\ worker[c] = "watch" /\ lock = Nobody
  /\ c \in Dead
  /\ running' = Unregistered(c)
  /\ outcome' = [outcome EXCEPT ![c] = ResultOf(c)]
  /\ Goto(c, "returned")
  /\ UNCHANGED <<taskVars, procVars, killVars, presses, cancelling>>

(* Any exception while it watches, before the kill of a timeout or after   *)
(* the end was seen: an error is reported and the process unregistered,    *)
(* alive or not.                                                           *)
WatchFails(c) ==
  /\ worker[c] = "watch" /\ lock = Nobody
  /\ running' = Unregistered(c)
  /\ outcome' = [outcome EXCEPT ![c] = "error"]
  /\ Goto(c, "returned")
  /\ UNCHANGED <<taskVars, procVars, killVars, presses, cancelling>>
-------------------------------------------------------------------------------
(* kill_all_running_shell_processes.  A signal handler waits for the ones  *)
(* that interrupted it; the listener's thread does not.                    *)

Free(k)     == k = Listener \/ \A j \in Handlers : j > k => ~ InHandler(j)
Label(k, l) == killer' = [killer EXCEPT ![k] = l]

PressKey ==
  /\ killer[Listener] = "idle" /\ Watched /\ presses < MaxPresses
  /\ presses' = presses + 1
  /\ Label(Listener, "snapshot")
  /\ UNCHANGED <<taskVars, workerVars, procVars, running, left, victim, lock,
                 userKilled, cancelling>>

Interrupt(i) ==
  /\ killer[i] = "idle" /\ (i > 1 => killer[i - 1] # "idle") /\ Watched
  /\ presses < MaxPresses /\ presses' = presses + 1
  /\ Label(i, "snapshot")
  /\ UNCHANGED <<taskVars, workerVars, procVars, running, left, victim, lock,
                 userKilled, cancelling>>

InterruptInsideAny(i) ==      \* faulty: the listener counts as a handler
  /\ killer[i] = "idle" /\ Watched
  /\ killer[i - 1] \in {"snapshot", "mark", "discard"} /\ lock = Nobody
  /\ presses < MaxPresses /\ presses' = presses + 1
  /\ lock' = i - 1
  /\ Label(i, "snapshot")
  /\ UNCHANGED <<taskVars, workerVars, procVars, running, left, victim,
                 userKilled, cancelling>>

(* The signal arrives while the handler it interrupts is inside the lock.  *)
InterruptInside(i) ==
  /\ killer[i] = "idle" /\ i > 1 /\ Watched
  /\ killer[i - 1] \in {"snapshot", "mark", "discard"} /\ lock = Nobody
  /\ presses < MaxPresses /\ presses' = presses + 1
  /\ lock' = i - 1
  /\ Label(i, "snapshot")
  /\ UNCHANGED <<taskVars, workerVars, procVars, running, left, victim,
                 userKilled, cancelling>>

Snapshot(k) ==
  /\ Free(k) /\ killer[k] = "snapshot" /\ lock = Nobody
  /\ left' = [left EXCEPT ![k] = running]
  /\ Label(k, "next")
  /\ UNCHANGED <<taskVars, workerVars, procVars, running, victim, lock,
                 userKilled, presses, cancelling>>

(* A process that is dead already is only unregistered.                    *)
SkipDead(k) == \E c \in left[k] \cap Dead :
  /\ Free(k) /\ killer[k] = "next"
  /\ victim' = [victim EXCEPT ![k] = {c}]
  /\ Label(k, "discard")
  /\ UNCHANGED <<taskVars, workerVars, procVars, running, left, lock, userKilled,
                 presses, cancelling>>

(* One that is alive is signalled; it may just have ended by itself.       *)
Kill(k) == \E c \in left[k] \ Dead :
  /\ Free(k) /\ killer[k] = "next"
  /\ Signal(c, {"failed", "clean"})
  /\ victim' = [victim EXCEPT ![k] = {c}]
  /\ Label(k, "mark")
  /\ UNCHANGED <<taskVars, workerVars, running, left, lock, userKilled, presses, cancelling>>

DiscardAll(k) ==              \* faulty: clears the registry
  /\ Free(k) /\ killer[k] \in {"mark", "discard"} /\ lock = Nobody
  /\ userKilled' = IF killer[k] = "mark" THEN userKilled \cup victim[k] ELSE userKilled
  /\ running' = {}
  /\ left' = [left EXCEPT ![k] = @ \ victim[k]]
  /\ victim' = [victim EXCEPT ![k] = {}]
  /\ Label(k, "next")
  /\ UNCHANGED <<taskVars, workerVars, procVars, lock, presses, cancelling>>

(* The pid is noted only after the sleeps of _kill_process_group; whether  *)
(* or not the process has gone, it is unregistered.                        *)
Discard(k) ==
  /\ Free(k) /\ killer[k] \in {"mark", "discard"} /\ lock = Nobody
  /\ userKilled' = IF killer[k] = "mark" THEN userKilled \cup victim[k] ELSE userKilled
  /\ running' = running \ (victim[k] \cup Dead)
  /\ left' = [left EXCEPT ![k] = @ \ victim[k]]
  /\ victim' = [victim EXCEPT ![k] = {}]
  /\ Label(k, "next")
  /\ UNCHANGED <<taskVars, workerVars, procVars, lock, presses, cancelling>>

Finish(k) ==
  /\ Free(k) /\ killer[k] = "next" /\ left[k] = {}
  /\ Label(k, IF k = Listener THEN "idle" ELSE "done")
  /\ UNCHANGED <<taskVars, workerVars, procVars, running, left, victim, lock,
                 userKilled, presses, cancelling>>
-------------------------------------------------------------------------------
Coroutine(c) == Ask(c) \/ AskBusy(c) \/ Reject(c) \/ Execute(c) \/ Deliver(c)
Thread(c)    == \/ Start(c) \/ StartFails(c) \/ Register(c) \/ RegisterFails(c)
                \/ TimesOut(c) \/ Cleanup(c) \/ SeeEnd(c) \/ WatchFails(c)
KillAll(k)   == Snapshot(k) \/ SkipDead(k) \/ Kill(k) \/ Discard(k) \/ Finish(k)

Next ==
  \/ \E c \in Commands : Coroutine(c) \/ Thread(c) \/ ProcessEnds(c)
  \/ RequestCancel \/ Cancel
  \/ PressKey \/ \E i \in Handlers : Interrupt(i) \/ InterruptInside(i)
  \/ \E k \in Killers : KillAll(k)

Spec == Init /\ [][Next]_vars

(* The loop, the threads and the handlers run on; the user answers what is *)
(* asked; a process that neither ends nor is killed times out.  Of a       *)
(* command either the coroutine or the thread is to move, never both, and  *)
(* of the handlers the innermost.                                          *)
FairSpec ==
  /\ Spec
  /\ \A c \in Commands : WF_vars(Execute(c) \/ Reject(c) \/ Deliver(c) \/ Thread(c))
  /\ WF_vars(Cancel)
  /\ WF_vars(KillAll(Listener)) /\ WF_vars(\E i \in Handlers : KillAll(i))
-------------------------------------------------------------------------------
TypeOK ==
  /\ task \in [Commands -> {"idle", "asking", "running", "done", "cancelled"}]
  /\ worker \in [Commands -> {"none", "queued", "aborted", "register", "watch",
                              "cleanup", "returned"}]
  /\ proc \in [Commands -> {"none", "alive", "clean", "failed"}]
  /\ hardy \subseteq Commands
  /\ outcome \in [Commands -> {"none", "refused", "error", "timeout", "clean",
                               "failed", "interrupted"}]
  /\ confirm \in BOOLEAN /\ refcount \in 0 .. Cardinality(Commands)
  /\ running \subseteq Commands /\ userKilled \subseteq Commands
  /\ lock \in Handlers \cup {Nobody}
  /\ killer \in [Killers -> {"idle", "snapshot", "next", "mark",
                             "discard", "done"}]
  /\ left \in [Killers -> SUBSET Commands] /\ victim \in [Killers -> SUBSET Commands]
  /\ presses \in 0 .. MaxPresses /\ cancelling \in BOOLEAN

(* The keyboard context is counted exactly, whatever is cancelled when: it *)
(* is released once by every command that took it.                         *)
ContextCounted == refcount = Cardinality({c \in Commands : task[c] = "running"})

(* The registry a cancel consults is trustworthy: a process being watched  *)
(* is missing from it only if it is dead or a killer tried it in vain.     *)
UntrackedOnlyInVain ==
  \A c \in Commands :
    worker[c] = "watch" /\ c \notin running /\ c \notin Dead
      => c \in hardy \cap userKilled

(* A command reports an end of its process, or a timeout it enforced as    *)
(* far as it could: no process outlives its command unless it is hardy, or *)
(* the command reports an error of its own thread instead.                 *)
NoneOutlives ==
  \A c \in Commands :
    outcome[c] \in {"clean", "failed", "interrupted", "timeout"}
      => c \in Dead \/ (outcome[c] = "timeout" /\ c \in hardy)

(* Every command that was given to the pool returns or is cancelled: kills *)
(* and timeouts in any order, from any thread, do not lose it; only a      *)
(* second Ctrl-C inside the lock of the first handler can.                 *)
CommandsReturn ==
  \A c \in Commands :
    task[c] = "running" ~> task[c] \in {"done", "cancelled"} \/ lock # Nobody
===============================================================================
