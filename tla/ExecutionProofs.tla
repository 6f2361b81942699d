--------------------------- MODULE ExecutionProofs ---------------------------
(***************************************************************************)
(* Proofs about the two places where work runs outside the event loop: the *)
(* foreground shell commands, for any finite set of commands, size of the  *)
(* thread pool and number of key presses; and, in the second part, the     *)
(* pool of sub-interpreters, for any calls, supply of interpreters and     *)
(* capacity.                                                               *)
(***************************************************************************)
EXTENDS ShellCommands, InterpreterPool, FiniteSetTheorems, TLAPS

\* TypeOK without the count, in two parts, for the provers.
Flags == confirm \in BOOLEAN /\ cancelling \in BOOLEAN
Shape ==
  /\ task \in [Commands -> {"idle", "asking", "running", "done", "cancelled"}]
  /\ worker \in [Commands -> {"none", "queued", "aborted", "register", "watch",
                              "cleanup", "returned"}]
  /\ proc \in [Commands -> {"none", "alive", "clean", "failed"}]
  /\ hardy \subseteq Commands
  /\ outcome \in [Commands -> {"none", "refused", "error", "timeout", "clean",
                               "failed", "interrupted"}]
  /\ running \subseteq Commands /\ userKilled \subseteq Commands
  /\ lock \in Handlers \cup {Nobody}
  /\ killer \in [Killers -> {"idle", "snapshot", "next", "mark",
                             "discard", "done"}]
  /\ left \in [Killers -> SUBSET Commands] /\ victim \in [Killers -> SUBSET Commands]
  /\ presses \in 0 .. MaxPresses

Unstarted == {"none", "queued", "aborted"}
Born == {c \in Commands : proc[c] # "none"}

(* A command has no process, and no result of one, before a thread takes   *)
(* it; a process is registered, and killed, only once it was born.         *)
WorkInv ==
  /\ \A c \in Commands :
       /\ task[c] \in {"idle", "asking"} => worker[c] = "none"
       /\ worker[c] \in Unstarted => proc[c] = "none" /\ outcome[c] \in {"none", "refused"}
       /\ worker[c] \in {"register", "watch", "cleanup"} => c \in Born
  /\ running \subseteq Born

(* What a killer has dealt with is dead or was signalled in vain.          *)
KillInv ==
  \A k \in Killers :
    /\ left[k] \subseteq Born
    /\ killer[k] = "mark" => victim[k] \subseteq Dead \cup hardy
    /\ killer[k] = "discard" => victim[k] \subseteq Dead

IInv == /\ Flags /\ Shape /\ ContextCounted /\ WorkInv
        /\ NoneOutlives /\ UntrackedOnlyInVain /\ KillInv

-----------------------------------------------------------------------------
InShell == {c \in Commands : task[c] = "running"}

LEMMA RunningFinite ==
  /\ IsFiniteSet(InShell) /\ Cardinality(InShell) \in Nat
  /\ Cardinality(Commands) \in Nat /\ Cardinality(InShell) <= Cardinality(Commands)
  <1>1. IsFiniteSet(InShell) /\ Cardinality(InShell) <= Cardinality(Commands)
    BY FS_Subset, ShellAssumption DEF InShell
  <1> QED
    BY <1>1, FS_CardinalityType, ShellAssumption

LEMMA InitHolds == Init => IInv
  <1> SUFFICES ASSUME Init PROVE IInv
    OBVIOUS
  <1> USE DEF Init
  <1>1. Flags
    BY Zenon DEF Flags
  <1>2. Shape
    BY ShellAssumption DEF Shape
  <1>3. ContextCounted
    <2>1. {c \in Commands : task[c] = "running"} = {}
      OBVIOUS
    <2> QED
      BY <2>1, FS_EmptySet DEF ContextCounted
  <1>4. WorkInv /\ NoneOutlives /\ UntrackedOnlyInVain /\ KillInv
    BY DEF WorkInv, NoneOutlives, UntrackedOnlyInVain, KillInv, Unstarted, Born
  <1> QED
    BY <1>1, <1>2, <1>3, <1>4 DEF IInv

-----------------------------------------------------------------------------
\* The coroutine of a command, and the cancellation of all.
LEMMA CoroutineKeeps ==
  ASSUME IInv, NEW c \in Commands, Coroutine(c)
  PROVE  IInv'
  <1> USE DEF workerVars, procVars, killVars
  <1>0. Flags /\ Shape /\ ContextCounted /\ WorkInv /\ NoneOutlives /\ UntrackedOnlyInVain /\ KillInv
    BY DEF IInv
  <1>1. /\ UNCHANGED <<procVars, running, killVars, presses, cancelling>>
        /\ \/ /\ task[c] = "idle" /\ task' = [task EXCEPT ![c] = "asking"]
              /\ UNCHANGED <<refcount, worker, outcome>>
           \/ /\ task[c] \in {"idle", "asking"} /\ task' = [task EXCEPT ![c] = "done"]
              /\ outcome' = [outcome EXCEPT ![c] = "refused"] /\ UNCHANGED <<refcount, worker>>
           \/ /\ task[c] \in {"idle", "asking"} /\ task' = [task EXCEPT ![c] = "running"]
              /\ refcount' = refcount + 1 /\ worker' = [worker EXCEPT ![c] = "queued"]
              /\ UNCHANGED outcome
           \/ /\ task[c] = "running" /\ task' = [task EXCEPT ![c] = "done"]
              /\ refcount' = Released(1) /\ UNCHANGED <<worker, outcome>>
    BY Zenon DEF Coroutine, Ask, AskBusy, Reject, Execute, Deliver
  <1>2. Flags'
    BY <1>0, Zenon DEF Flags, Coroutine, Ask, AskBusy, Reject, Execute, Deliver
  <1>3. Shape'
    BY <1>0, <1>1 DEF Shape
  <1>4. ContextCounted'
    <2>1. refcount = Cardinality(InShell) /\ refcount \in Nat /\ IsFiniteSet(InShell)
      BY <1>0, RunningFinite DEF ContextCounted, InShell
    <2>2. CASE task[c] # "running" /\ task'[c] # "running" /\ refcount' = refcount
      <3>1. InShell' = InShell
        BY <1>0, <1>1, <2>2 DEF InShell, Shape
      <3> QED
        BY <2>1, <2>2, <3>1 DEF ContextCounted, InShell
    <2>3. CASE task[c] # "running" /\ task'[c] = "running" /\ refcount' = refcount + 1
      <3>1. InShell' = InShell \cup {c} /\ c \notin InShell
        BY <1>0, <1>1, <2>3 DEF InShell, Shape
      <3>2. Cardinality(InShell \cup {c}) = Cardinality(InShell) + 1
        BY <2>1, <3>1, FS_AddElement
      <3> QED
        BY <2>1, <2>3, <3>1, <3>2 DEF ContextCounted, InShell
    <2>4. CASE task[c] = "running" /\ task'[c] # "running" /\ refcount' = Released(1)
      <3>1. InShell' = InShell \ {c} /\ c \in InShell
        BY <1>0, <1>1, <2>4 DEF InShell, Shape
      <3>2. Cardinality(InShell \ {c}) = Cardinality(InShell) - 1 /\ InShell # {}
        BY <2>1, <3>1, FS_RemoveElement
      <3>3. Cardinality(InShell) # 0
        BY <2>1, <3>2, FS_EmptySet
      <3>4. refcount' = Cardinality(InShell')
        BY <2>1, <2>4, <3>1, <3>2, <3>3 DEF Released
      <3> QED
        BY <3>4 DEF ContextCounted, InShell
    <2> QED
      BY <1>0, <1>1, <2>2, <2>3, <2>4 DEF Shape
  <1>5. WorkInv'
    BY <1>0, <1>1 DEF WorkInv, Shape, Unstarted, Born
  <1>6. NoneOutlives'
    BY <1>0, <1>1 DEF NoneOutlives, WorkInv, Shape, Dead
  <1>7. UntrackedOnlyInVain'
    BY <1>0, <1>1 DEF UntrackedOnlyInVain, Shape, Dead
  <1>8. KillInv'
    BY <1>0, <1>1 DEF KillInv, Born, Dead
  <1> QED
    BY <1>2, <1>3, <1>4, <1>5, <1>6, <1>7, <1>8 DEF IInv

LEMMA CancelKeeps ==
  ASSUME IInv, Cancel
  PROVE  IInv'
  <1> USE DEF workerVars, procVars, killVars
  <1>0. Flags /\ Shape /\ ContextCounted /\ WorkInv /\ NoneOutlives /\ UntrackedOnlyInVain /\ KillInv
    BY DEF IInv
  <1>1. /\ UNCHANGED <<confirm, outcome, procVars, running, killVars, presses>>
        /\ cancelling' = FALSE
        /\ task' = [c \in Commands |-> IF c \in Cancelled THEN "cancelled" ELSE task[c]]
        /\ refcount' = Released(Cardinality({c \in Cancelled : task[c] = "running"}))
        /\ worker' = [c \in Commands |-> IF c \in Cancelled /\ worker[c] = "queued"
                                           THEN "aborted" ELSE worker[c]]
    BY DEF Cancel
  <1>2. Flags'
    BY <1>0, <1>1, Zenon DEF Flags
  <1>3. Shape'
    BY <1>0, <1>1 DEF Shape
  <1>4. ContextCounted'
    <2>1. {c \in Cancelled : task[c] = "running"} = InShell
      BY DEF Cancelled, InShell
    <2>2. refcount = Cardinality(InShell) /\ refcount \in Nat
      BY <1>0, RunningFinite DEF ContextCounted, InShell
    <2>3. refcount' = 0
      <3>1. refcount' = Released(Cardinality(InShell))
        BY <1>1, <2>1
      <3>2. refcount - Cardinality(InShell) <= 0
        BY <2>2
      <3> QED
        BY <3>1, <3>2 DEF Released
    <2>4. InShell' = {}
      BY <1>0, <1>1 DEF InShell, Cancelled, Shape
    <2> QED
      BY <2>3, <2>4, FS_EmptySet DEF ContextCounted, InShell
  <1>5. WorkInv'
    BY <1>0, <1>1 DEF WorkInv, Shape, Unstarted, Born, Cancelled
  <1>6. NoneOutlives' /\ UntrackedOnlyInVain' /\ KillInv'
    BY <1>0, <1>1 DEF NoneOutlives, UntrackedOnlyInVain, KillInv, Shape, Dead, Born
  <1> QED
    BY <1>2, <1>3, <1>4, <1>5, <1>6 DEF IInv

-----------------------------------------------------------------------------
\* Processes only go on: the born stay born, the dead dead, the hardy hardy.
OnlyOn == Born \subseteq Born' /\ Dead \subseteq Dead' /\ hardy \subseteq hardy'

LEMMA SignalParts ==
  ASSUME Shape, NEW c \in Commands, NEW ways, ways \subseteq {"failed", "clean"},
         Signal(c, ways)
  PROVE  /\ OnlyOn
         /\ proc' \in [Commands -> {"none", "alive", "clean", "failed"}]
         /\ hardy' \subseteq Commands
         /\ c \in Born => c \in Dead' \cup hardy'
         /\ \A d \in Commands \ {c} : proc'[d] = proc[d]
         /\ proc[c] = "none" => proc'[c] = "none"
  BY DEF Shape, Signal, OnlyOn, Born, Dead

\* A thread of the pool at work for a command, and the command's process.
LEMMA ThreadKeeps ==
  ASSUME IInv, NEW c \in Commands, Thread(c) \/ ProcessEnds(c)
  PROVE  IInv'
  <1> USE DEF taskVars, workerVars, procVars, killVars
  <1>0. Flags /\ Shape /\ ContextCounted /\ WorkInv /\ NoneOutlives /\ UntrackedOnlyInVain /\ KillInv
    BY DEF IInv
  <1>1. UNCHANGED <<taskVars, killVars, presses, cancelling>>
    BY Zenon DEF Thread, Start, StartFails, Register, RegisterFails,
                 TimesOut, Cleanup, SeeEnd, WatchFails, ProcessEnds
  <1>2. Flags' /\ ContextCounted'
    <2>1. Flags'
      BY <1>0, <1>1, Zenon DEF Flags
    <2> QED
      BY <1>0, <1>1, <2>1 DEF ContextCounted
  <1>3. /\ proc' \in [Commands -> {"none", "alive", "clean", "failed"}]
        /\ OnlyOn
        /\ hardy' \subseteq Commands
        /\ \A d \in Commands \ {c} : proc'[d] = proc[d]
    <2>1. CASE Cleanup(c)
      BY <1>0, <2>1, SignalParts DEF Cleanup
    <2>2. CASE ~Cleanup(c)
      BY <1>0, <2>2 DEF Shape, OnlyOn, Born, Dead, WorkInv, Unstarted, Thread, Start, StartFails,
                        Register, RegisterFails, TimesOut, SeeEnd,
                        WatchFails, ProcessEnds
    <2> QED
      BY <2>1, <2>2
  <1>4. /\ worker' \in [Commands -> {"none", "queued", "aborted", "register", "watch",
                                     "cleanup", "returned"}]
        /\ \A d \in Commands \ {c} : worker'[d] = worker[d] /\ outcome'[d] = outcome[d]
        /\ outcome' \in [Commands -> {"none", "refused", "error", "timeout", "clean",
                                      "failed", "interrupted"}]
    BY <1>0 DEF Shape, Thread, Start, StartFails, Register, RegisterFails, TimesOut,
                Cleanup, SeeEnd, WatchFails,
                ProcessEnds, Goto, ResultOf
  <1>5. /\ running' \subseteq running \cup {c}
        /\ \A d \in running \ {c} : d \in running' \/ d \in Dead
        /\ c \in running' => c \in running \/ (c \in Born /\ worker'[c] = "watch")
    BY <1>0 DEF Shape, Thread, Start, StartFails, Register, RegisterFails, TimesOut,
                Cleanup, SeeEnd, WatchFails,
                ProcessEnds, Goto, Unregistered, WorkInv
  <1>6. Shape'
    BY <1>0, <1>1, <1>3, <1>4, <1>5 DEF Shape
  <1>7. KillInv'
    BY <1>0, <1>1, <1>3 DEF KillInv, OnlyOn
  <1>8. WorkInv'
    <2>1. /\ task[c] \in {"idle", "asking"} => worker'[c] = "none"
          /\ worker'[c] \in Unstarted => proc'[c] = "none" /\ outcome'[c] \in {"none", "refused"}
          /\ worker'[c] \in {"register", "watch", "cleanup"} => c \in Born'
      BY <1>0, <1>1 DEF WorkInv, Shape, Unstarted, Born, Thread, Start, StartFails, Register, RegisterFails,
                       TimesOut, Cleanup, SeeEnd, WatchFails, ProcessEnds, Goto
    <2>2. \A d \in Commands \ {c} : d \in Born' <=> d \in Born
      BY <1>3 DEF Born
    <2>3. running' \subseteq Born'
      BY <1>0, <1>3, <1>5 DEF WorkInv, OnlyOn
    <2> QED
      BY <1>0, <1>1, <1>3, <1>4, <2>1, <2>2, <2>3 DEF WorkInv
  <1>9. NoneOutlives'
    <2>1. ASSUME outcome'[c] \in {"clean", "failed", "interrupted", "timeout"}
          PROVE  c \in Dead' \/ (outcome'[c] = "timeout" /\ c \in hardy')
      <3>1. CASE Cleanup(c)
        <4>1. outcome'[c] = "timeout" /\ c \in Born
          BY <1>0, <3>1 DEF Cleanup, Shape, WorkInv
        <4>2. c \in Dead' \cup hardy'
          BY <1>0, <3>1, <4>1, SignalParts DEF Cleanup
        <4> QED
          BY <4>1, <4>2
      <3>2. CASE ~Cleanup(c)
        BY <1>0, <1>3, <2>1, <3>2 DEF NoneOutlives, OnlyOn, Shape, Dead, Thread, Start,
             StartFails, Register, RegisterFails, TimesOut, SeeEnd,
                        WatchFails, ProcessEnds, Goto
      <3> QED
        BY <3>1, <3>2
    <2> QED
      BY <1>0, <1>3, <1>4, <2>1 DEF NoneOutlives, OnlyOn
  <1>10. UntrackedOnlyInVain'
    <2>1. worker'[c] = "watch" /\ c \notin running' => worker[c] = "watch" /\ c \notin running
      BY <1>0 DEF Shape, Thread, Start, StartFails, Register, RegisterFails, TimesOut,
                Cleanup, SeeEnd, WatchFails,
                  ProcessEnds, Goto
    <2> QED
      BY <1>0, <1>1, <1>3, <1>4, <1>5, <2>1 DEF UntrackedOnlyInVain, OnlyOn
  <1> QED
    BY <1>2, <1>6, <1>7, <1>8, <1>9, <1>10 DEF IInv

-----------------------------------------------------------------------------
\* The keys, and the killers they start.
LEMMA KeyKeeps ==
  ASSUME IInv,
         RequestCancel \/ PressKey \/ \E i \in Handlers : Interrupt(i) \/ InterruptInside(i)
  PROVE  IInv'
  <1> USE DEF taskVars, workerVars, procVars, killVars
  <1>0. Flags /\ Shape /\ ContextCounted /\ WorkInv /\ NoneOutlives /\ UntrackedOnlyInVain /\ KillInv
    BY DEF IInv
  <1>1. /\ UNCHANGED <<taskVars, workerVars, procVars, running, left, victim, userKilled>>
        /\ presses < MaxPresses /\ presses' = presses + 1
    BY DEF RequestCancel, PressKey, Interrupt, InterruptInside
  <1>2. Flags'
    BY <1>0, Zenon DEF Flags, RequestCancel, PressKey, Interrupt, InterruptInside
  <1>3. /\ lock' \in Handlers \cup {Nobody}
        /\ killer' = killer \/ \E k \in Killers : killer' = [killer EXCEPT ![k] = "snapshot"]
    <2>1. CASE RequestCancel
      BY <1>0, <2>1 DEF RequestCancel, Shape
    <2>2. CASE PressKey
      BY <1>0, <2>2, ShellAssumption DEF PressKey, Label, Shape, Killers, Listener
    <2>3. ASSUME NEW i \in Handlers, Interrupt(i) \/ InterruptInside(i)
          PROVE  /\ lock' \in Handlers \cup {Nobody}
                 /\ killer' = killer \/ \E k \in Killers : killer' = [killer EXCEPT ![k] = "snapshot"]
      <3>1. i \in Killers
        BY ShellAssumption DEF Handlers, Killers, Listener
      <3>2. lock' \in Handlers \cup {Nobody}
        BY <1>0, <2>3, ShellAssumption DEF Interrupt, InterruptInside, Shape, Handlers
      <3> QED
        BY <2>3, <3>1, <3>2 DEF Interrupt, InterruptInside, Label
    <2> QED
      BY <2>1, <2>2, <2>3
  <1>4. Shape'
    BY <1>0, <1>1, <1>3, ShellAssumption DEF Shape
  <1>5. ContextCounted' /\ WorkInv' /\ NoneOutlives' /\ UntrackedOnlyInVain'
    BY <1>0, <1>1 DEF ContextCounted, WorkInv, NoneOutlives, UntrackedOnlyInVain, Dead, Born
  <1>6. KillInv'
    BY <1>0, <1>1, <1>3 DEF KillInv, Shape, Dead, Born
  <1> QED
    BY <1>2, <1>4, <1>5, <1>6 DEF IInv

LEMMA KillerKeeps ==
  ASSUME IInv, NEW k \in Killers, KillAll(k)
  PROVE  IInv'
  <1> USE DEF taskVars, workerVars, procVars, killVars
  <1>0. Flags /\ Shape /\ ContextCounted /\ WorkInv /\ NoneOutlives /\ UntrackedOnlyInVain /\ KillInv
    BY DEF IInv
  <1>1. UNCHANGED <<taskVars, workerVars, presses, cancelling, lock>>
    BY Zenon DEF KillAll, Snapshot, SkipDead, Kill, Discard, Finish
  <1>2. Flags' /\ ContextCounted'
    <2>1. Flags'
      BY <1>0, <1>1, Zenon DEF Flags
    <2> QED
      BY <1>0, <1>1, <2>1 DEF ContextCounted
  <1>3. CASE Snapshot(k) \/ SkipDead(k) \/ Finish(k)
    <2>1. UNCHANGED <<procVars, running, userKilled>>
      BY <1>3 DEF Snapshot, SkipDead, Finish
    <2>2. Shape'
      BY <1>0, <1>1, <1>3, <2>1 DEF Shape, Snapshot, SkipDead, Finish, Label
    <2>3. WorkInv' /\ NoneOutlives' /\ UntrackedOnlyInVain'
      BY <1>0, <1>1, <2>1 DEF WorkInv, NoneOutlives, UntrackedOnlyInVain, Dead, Born
    <2>4. KillInv'
      BY <1>0, <1>3, <2>1 DEF KillInv, WorkInv, Shape, Dead, Born, Snapshot, SkipDead, Finish, Label
    <2> QED
      BY <1>2, <2>2, <2>3, <2>4 DEF IInv
  <1>4. CASE Kill(k)
    <2>1. PICK c \in left[k] \ Dead :
            /\ Signal(c, {"failed", "clean"})
            /\ victim' = [victim EXCEPT ![k] = {c}] /\ killer' = [killer EXCEPT ![k] = "mark"]
            /\ UNCHANGED <<running, left, userKilled>>
      BY <1>4 DEF Kill, Label
    <2>2. c \in Commands /\ c \in Born
      BY <1>0 DEF KillInv, Shape
    <2>3. /\ OnlyOn /\ hardy' \subseteq Commands
          /\ proc' \in [Commands -> {"none", "alive", "clean", "failed"}]
          /\ c \in Dead' \cup hardy'
          /\ \A d \in Commands \ {c} : proc'[d] = proc[d]
          /\ proc[c] = "none" => proc'[c] = "none"
      BY <1>0, <2>1, <2>2, SignalParts
    <2>4. Shape'
      BY <1>0, <1>1, <2>1, <2>2, <2>3 DEF Shape
    <2>5. WorkInv'
      BY <1>0, <1>1, <2>1, <2>3 DEF WorkInv, OnlyOn, Unstarted
    <2>6. NoneOutlives' /\ UntrackedOnlyInVain'
      BY <1>0, <1>1, <2>1, <2>3 DEF NoneOutlives, UntrackedOnlyInVain, OnlyOn
    <2>7. KillInv'
      BY <1>0, <2>1, <2>3 DEF KillInv, OnlyOn, Shape
    <2> QED
      BY <1>2, <2>4, <2>5, <2>6, <2>7 DEF IInv
  <1>5. CASE Discard(k)
    <2>1. /\ killer[k] \in {"mark", "discard"}
          /\ userKilled' = (IF killer[k] = "mark" THEN userKilled \cup victim[k] ELSE userKilled)
          /\ running' = running \ (victim[k] \cup Dead)
          /\ left' = [left EXCEPT ![k] = @ \ victim[k]]
          /\ victim' = [victim EXCEPT ![k] = {}] /\ killer' = [killer EXCEPT ![k] = "next"]
          /\ UNCHANGED procVars
      BY <1>5 DEF Discard, Label
    <2>2. Shape'
      BY <1>0, <1>1, <2>1 DEF Shape
    <2>3. WorkInv' /\ NoneOutlives'
      BY <1>0, <1>1, <2>1 DEF WorkInv, NoneOutlives, Dead, Born
    <2>4. UntrackedOnlyInVain'
      <3>1. \A c \in victim[k] : c \in Dead \/ c \in hardy \cap userKilled'
        BY <1>0, <2>1 DEF KillInv
      <3>2. Dead' = Dead /\ userKilled \subseteq userKilled'
        BY <2>1 DEF Dead
      <3> QED
        BY <1>0, <1>1, <2>1, <3>1, <3>2 DEF UntrackedOnlyInVain
    <2>5. KillInv'
      BY <1>0, <2>1 DEF KillInv, Shape, Dead, Born
    <2> QED
      BY <1>2, <2>2, <2>3, <2>4, <2>5 DEF IInv
  <1> QED
    BY <1>3, <1>4, <1>5 DEF KillAll

LEMMA StepKeeps == IInv /\ [Next]_vars => IInv'
  <1> SUFFICES ASSUME IInv, [Next]_vars PROVE IInv'
    OBVIOUS
  <1>1. CASE UNCHANGED vars
    <2> USE <1>1 DEF vars, taskVars, workerVars, procVars, killVars
    <2>1. Flags'
      BY Zenon DEF IInv, Flags
    <2>2. Shape' /\ ContextCounted'
      BY DEF IInv, Shape, ContextCounted
    <2>3. WorkInv' /\ NoneOutlives' /\ UntrackedOnlyInVain' /\ KillInv'
      BY DEF IInv, WorkInv, NoneOutlives, UntrackedOnlyInVain, KillInv, Dead, Born
    <2> QED
      BY <2>1, <2>2, <2>3 DEF IInv
  <1> QED
    BY <1>1, CoroutineKeeps, CancelKeeps, ThreadKeeps, KeyKeeps, KillerKeeps DEF Next

-----------------------------------------------------------------------------
(* The strengthened invariant holds in every reachable state.              *)
THEOREM InductiveInvariant == Spec => []IInv
  <1>1. Init => IInv
    BY InitHolds
  <1>2. IInv /\ [Next]_vars => IInv'
    BY StepKeeps
  <1> QED
    BY <1>1, <1>2, PTL DEF Spec

(* Every variable keeps its type, and the context is never counted more    *)
(* often than there are commands.                                          *)
THEOREM TypeCorrect == Spec => []TypeOK
  <1>1. IInv => TypeOK
    <2> SUFFICES ASSUME IInv PROVE TypeOK
      OBVIOUS
    <2>1. refcount \in 0 .. Cardinality(Commands)
      BY RunningFinite DEF IInv, ContextCounted, InShell
    <2>2. confirm \in BOOLEAN /\ cancelling \in BOOLEAN
      BY Zenon DEF IInv, Flags
    <2> QED
      BY <2>1, <2>2 DEF IInv, TypeOK, Shape
  <1> QED
    BY <1>1, InductiveInvariant, PTL

(* The keyboard context is released once by every command that took it,    *)
(* whatever is cancelled when.                                             *)
THEOREM ContextIsCounted == Spec => []ContextCounted
  <1>1. IInv => ContextCounted
    BY DEF IInv
  <1> QED
    BY <1>1, InductiveInvariant, PTL

(* A process that is watched is missing from the registry only if it is    *)
(* dead or was signalled in vain by a killer.                              *)
THEOREM RegistryIsTrusted == Spec => []UntrackedOnlyInVain
  <1>1. IInv => UntrackedOnlyInVain
    BY DEF IInv
  <1> QED
    BY <1>1, InductiveInvariant, PTL

(* No process outlives its command unless our signals cannot end it.       *)
THEOREM NoProcessOutlives == Spec => []NoneOutlives
  <1>1. IInv => NoneOutlives
    BY DEF IInv
  <1> QED
    BY <1>1, InductiveInvariant, PTL

-----------------------------------------------------------------------------
\* The pool of sub-interpreters: what it holds and what the calls hold, or
\* held, has been created.
Known == /\ Pooled \subseteq created
         /\ dead \subseteq created
         /\ \A c \in Calls : pc[c] # "idle" => interp[c] \in created

(* What a call holds is dead only because a watcher of that interpreter    *)
(* fired, and the same goes for the pool: nobody closes an interpreter and *)
(* passes it on.                                                           *)
DeadByTimeout ==
    /\ \A c \in Calls : timer[c] = "firing" => timedOut[c]
    /\ \A c \in Calls : timedOut[c] => timer[c] # "off"
    /\ \A i \in Pooled \cap dead : \E d \in Calls : timedOut[d] /\ interp[d] = i
    /\ DestroyedOnlyByTimeout

(* An append still to come after shutdown is one of the late ones. *)
LateOnly == /\ drained => closed
            /\ closed => \A c \in Calls : pc[c] = "append" => interp[c] \in late
            /\ OnlyLateReleasesSurviveShutdown

PoolInv == PoolTypeOK /\ Known /\ Exclusive /\ PoolBounded /\ NoForgotten /\ DeadByTimeout /\ LateOnly
-----------------------------------------------------------------------------
(* The three operations the pool applies to its deque, by their elements. *)
LEMMA TailElements ==
    ASSUME NEW S, NEW s \in Seq(S), s # <<>>
    PROVE  /\ Head(s) \in S /\ Tail(s) \in Seq(S) /\ Len(s) \in Nat
           /\ Len(s) >= 1 /\ Head(s) = s[1]
           /\ Len(Tail(s)) = Len(s) - 1
           /\ \A k \in 1..Len(Tail(s)) : Tail(s)[k] = s[k + 1]
  OBVIOUS

LEMMA AppendElements ==
    ASSUME NEW S, NEW s \in Seq(S), NEW e \in S
    PROVE  /\ Append(s, e) \in Seq(S) /\ Len(s) \in Nat
           /\ Len(Append(s, e)) = Len(s) + 1
           /\ Append(s, e)[Len(s) + 1] = e
           /\ \A k \in 1..Len(s) : Append(s, e)[k] = s[k]
  OBVIOUS

(* What they do to the set of pooled interpreters. *)
LEMMA PoolUnchanged == UNCHANGED pool => UNCHANGED Pooled /\ (Distinct => Distinct')
  BY DEF Pooled, Distinct

LEMMA PoolPopped ==
    ASSUME pool \in Seq(Interps), pool # <<>>, Distinct, pool' = Tail(pool)
    PROVE  /\ Head(pool) \in Pooled
           /\ Pooled' = Pooled \ {Head(pool)}
           /\ Distinct'
           /\ Len(pool') < Len(pool) /\ Len(pool') \in Nat /\ Len(pool) \in Nat
<1>1. /\ Len(pool) \in Nat /\ Len(pool) >= 1 /\ Head(pool) = pool[1]
      /\ Len(pool') = Len(pool) - 1
      /\ \A k \in 1..Len(pool') : pool'[k] = pool[k + 1]
  BY TailElements
<1>2. Head(pool) \in Pooled
  BY <1>1 DEF Pooled
<1>3. Distinct'
  BY <1>1 DEF Distinct
<1>4. Pooled' \subseteq Pooled \ {Head(pool)}
  BY <1>1 DEF Pooled, Distinct
<1>5. ASSUME NEW i \in Pooled, i # Head(pool) PROVE i \in Pooled'
  <2>1. PICK k \in 1..Len(pool) : pool[k] = i
    BY DEF Pooled
  <2>2. k # 1
    BY <2>1, <1>1, <1>5
  <2>3. k - 1 \in 1..Len(pool') /\ pool'[k - 1] = pool[k]
    BY <2>1, <2>2, <1>1
  <2> QED BY <2>1, <2>3 DEF Pooled
<1> QED BY <1>1, <1>2, <1>3, <1>4, <1>5

LEMMA PoolPushed ==
    ASSUME pool \in Seq(Interps), NEW e \in Interps, e \notin Pooled, Distinct,
           pool' = Append(pool, e)
    PROVE  /\ Pooled' = Pooled \cup {e}
           /\ Distinct'
           /\ Len(pool) \in Nat /\ Len(pool') = Len(pool) + 1
<1>1. /\ Len(pool) \in Nat /\ Len(pool') = Len(pool) + 1
      /\ pool'[Len(pool) + 1] = e
      /\ \A k \in 1..Len(pool) : pool'[k] = pool[k]
  BY AppendElements
<1>2. \A k \in 1..Len(pool') : k \in 1..Len(pool) \/ k = Len(pool) + 1
  BY <1>1
<1>3. Pooled' = Pooled \cup {e}
  BY <1>1, <1>2 DEF Pooled
<1>4. Distinct'
  BY <1>1, <1>2 DEF Distinct, Pooled
<1> QED BY <1>1, <1>3, <1>4

LEMMA PoolDrained == pool' = <<>> => Pooled' = {} /\ Distinct' /\ Len(pool') = 0
  BY DEF Pooled, Distinct
-----------------------------------------------------------------------------
(* Type correctness: every variable stays in its type. *)
THEOREM PoolTypeCorrect == PoolSpec => []PoolTypeOK
<1>1. PoolInit => PoolTypeOK
  <2>1. <<>> \in Seq(Interps)
    OBVIOUS
  <2> QED BY <2>1 DEF PoolInit, PoolTypeOK, PCs, Timers, Outcomes
<1>2. PoolTypeOK /\ [PoolNext]_poolVars => PoolTypeOK'
  <2> SUFFICES ASSUME PoolTypeOK, [PoolNext]_poolVars PROVE PoolTypeOK'
    OBVIOUS
  <2> USE InterpreterPoolAssumption DEF PoolTypeOK, PCs, Timers, Outcomes, Holding
  <2>1. ASSUME NEW c \in Calls, AcquirePooled(c) PROVE PoolTypeOK'
    <3>1. Head(pool) \in Interps /\ Tail(pool) \in Seq(Interps)
      BY <2>1, TailElements DEF AcquirePooled
    <3> QED BY <2>1, <3>1 DEF AcquirePooled
  <2>2. ASSUME NEW c \in Calls, AcquireFresh(c) PROVE PoolTypeOK'
    BY <2>2 DEF AcquireFresh
  <2>3. ASSUME NEW c \in Calls, Prepare(c) PROVE PoolTypeOK'
    BY <2>3 DEF Prepare, Fail
  <2>4. ASSUME NEW c \in Calls, ExecStart(c) PROVE PoolTypeOK'
    BY <2>4 DEF ExecStart, Fail
  <2>5. ASSUME NEW c \in Calls, ExecReturn(c) PROVE PoolTypeOK'
    BY <2>5 DEF ExecReturn, Fail
  <2>6. ASSUME NEW c \in Calls, ExecAborted(c) PROVE PoolTypeOK'
    BY <2>6 DEF ExecAborted, Fail
  <2>7. ASSUME NEW c \in Calls, Report(c) PROVE PoolTypeOK'
    BY <2>7 DEF Report
  <2>8. ASSUME NEW c \in Calls, CancelWatcher(c) PROVE PoolTypeOK'
    BY <2>8 DEF CancelWatcher
  <2>9. ASSUME NEW c \in Calls, ReleaseClose(c) PROVE PoolTypeOK'
    BY <2>9 DEF ReleaseClose
  <2>10. ASSUME NEW c \in Calls, ReleaseKeep(c) PROVE PoolTypeOK'
    BY <2>10 DEF ReleaseKeep
  <2>11. ASSUME NEW c \in Calls, ReleaseAppend(c) PROVE PoolTypeOK'
    <3>1. interp[c] \in Interps /\ Append(pool, interp[c]) \in Seq(Interps)
      BY <2>11, AppendElements DEF ReleaseAppend, ReleaseAppendWith
    <3> QED BY <2>11, <3>1 DEF ReleaseAppend, ReleaseAppendWith
  <2>12. ASSUME NEW c \in Calls, TimerFire(c) PROVE PoolTypeOK'
    BY <2>12 DEF TimerFire
  <2>13. ASSUME NEW c \in Calls, TimerClose(c) PROVE PoolTypeOK'
    BY <2>13 DEF TimerClose
  <2>14. ShutdownFlag => PoolTypeOK'
    BY DEF ShutdownFlag, callVars
  <2>15. ShutdownDrain => PoolTypeOK'
    BY DEF ShutdownDrain, callVars, Pooled
  <2>16. UNCHANGED poolVars => PoolTypeOK'
    BY DEF poolVars, callVars
  <2> QED BY <2>1, <2>2, <2>3, <2>4, <2>5, <2>6, <2>7, <2>8, <2>9, <2>10, <2>11,
             <2>12, <2>13, <2>14, <2>15, <2>16 DEF PoolNext, Step, Timer, Shutdown
<1> QED BY <1>1, <1>2, PTL DEF PoolSpec

(* The inductive invariant holds in every reachable state. *)
THEOREM PoolInvariant == PoolSpec => []PoolInv
<1>1. PoolInit => PoolInv
  <2> SUFFICES ASSUME PoolInit PROVE PoolInv
    OBVIOUS
  <2>1. PoolTypeOK
    <3>1. <<>> \in Seq(Interps)
      OBVIOUS
    <3> QED BY <3>1 DEF PoolInit, PoolTypeOK, PCs, Timers, Outcomes
  <2>2. Len(pool) = 0 /\ Pooled = {} /\ Distinct
    BY DEF PoolInit, Pooled, Distinct
  <2> QED BY <2>1, <2>2, InterpreterPoolAssumption
          DEF PoolInit, PoolInv, Known, Exclusive, PoolBounded, NoForgotten, DeadByTimeout, LateOnly,
              Holding, DestroyedOnlyByTimeout, OnlyLateReleasesSurviveShutdown
<1>2. PoolInv /\ PoolTypeOK' /\ [PoolNext]_poolVars => PoolInv'
  <2> SUFFICES ASSUME PoolInv, PoolTypeOK', [PoolNext]_poolVars PROVE PoolInv'
    OBVIOUS
  <2> USE InterpreterPoolAssumption
      DEF PoolInv, PoolTypeOK, Known, Exclusive, PoolBounded, NoForgotten, DeadByTimeout, LateOnly,
          Holding, DestroyedOnlyByTimeout, OnlyLateReleasesSurviveShutdown,
          PCs, Timers, Outcomes
  <2>1. ASSUME NEW c \in Calls, AcquirePooled(c) PROVE PoolInv'
    BY <2>1, PoolPopped DEF AcquirePooled
  <2>2. ASSUME NEW c \in Calls, AcquireFresh(c) PROVE PoolInv'
    BY <2>2, PoolUnchanged DEF AcquireFresh
  <2>3. ASSUME NEW c \in Calls, Prepare(c) PROVE PoolInv'
    BY <2>3, PoolUnchanged DEF Prepare, Fail
  <2>4. ASSUME NEW c \in Calls, ExecStart(c) PROVE PoolInv'
    BY <2>4, PoolUnchanged DEF ExecStart, Fail
  <2>5. ASSUME NEW c \in Calls, ExecReturn(c) PROVE PoolInv'
    BY <2>5, PoolUnchanged DEF ExecReturn, Fail
  <2>6. ASSUME NEW c \in Calls, ExecAborted(c) PROVE PoolInv'
    BY <2>6, PoolUnchanged DEF ExecAborted, Fail
  <2>7. ASSUME NEW c \in Calls, Report(c) PROVE PoolInv'
    BY <2>7, PoolUnchanged DEF Report
  <2>8. ASSUME NEW c \in Calls, CancelWatcher(c) PROVE PoolInv'
    BY <2>8, PoolUnchanged DEF CancelWatcher
  <2>9. ASSUME NEW c \in Calls, ReleaseClose(c) PROVE PoolInv'
    BY <2>9, PoolUnchanged DEF ReleaseClose
  <2>10. ASSUME NEW c \in Calls, ReleaseKeep(c) PROVE PoolInv'
    BY <2>10, PoolUnchanged DEF ReleaseKeep
  <2>11. ASSUME NEW c \in Calls, ReleaseAppend(c) PROVE PoolInv'
    <3>1. interp[c] \in Interps /\ interp[c] \notin Pooled /\ pc[c] = "append"
      BY <2>11 DEF ReleaseAppend, ReleaseAppendWith
    <3>2. CASE Len(pool) < MaxWorkers
      <4>1. pool' = Append(pool, interp[c]) /\ dead' = dead
        BY <2>11, <3>2 DEF ReleaseAppend, ReleaseAppendWith
      <4>2. /\ Pooled' = Pooled \cup {interp[c]} /\ Distinct'
            /\ Len(pool) \in Nat /\ Len(pool') = Len(pool) + 1
        BY <3>1, <4>1, PoolPushed
      <4> QED BY <2>11, <3>1, <3>2, <4>1, <4>2 DEF ReleaseAppend, ReleaseAppendWith
    <3>3. CASE ~(Len(pool) < MaxWorkers)
      <4>1. Len(pool) \in Nat /\ Len(pool) >= MaxWorkers
        BY <3>3, InterpreterPoolAssumption
      <4>2. pool' = pool /\ dead' = dead \cup {interp[c]}
        BY <2>11, <3>3, <4>1 DEF ReleaseAppend, ReleaseAppendWith
      <4> QED BY <2>11, <3>1, <4>2, PoolUnchanged DEF ReleaseAppend, ReleaseAppendWith
    <3> QED BY <3>2, <3>3
  <2>12. ASSUME NEW c \in Calls, TimerFire(c) PROVE PoolInv'
    BY <2>12, PoolUnchanged DEF TimerFire
  <2>13. ASSUME NEW c \in Calls, TimerClose(c) PROVE PoolInv'
    BY <2>13, PoolUnchanged DEF TimerClose
  <2>14. ShutdownFlag => PoolInv'
    BY PoolUnchanged DEF ShutdownFlag, callVars
  <2>15. ShutdownDrain => PoolInv'
    BY PoolDrained DEF ShutdownDrain, callVars
  <2>16. UNCHANGED poolVars => PoolInv'
    BY PoolUnchanged DEF poolVars, callVars
  <2> QED BY <2>1, <2>2, <2>3, <2>4, <2>5, <2>6, <2>7, <2>8, <2>9, <2>10, <2>11,
             <2>12, <2>13, <2>14, <2>15, <2>16 DEF PoolNext, Step, Timer, Shutdown
<1> QED BY <1>1, <1>2, PoolTypeCorrect, PTL DEF PoolSpec

(* One call at a time uses an interpreter, and the pool holds it once. *)
THEOREM ExclusiveUse == PoolSpec => []Exclusive
  BY PoolInvariant, PTL DEF PoolInv

(* The pool never outgrows its capacity and forgets no live interpreter. *)
THEOREM PoolKeepsAccount == PoolSpec => [](PoolBounded /\ NoForgotten)
  BY PoolInvariant, PTL DEF PoolInv

(* Only a watcher of its own interpreter destroys it under a call. *)
THEOREM DestroyedByWatchers == PoolSpec => []DestroyedOnlyByTimeout
  BY PoolInvariant, PTL DEF PoolInv, DeadByTimeout

(* What outlives shutdown in the pool was appended by a late release. *)
THEOREM ShutdownLeavesOnlyLate == PoolSpec => []OnlyLateReleasesSurviveShutdown
  BY PoolInvariant, PTL DEF PoolInv, LateOnly
=============================================================================
