-------------------------- MODULE SessionStoreProofs --------------------------
(***************************************************************************)
(* Proofs about the persistence of conversations, for any numbers of       *)
(* sessions, turns and seconds, any throttle and any limit on the saved    *)
(* sessions; those that rest on one process say so.                        *)
(***************************************************************************)
EXTENDS SessionStore, FiniteSetTheorems, TLAPS

\* The files, and what a process keeps.
DiskType ==
    /\ disk \in [Names -> [Files -> Histories \cup {Nil}]]
    /\ older \subseteq Existing \X Existing
ProcType ==
    /\ hist \in [Procs -> Histories]
    /\ id \in [Procs -> Ids \cup {NoId}]
    /\ counter \in [Procs -> 0..(Throttle - 1)]
    /\ hashes \in [Procs -> [Names -> Histories \cup {Nil}]]
    /\ pc \in [Procs -> PCs]
    /\ target \in [Procs -> Names]
    /\ after \in [Procs -> {"return", "rotate", "dump"}]
    /\ stale \in [Procs -> SUBSET (Ids \X Files)] /\ skipped \in [Procs -> Nat]
OtherType ==
    /\ clock \in 1..MaxClock /\ convs \in 0..MaxConvs
    /\ reissued \subseteq Ids /\ failed \in BOOLEAN

LEMMA TypeParts == TypeOK <=> DiskType /\ ProcType /\ OtherType
  BY Zenon DEF TypeOK, DiskType, ProcType, OtherType

LEMMA Constant ==
    /\ Throttle \in Nat /\ Throttle > 0 /\ MaxSessions \in Nat /\ MaxClock \in Nat /\ MaxClock > 0
    /\ MaxTurns \in Nat /\ MaxConvs \in Nat
    /\ Ids \subseteq Nat /\ Ids \subseteq Names /\ Context \in Names /\ Context \notin Ids
    /\ Context \in Nat /\ NoId \notin Ids /\ Files = {"json", "pkl"}
    /\ \A h \in Histories : h.conv \in 1..MaxConvs /\ h.len \in 0..MaxTurns /\ h.len \in Nat
    /\ \A c \in 1..MaxConvs : Begin(c) \in Histories
  BY SessionStoreAssumption DEF Ids, Names, Context, NoId, Files, Histories, Begin

-----------------------------------------------------------------------------
\* os.replace makes a file the youngest of all and touches no other.
LEMMA ReplaceParts ==
    ASSUME DiskType, NEW n \in Names, NEW f \in Files, NEW c \in Histories, Replace(n, f, c)
    PROVE  /\ DiskType'
           /\ disk'[n][f] = c /\ Existing' = Existing \cup {<<n, f>>}
           /\ \A m \in Names, g \in Files : m # n \/ g # f => disk'[m][g] = disk[m][g]
           /\ \A a, b : <<a, b>> \in older' <=>
                 \/ <<a, b>> \in older /\ a # <<n, f>> /\ b # <<n, f>>
                 \/ a \in Existing /\ a # <<n, f>> /\ b = <<n, f>>
  <1>1. /\ disk' = [disk EXCEPT ![n][f] = c]
        /\ older' = {pair \in older : pair[1] # <<n, f>> /\ pair[2] # <<n, f>>}
                       \cup (Existing \ {<<n, f>>}) \X {<<n, f>>}
    BY DEF Replace
  <1>2. /\ disk' \in [Names -> [Files -> Histories \cup {Nil}]] /\ disk'[n][f] = c
        /\ \A m \in Names, g \in Files : m # n \/ g # f => disk'[m][g] = disk[m][g]
    BY <1>1 DEF DiskType
  <1>3. Existing' = Existing \cup {<<n, f>>}
    <2>1. \A e \in Names \X Files : e = <<n, f>> \/ disk'[e[1]][e[2]] = disk[e[1]][e[2]]
      BY <1>2
    <2>2. disk'[n][f] # Nil
      BY <1>2, NilAssumption
    <2> QED
      BY <2>1, <2>2 DEF Existing, Exists
  <1>4. \A a, b : <<a, b>> \in older' <=>
           \/ <<a, b>> \in older /\ a # <<n, f>> /\ b # <<n, f>>
           \/ a \in Existing /\ a # <<n, f>> /\ b = <<n, f>>
    BY <1>1
  <1>5. older' \subseteq Existing' \X Existing'
    <2>1. \A pair \in older' : pair \in older \/ pair \in Existing \X {<<n, f>>}
      BY <1>1
    <2> QED
      BY <1>3, <2>1 DEF DiskType
  <1> QED
    BY <1>2, <1>3, <1>4, <1>5 DEF DiskType

\* What cleanup removes of a session leaves the age of the others alone.
LEMMA UnlinkParts ==
    ASSUME DiskType, NEW n \in Names, NEW fs \in SUBSET Files, Unlink(n, fs)
    PROVE  /\ DiskType' /\ Existing' = Existing \ ({n} \X fs)
           /\ \A m \in Names, g \in Files :
                 disk'[m][g] = IF m = n /\ g \in fs THEN Nil ELSE disk[m][g]
           /\ \A a, b : <<a, b>> \in older' <=>
                 <<a, b>> \in older /\ a \notin {n} \X fs /\ b \notin {n} \X fs
  <1>1. /\ disk' = [disk EXCEPT ![n] = [f \in Files |-> IF f \in fs THEN Nil ELSE disk[n][f]]]
        /\ older' = {pair \in older : pair[1] \notin {n} \X fs /\ pair[2] \notin {n} \X fs}
    BY DEF Unlink
  <1>2. /\ disk' \in [Names -> [Files -> Histories \cup {Nil}]]
        /\ \A m \in Names, g \in Files :
              disk'[m][g] = IF m = n /\ g \in fs THEN Nil ELSE disk[m][g]
    BY <1>1 DEF DiskType
  <1>3. Existing' = Existing \ ({n} \X fs)
    <2>1. \A e \in Names \X Files :
             disk'[e[1]][e[2]] = IF e \in {n} \X fs THEN Nil ELSE disk[e[1]][e[2]]
      BY <1>2
    <2> QED
      BY <2>1 DEF Existing, Exists
  <1>4. \A a, b : <<a, b>> \in older' <=>
           <<a, b>> \in older /\ a \notin {n} \X fs /\ b \notin {n} \X fs
    BY <1>1
  <1>5. older' \subseteq Existing' \X Existing'
    BY <1>1, <1>3 DEF DiskType
  <1> QED
    BY <1>2, <1>3, <1>4, <1>5 DEF DiskType

LEMMA DiskKept == DiskType /\ UNCHANGED <<disk, older>> => DiskType'
  BY DEF DiskType, Existing, Exists

\* Cleanup removes one file, or fails to.
LEMMA UnlinkOne ==
    ASSUME DiskType, NEW p \in Procs, CleanupUnlink(p)
    PROVE  \E n \in Ids, f \in Files : \E fs \in SUBSET {f} :
             /\ Unlink(n, fs) /\ (failed' \/ fs = {f})
             /\ <<n, f>> \in stale[p] /\ (f = "pkl" => <<n, "json">> \notin stale[p])
             /\ stale' = [stale EXCEPT ![p] = @ \ {<<n, f>>}]
  <1>1. PICK n \in Ids, f \in Files :
          /\ <<n, f>> \in stale[p] /\ (f = "pkl" => <<n, "json">> \notin stale[p])
          /\ stale' = [stale EXCEPT ![p] = @ \ {<<n, f>>}]
          /\ Unlink(n, {f}) \/ (failed' = TRUE /\ UNCHANGED <<disk, older>>)
    BY DEF CleanupUnlink
  <1>2. CASE Unlink(n, {f})
    BY <1>1, <1>2
  <1>3. CASE failed' = TRUE /\ UNCHANGED <<disk, older>>
    <2>1. disk' = [disk EXCEPT ![n] = [g \in Files |-> IF g \in {} THEN Nil ELSE disk[n][g]]]
      BY <1>3, Constant DEF DiskType
    <2>2. Unlink(n, {})
      BY <1>3, <2>1 DEF Unlink
    <2> QED
      BY <1>1, <1>3, <2>2
  <1> QED
    BY <1>1, <1>2, <1>3

\* A session on disk can be loaded.
LEMMA LoadParts ==
    ASSUME DiskType, NEW n \in Names
    PROVE  /\ Load(n) # Nil => Load(n) \in Histories
           /\ n \in SessionsOnDisk <=> n \in Ids /\ Load(n) # Nil
           /\ Load(n) # Nil <=> Exists(n, "json") \/ Exists(n, "pkl")
  BY Constant DEF DiskType, Load, Exists, SessionsOnDisk

-----------------------------------------------------------------------------
\* Drawing an id from the clock.
LEMMA DrawParts ==
    ASSUME ProcType, OtherType, NEW p \in Procs, DrawId(p)
    PROVE  /\ id' \in [Procs -> Ids \cup {NoId}] /\ id'[p] = clock /\ clock \in Ids
           /\ \A q \in Procs \ {p} : id'[q] = id[q]
           /\ reissued' \subseteq Ids /\ reissued \subseteq reissued'
           /\ clock \notin reissued' =>
                 clock \notin SessionsOnDisk /\ \A q \in Procs \ {p} : id[q] # clock
  BY DEF DrawId, ProcType, OtherType, Ids

LEMMA Modulo == \A k \in 0..(Throttle - 1) : (k + 1) % Throttle # 0 => k + 1 \in 0..(Throttle - 1)
  <1> SUFFICES ASSUME NEW k \in 0..(Throttle - 1), k + 1 = Throttle PROVE (k + 1) % Throttle = 0
    BY Constant
  <1> QED
    BY Constant

\* Every variable keeps its type; one step per action.
LEMMA TypeStep == TypeOK /\ [Next]_vars => TypeOK'
  <1> SUFFICES ASSUME DiskType, ProcType, OtherType, [Next]_vars
               PROVE  DiskType' /\ ProcType' /\ OtherType'
    BY TypeParts, TypeParts, PTL
  <1> USE Constant DEF PCs, Goto, Leave
  <1>1. ASSUME NEW p \in Procs, Turn(p) PROVE DiskType' /\ ProcType' /\ OtherType'
    <2>1. hist' \in [Procs -> Histories]
      BY <1>1 DEF Turn, ProcType, Histories
    <2> QED
      BY <1>1, <2>1, DiskKept DEF Turn, ProcType, OtherType
  <1>22. ASSUME NEW p \in Procs, QuietTurn(p) PROVE DiskType' /\ ProcType' /\ OtherType'
    <2>1. hist' \in [Procs -> Histories]
      BY <1>22 DEF QuietTurn, ProcType, Histories
    <2> QED
      BY <1>22, <2>1, DiskKept DEF QuietTurn, ProcType, OtherType
  <1>2. ASSUME NEW p \in Procs, Clear(p) PROVE DiskType' /\ ProcType' /\ OtherType'
    BY <1>2, DiskKept DEF Clear, ProcType, OtherType
  <1>3. ASSUME NEW p \in Procs, Dump(p) PROVE DiskType' /\ ProcType' /\ OtherType'
    BY <1>3, DiskKept DEF Dump, ProcType, OtherType
  <1>4. ASSUME NEW p \in Procs, LoadAutosave(p) PROVE DiskType' /\ ProcType' /\ OtherType'
    <2>1. ASSUME NEW n \in SessionsOnDisk PROVE n \in Ids /\ Load(n) \in Histories
      <3>1. n \in Names
        BY DEF SessionsOnDisk
      <3> QED
        BY <3>1, LoadParts
    <2> QED
      BY <1>4, <2>1, DiskKept DEF LoadAutosave, ProcType, OtherType
  <1>5. ASSUME NEW p \in Procs, LoadContext(p) PROVE DiskType' /\ ProcType' /\ OtherType'
    <2>1. Load(Context) \in Histories
      BY <1>5, LoadParts DEF LoadContext
    <2> QED
      BY <1>5, <2>1, DiskKept, DrawParts DEF LoadContext, ProcType, OtherType
  <1>6. ASSUME NEW p \in Procs, NewSessionId(p) PROVE DiskType' /\ ProcType' /\ OtherType'
    BY <1>6, DiskKept, DrawParts DEF NewSessionId, ProcType, OtherType
  <1>7. ASSUME NEW p \in Procs, Throttled(p) PROVE DiskType' /\ ProcType' /\ OtherType'
    <2>1. counter' \in [Procs -> 0..(Throttle - 1)]
      <3>1. counter[p] \in 0..(Throttle - 1) /\ counter[p] + 1 \in 0..(Throttle - 1)
        BY <1>7, Modulo DEF Throttled, ProcType
      <3> QED
        BY <1>7, <3>1 DEF Throttled, ProcType
    <2> QED
      BY <1>7, <2>1, DiskKept DEF Throttled, ProcType, OtherType
  <1>8. ASSUME NEW p \in Procs, AutosaveDue(p) PROVE DiskType' /\ ProcType' /\ OtherType'
    <2>1. 0 \in 0..(Throttle - 1)
      OBVIOUS
    <2>2. CASE hist[p].len = 0 /\ Goto(p, "done") /\ UNCHANGED <<id, reissued, target>>
      BY <1>8, <2>1, <2>2, DiskKept DEF AutosaveDue, ProcType, OtherType
    <2>3. CASE hist[p].len > 0
      <3>1. /\ id' \in [Procs -> Ids \cup {NoId}] /\ id'[p] \in Ids /\ reissued' \subseteq Ids
        <4>1. CASE id[p] = NoId
          <5>1. DrawId(p)
            BY <1>8, <2>3, <4>1 DEF AutosaveDue
          <5> QED
            BY <5>1, DrawParts
        <4>2. CASE id[p] # NoId
          BY <1>8, <2>3, <4>2 DEF AutosaveDue, ProcType, OtherType
        <4> QED
          BY <4>1, <4>2
      <3>2. target' = [target EXCEPT ![p] = id'[p]] /\ pc' = [pc EXCEPT ![p] = "save"]
        BY <1>8, <2>3 DEF AutosaveDue
      <3> QED
        BY <1>8, <2>1, <3>1, <3>2, DiskKept DEF AutosaveDue, ProcType, OtherType
    <2> QED
      BY <1>8, <2>2, <2>3 DEF AutosaveDue
  <1>9. ASSUME NEW p \in Procs, SaveUnchanged(p) PROVE DiskType' /\ ProcType' /\ OtherType'
    BY <1>9, DiskKept DEF SaveUnchanged, ProcType, OtherType
  <1>10. ASSUME NEW p \in Procs, SaveChanged(p) PROVE DiskType' /\ ProcType' /\ OtherType'
    BY <1>10, DiskKept DEF SaveChanged, ProcType, OtherType
  <1>11. ASSUME NEW p \in Procs, WriteJson(p) \/ WritePkl(p) PROVE DiskType' /\ ProcType' /\ OtherType'
    <2>1. PICK f \in Files : Replace(target[p], f, hist[p])
      BY <1>11 DEF WriteJson, WritePkl, WriteFileThen
    <2>2. DiskType'
      BY <2>1, ReplaceParts DEF ProcType
    <2> QED
      BY <1>11, <2>2 DEF WriteJson, WritePkl, WriteFileThen, ProcType, OtherType
  <1>12. ASSUME NEW p \in Procs, WriteMeta(p) PROVE DiskType' /\ ProcType' /\ OtherType'
    BY <1>12, DiskKept DEF WriteMeta, ProcType, OtherType
  <1>13. ASSUME NEW p \in Procs, WriteFails(p) PROVE DiskType' /\ ProcType' /\ OtherType'
    BY <1>13, DiskKept DEF WriteFails, ProcType, OtherType
  <1>14. ASSUME NEW p \in Procs, CleanupScan(p) PROVE DiskType' /\ ProcType' /\ OtherType'
    <2>1. StaleBeyond(MaxSessions) \X Files \in SUBSET (Ids \X Files)
      BY DEF StaleBeyond, SessionsOnDisk
    <2> QED
      BY <1>14, <2>1, DiskKept DEF CleanupScan, ProcType, OtherType
  <1>15. ASSUME NEW p \in Procs, CleanupUnlink(p) PROVE DiskType' /\ ProcType' /\ OtherType'
    <2>1. PICK n \in Ids, f \in Files : \E fs \in SUBSET {f} :
             Unlink(n, fs) /\ stale' = [stale EXCEPT ![p] = @ \ {<<n, f>>}]
      BY <1>15, UnlinkOne
    <2>2. n \in Names
      OBVIOUS
    <2>3. DiskType'
      BY <2>1, <2>2, UnlinkParts
    <2>4. failed' \in BOOLEAN
      BY <1>15, Zenon DEF CleanupUnlink, OtherType
    <2>5. stale' \in [Procs -> SUBSET (Ids \X Files)]
      BY <2>1 DEF ProcType
    <2>6. UNCHANGED <<clock, convs, hist, id, counter, hashes, pc, target, after, skipped, reissued>>
      BY <1>15 DEF CleanupUnlink
    <2>7. ProcType'
      BY <2>5, <2>6 DEF ProcType
    <2>8. OtherType'
      BY <2>4, <2>6, Zenon DEF OtherType
    <2> QED
      BY <2>3, <2>7, <2>8
  <1>16. ASSUME NEW p \in Procs, CleanupDone(p) PROVE DiskType' /\ ProcType' /\ OtherType'
    BY <1>16, DiskKept DEF CleanupDone, ProcType, OtherType
  <1>17. ASSUME NEW p \in Procs, Return(p) PROVE DiskType' /\ ProcType' /\ OtherType'
    BY <1>17, DiskKept DEF Return, ProcType, OtherType
  <1>18. ASSUME NEW p \in Procs, RotateAndClear(p) PROVE DiskType' /\ ProcType' /\ OtherType'
    <2>1. convs + 1 \in 1..MaxConvs
      BY <1>18 DEF RotateAndClear, OtherType
    <2> QED
      BY <1>18, <2>1, DiskKept, DrawParts DEF RotateAndClear, ProcType, OtherType
  <1>19. ASSUME NEW p \in Procs, Crash(p) PROVE DiskType' /\ ProcType' /\ OtherType'
    <2>1. convs + 1 \in 1..MaxConvs /\ 0 \in 0..(Throttle - 1)
      BY <1>19 DEF Crash, OtherType
    <2> QED
      BY <1>19, <2>1, DiskKept DEF Crash, ProcType, OtherType
  <1>20. CASE Tick
    BY <1>20, DiskKept DEF Tick, procVars, ProcType, OtherType
  <1>21. CASE UNCHANGED vars
    BY <1>21, DiskKept DEF vars, procVars, ProcType, OtherType
  <1> QED
    BY <1>1, <1>2, <1>3, <1>4, <1>5, <1>6, <1>7, <1>8, <1>9, <1>10, <1>11, <1>12, <1>13, <1>14,
       <1>15, <1>16, <1>17, <1>18, <1>19, <1>20, <1>21, <1>22
    DEF Next, Command, Autosave, Save, Cleanup

LEMMA InitType == Init => TypeOK
  <1> SUFFICES ASSUME Init PROVE TypeOK
    OBVIOUS
  <1>1. PICK number \in [Procs -> 1..MaxConvs] :
           /\ \A p, q \in Procs : number[p] = number[q] => p = q
           /\ hist = [p \in Procs |-> Begin(number[p])]
    BY DEF Init
  <1>2. convs \in 0..MaxConvs
    <2>1. IsFiniteSet(1..MaxConvs) /\ Cardinality(1..MaxConvs) = MaxConvs
      BY Constant, FS_Interval
    <2>2. number \in Injection(Procs, 1..MaxConvs)
      BY <1>1 DEF Injection, IsInjective
    <2>3. IsFiniteSet(Procs) /\ Cardinality(Procs) <= Cardinality(1..MaxConvs)
      BY <2>1, <2>2, FS_Injection
    <2>4. Cardinality(Procs) \in Nat
      BY <2>3, FS_CardinalityType
    <2> QED
      BY <2>1, <2>3, <2>4, Constant DEF Init
  <1>3. DiskType
    BY Constant DEF Init, DiskType
  <1>4. ProcType
    BY <1>1, Constant DEF Init, ProcType, PCs
  <1>5. OtherType
    <2>1. clock \in 1..MaxClock /\ reissued \subseteq Ids
      BY Constant DEF Init
    <2>2. failed \in BOOLEAN
      BY Zenon DEF Init
    <2> QED
      BY <1>2, <2>1, <2>2 DEF OtherType
  <1> QED
    BY <1>3, <1>4, <1>5, TypeParts

(* Every variable keeps its type, for any number of processes.             *)
THEOREM TypeCorrect == Spec => []TypeOK
  BY InitType, TypeStep, PTL DEF Spec

-----------------------------------------------------------------------------
ByAutosave(p) == after[p] # "dump"

\* What save_session works on.
Targets == \A p \in Procs :
    /\ pc[p] = "autosave" => ByAutosave(p)
    /\ pc[p] \in {"save", "json", "pkl", "meta", "saved", "unlink"} =>
        IF ByAutosave(p) THEN id[p] \in Ids /\ target[p] = id[p] ELSE target[p] = Context

\* The conversations in the files of a session and in the processes that
\* have its id are one, unless the id was drawn twice.
FileConvs(n) == {disk[n][f].conv : f \in {g \in Files : Exists(n, g)}}
Convs(n) == FileConvs(n) \cup {hist[p].conv : p \in {q \in Procs : id[q] = n}}
OneConv == \A n \in Ids \ reissued : \A c, d \in Convs(n) : c = d

LEMMA TargetStep == TypeOK /\ Targets /\ [Next]_vars => Targets'
  <1> SUFFICES ASSUME ProcType, OtherType, Targets, [Next]_vars PROVE Targets'
    BY TypeParts
  <1> USE Constant DEF Goto, Leave, ByAutosave, Targets, ProcType
  <1>1. ASSUME NEW p \in Procs, Command(p) PROVE Targets'
    <2>1. CASE Turn(p) \/ QuietTurn(p) \/ Clear(p) \/ Dump(p)
      BY <2>1 DEF Turn, QuietTurn, Clear, Dump
    <2>2. CASE LoadAutosave(p)
      BY <2>2 DEF LoadAutosave
    <2>3. CASE LoadContext(p) \/ NewSessionId(p)
      BY <2>3, DrawParts DEF LoadContext, NewSessionId
    <2> QED
      BY <1>1, <2>1, <2>2, <2>3 DEF Command
  <1>2. ASSUME NEW p \in Procs, Throttled(p) PROVE Targets'
    BY <1>2 DEF Throttled
  <1>3. ASSUME NEW p \in Procs, AutosaveDue(p) PROVE Targets'
    <2>1. CASE hist[p].len = 0 /\ Goto(p, "done") /\ UNCHANGED <<id, target>>
      BY <1>3, <2>1 DEF AutosaveDue
    <2>2. CASE hist[p].len > 0
      <3>1. id'[p] \in Ids /\ \A q \in Procs \ {p} : id'[q] = id[q]
        <4>1. CASE id[p] = NoId
          BY <1>3, <2>2, <4>1, DrawParts DEF AutosaveDue
        <4>2. CASE id[p] # NoId
          BY <1>3, <2>2, <4>2 DEF AutosaveDue
        <4> QED
          BY <4>1, <4>2
      <3>2. /\ target' = [target EXCEPT ![p] = id'[p]] /\ pc' = [pc EXCEPT ![p] = "save"]
            /\ after' = after
        BY <1>3, <2>2 DEF AutosaveDue
      <3>3. target'[p] = id'[p] /\ \A q \in Procs \ {p} : target'[q] = target[q] /\ pc'[q] = pc[q]
        BY <3>2
      <3>4. after[p] # "dump" /\ after'[p] # "dump" /\ \A q \in Procs : q # p => id'[q] = id[q]
        BY <1>3, <3>1, <3>2 DEF AutosaveDue
      <3> QED
        BY <3>1, <3>2, <3>3, <3>4
    <2> QED
      BY <1>3, <2>1, <2>2 DEF AutosaveDue
  <1>4. ASSUME NEW p \in Procs, Save(p) PROVE Targets'
    BY <1>4 DEF Save, SaveUnchanged, SaveChanged, WriteJson, WritePkl, WriteFileThen, WriteMeta,
       WriteFails
  <1>5. ASSUME NEW p \in Procs, Cleanup(p) PROVE Targets'
    BY <1>5 DEF Cleanup, CleanupScan, CleanupUnlink, CleanupDone
  <1>6. ASSUME NEW p \in Procs, Return(p) \/ Crash(p) PROVE Targets'
    BY <1>6 DEF Return, Crash
  <1>7. ASSUME NEW p \in Procs, RotateAndClear(p) PROVE Targets'
    BY <1>7, DrawParts DEF RotateAndClear
  <1>8. CASE Tick \/ UNCHANGED vars
    BY <1>8 DEF Tick, vars, procVars
  <1> QED
    BY <1>1, <1>2, <1>3, <1>4, <1>5, <1>6, <1>7, <1>8 DEF Next, Autosave

\* A step that mixes nothing: every conversation a session has now it had.
LEMMA OneConvKept ==
    ASSUME OneConv, reissued \subseteq reissued', \A n \in Ids \ reissued' : Convs(n)' \subseteq Convs(n)
    PROVE  OneConv'
  BY DEF OneConv

LEMMA OneConvDrawn ==
    ASSUME ProcType, OtherType, OneConv, NEW p \in Procs, DrawId(p), UNCHANGED disk,
           \A q \in Procs \ {p} : hist'[q] = hist[q]
    PROVE  OneConv'
  <1>1. /\ id'[p] = clock /\ \A q \in Procs \ {p} : id'[q] = id[q]
        /\ reissued \subseteq reissued'
        /\ clock \notin reissued' =>
              clock \notin SessionsOnDisk /\ \A q \in Procs \ {p} : id[q] # clock
        /\ clock \in Ids
    BY DrawParts
  <1>2. \A n \in Ids : FileConvs(n)' = FileConvs(n)
    BY DEF FileConvs, Exists
  <1> SUFFICES ASSUME NEW n \in Ids \ reissued', NEW c \in Convs(n)', NEW d \in Convs(n)'
               PROVE  c = d
    BY DEF OneConv
  <1>3. CASE n = clock
    <2>1. FileConvs(n) = {}
      BY <1>1, <1>3, Constant DEF FileConvs, SessionsOnDisk
    <2>2. Convs(n)' = {hist'[p].conv}
      BY <1>1, <1>2, <1>3, <2>1 DEF Convs
    <2> QED
      BY <2>2
  <1>4. CASE n # clock
    <2>1. Convs(n)' \subseteq Convs(n)
      BY <1>1, <1>2, <1>4 DEF Convs
    <2> QED
      BY <1>1, <2>1 DEF OneConv
  <1> QED
    BY <1>3, <1>4

\* In a step of p that leaves the files alone, the ids and conversations of
\* the others stay.
LEMMA OneConvElsewhere ==
    ASSUME ProcType, OneConv, NEW p \in Procs, UNCHANGED <<disk, reissued>>,
           \A q \in Procs \ {p} : hist'[q] = hist[q] /\ id'[q] = id[q],
           id'[p] \in Ids => hist'[p].conv \in Convs(id'[p])
    PROVE  OneConv'
  <1>1. \A n \in Ids : FileConvs(n)' = FileConvs(n)
    BY DEF FileConvs, Exists
  <1>2. ASSUME NEW n \in Ids, NEW q \in Procs, id'[q] = n PROVE hist'[q].conv \in Convs(n)
    BY <1>2 DEF Convs
  <1>3. \A n \in Ids : Convs(n)' \subseteq Convs(n)
    BY <1>1, <1>2 DEF Convs
  <1> QED
    BY <1>3, OneConvKept

\* Files and conversations of a session stay one; one step per action.  No
\* step brings a conversation into a file that the session did not have.
LEMMA OneConvStep ==
    ASSUME TypeOK, Targets, OneConv, [Next]_vars
    PROVE  OneConv' /\ \A n \in Ids : FileConvs(n)' \subseteq Convs(n)
  <1>0. DiskType /\ ProcType /\ OtherType
    BY TypeParts
  <1>a. UNCHANGED disk => \A n \in Ids : FileConvs(n)' \subseteq Convs(n)
    BY DEF FileConvs, Exists, Convs
  <1>b. ASSUME NEW p \in Procs, UNCHANGED <<disk, reissued, id>>, hist'[p].conv = hist[p].conv,
               \A q \in Procs \ {p} : hist'[q] = hist[q]
        PROVE  OneConv'
    <2>1. id'[p] \in Ids => hist'[p].conv \in Convs(id'[p])
      BY <1>b DEF Convs
    <2> QED
      BY <1>0, <1>b, <2>1, OneConvElsewhere
  <1>1. ASSUME NEW p \in Procs, Turn(p) \/ QuietTurn(p) PROVE OneConv' /\ UNCHANGED disk
    <2>1. hist'[p].conv = hist[p].conv /\ \A q \in Procs \ {p} : hist'[q] = hist[q]
      BY <1>0, <1>1 DEF Turn, QuietTurn, ProcType, Histories
    <2> QED
      BY <1>1, <1>b, <2>1 DEF Turn, QuietTurn
  <1>2. ASSUME NEW p \in Procs, Clear(p) \/ Dump(p) \/ Throttled(p) \/ Return(p)
        PROVE  OneConv' /\ UNCHANGED disk
    BY <1>2, <1>b DEF Clear, Dump, Throttled, Return
  <1>3. ASSUME NEW p \in Procs, SaveUnchanged(p) \/ SaveChanged(p) \/ WriteMeta(p) \/ WriteFails(p)
        PROVE  OneConv' /\ UNCHANGED disk
    BY <1>3, <1>b DEF SaveUnchanged, SaveChanged, WriteMeta, WriteFails
  <1>4. ASSUME NEW p \in Procs, CleanupScan(p) \/ CleanupDone(p) PROVE OneConv' /\ UNCHANGED disk
    BY <1>4, <1>b DEF CleanupScan, CleanupDone
  <1>5. ASSUME NEW p \in Procs, LoadAutosave(p) PROVE OneConv' /\ UNCHANGED disk
    <2>1. PICK n \in SessionsOnDisk :
             hist' = [hist EXCEPT ![p] = Load(n)] /\ id' = [id EXCEPT ![p] = n]
      BY <1>5 DEF LoadAutosave
    <2>2. hist'[p].conv \in Convs(id'[p])
      <3>1. hist'[p] = Load(n) /\ id'[p] = n
        BY <1>0, <2>1 DEF ProcType
      <3>2. Load(n).conv \in FileConvs(n)
        BY Constant DEF FileConvs, Load, SessionsOnDisk
      <3> QED
        BY <3>1, <3>2 DEF Convs
    <2> QED
      BY <1>0, <1>5, <2>1, <2>2, OneConvElsewhere DEF LoadAutosave, ProcType
  <1>6. ASSUME NEW p \in Procs, LoadContext(p) \/ NewSessionId(p) \/ RotateAndClear(p)
        PROVE  OneConv' /\ UNCHANGED disk
    <2>1. DrawId(p) /\ UNCHANGED disk /\ \A q \in Procs \ {p} : hist'[q] = hist[q]
      BY <1>0, <1>6 DEF LoadContext, NewSessionId, RotateAndClear, ProcType
    <2> QED
      BY <1>0, <2>1, OneConvDrawn
  <1>7. ASSUME NEW p \in Procs, AutosaveDue(p) PROVE OneConv' /\ UNCHANGED disk
    <2>1. DrawId(p) \/ UNCHANGED <<id, reissued>>
      BY <1>7 DEF AutosaveDue
    <2> QED
      BY <1>0, <1>7, <1>b, <2>1, OneConvDrawn DEF AutosaveDue
  <1>8. ASSUME NEW p \in Procs, Crash(p) PROVE OneConv' /\ UNCHANGED disk
    <2>1. /\ id'[p] \notin Ids
          /\ \A q \in Procs \ {p} : hist'[q] = hist[q] /\ id'[q] = id[q]
      BY <1>0, <1>8, Constant DEF Crash, ProcType
    <2> QED
      BY <1>0, <1>8, <2>1, OneConvElsewhere DEF Crash
  <1>9. ASSUME NEW p \in Procs, WriteJson(p) \/ WritePkl(p)
        PROVE  OneConv' /\ \A n \in Ids : FileConvs(n)' \subseteq Convs(n)
    <2>1. PICK f \in Files : Replace(target[p], f, hist[p])
      BY <1>9, Constant DEF WriteJson, WritePkl, WriteFileThen
    <2>2. UNCHANGED <<hist, id, reissued>> /\ pc[p] \in {"json", "pkl"}
      BY <1>9 DEF WriteJson, WritePkl, WriteFileThen
    <2>3. /\ disk'[target[p]][f] = hist[p] /\ target[p] \in Names
          /\ \A m \in Names, g \in Files : m # target[p] \/ g # f => disk'[m][g] = disk[m][g]
      BY <1>0, <2>1, ReplaceParts DEF ProcType
    <2>4. target[p] \in Ids => target[p] = id[p]
      BY <2>2, Constant DEF Targets
    <2>5. ASSUME NEW n \in Ids, NEW g \in Files, Exists(n, g)' PROVE disk'[n][g].conv \in Convs(n)
      <3>1. CASE n = target[p] /\ g = f
        BY <2>3, <2>4, <3>1 DEF Convs
      <3>2. CASE ~(n = target[p] /\ g = f)
        <4>1. disk'[n][g] = disk[n][g] /\ Exists(n, g)
          BY <2>3, <2>5, <3>2, Constant DEF Exists
        <4> QED
          BY <4>1 DEF Convs, FileConvs
      <3> QED
        BY <3>1, <3>2
    <2>6. \A n \in Ids : FileConvs(n)' \subseteq Convs(n)
      BY <2>5 DEF FileConvs
    <2>7. \A n \in Ids : Convs(n)' \subseteq Convs(n)
      BY <2>2, <2>6 DEF Convs
    <2> QED
      BY <2>2, <2>6, <2>7, OneConvKept
  <1>10. ASSUME NEW p \in Procs, CleanupUnlink(p)
         PROVE  OneConv' /\ \A n \in Ids : FileConvs(n)' \subseteq Convs(n)
    <2>1. PICK m \in Ids, fs \in SUBSET Files : Unlink(m, fs)
      BY <1>0, <1>10, UnlinkOne
    <2>2. \A n \in Names, g \in Files :
             disk'[n][g] = IF n = m /\ g \in fs THEN Nil ELSE disk[n][g]
      <3>1. m \in Names
        BY <1>0, Constant DEF ProcType
      <3> QED
        BY <1>0, <2>1, <3>1, UnlinkParts
    <2>3. \A n \in Ids : FileConvs(n)' \subseteq FileConvs(n)
      <3>1. ASSUME NEW n \in Ids, NEW g \in Files, Exists(n, g)'
            PROVE  Exists(n, g) /\ disk'[n][g] = disk[n][g]
        BY <2>2, <3>1, Constant DEF Exists
      <3> QED
        BY <3>1 DEF FileConvs
    <2>4. UNCHANGED <<hist, id, reissued>>
      BY <1>10 DEF CleanupUnlink
    <2> QED
      BY <2>3, <2>4, OneConvKept DEF Convs
  <1>11. CASE Tick \/ UNCHANGED vars
    <2>1. UNCHANGED <<disk, hist, id, reissued>>
      BY <1>11 DEF Tick, vars, procVars
    <2>2. \A n \in Ids : FileConvs(n)' = FileConvs(n) /\ Convs(n)' = Convs(n)
      BY <2>1 DEF FileConvs, Convs, Exists
    <2> QED
      BY <2>1, <2>2, OneConvKept DEF Convs
  <1> QED
    BY <1>a, <1>1, <1>2, <1>3, <1>4, <1>5, <1>6, <1>7, <1>8, <1>9, <1>10, <1>11
    DEF Next, Command, Autosave, Save, Cleanup

LEMMA InitConv == Init => Targets /\ OneConv
  <1> SUFFICES ASSUME Init PROVE Targets /\ OneConv
    OBVIOUS
  <1>1. \A n \in Ids : FileConvs(n) = {} /\ \A p \in Procs : id[p] # n
    BY Constant DEF Init, FileConvs, Exists
  <1> QED
    BY <1>1 DEF Init, Targets, OneConv, Convs

(* A saved conversation is never overwritten by another one, unless the    *)
(* clock handed out the id of an existing session a second time: for any   *)
(* number of processes that save, load, clean up and crash at any moment.  *)
THEOREM NothingClobbered == Spec => NoClobber
  <1> DEFINE Kept == \A n \in Ids : Load(n) # Nil /\ Load(n)' # Nil /\ Load(n)'.conv # Load(n).conv
                                       => n \in reissued
             Inv == TypeOK /\ Targets /\ OneConv
  <1>1. Init => Inv
    BY InitType, InitConv
  <1>2. Inv /\ [Next]_vars => Inv'
    BY TypeStep, TargetStep, OneConvStep
  <1>3. ASSUME Inv, [Next]_vars PROVE Kept
    <2> SUFFICES ASSUME NEW n \in Ids \ reissued, Load(n) # Nil, Load(n)' # Nil
                 PROVE  Load(n)'.conv = Load(n).conv
      BY DEF Load
    <2>1. Load(n).conv \in FileConvs(n) /\ Load(n)'.conv \in FileConvs(n)'
      BY Constant DEF Load, FileConvs, Exists
    <2>2. Load(n).conv \in Convs(n) /\ Load(n)'.conv \in Convs(n)
      BY <1>3, <2>1, OneConvStep DEF Convs
    <2> QED
      BY <1>3, <2>2 DEF OneConv
  <1>4. Inv /\ [Next]_vars => [Kept]_vars
    BY <1>3
  <1>5. NoClobber <=> [][Kept]_vars
    BY PTL DEF NoClobber
  <1> QED
    BY <1>1, <1>2, <1>4, <1>5, PTL DEF Spec

-----------------------------------------------------------------------------
\* From here on one process works on the directory, as the runs that check
\* these properties have it: with two, each may write between the files of
\* the other.
Alone == \A p, q \in Procs : p = q

\* The compat file is written when the canonical one holds the same.
JsonFirst == \A p \in Procs : pc[p] = "pkl" => disk[target[p]]["json"] = hist[p]

LEMMA CanonicalStep ==
    ASSUME Alone, TypeOK, JsonFirst, CanonicalIsNewest, [Next]_vars
    PROVE  JsonFirst' /\ CanonicalIsNewest'
  <1>0. DiskType /\ ProcType /\ OtherType
    BY TypeParts
  <1>a. UNCHANGED <<disk, older>> => CanonicalIsNewest'
    BY DEF CanonicalIsNewest, Exists
  <1> USE <1>0 DEF Goto, Leave, JsonFirst, ProcType
  <1>1. ASSUME NEW p \in Procs, Command(p) \/ Autosave(p) \/ Return(p) \/ RotateAndClear(p) \/ Crash(p)
        PROVE  UNCHANGED <<disk, older>> /\ JsonFirst'
    <2>1. UNCHANGED <<disk, older>>
      BY <1>1 DEF Command, Turn, QuietTurn, Clear, Dump, LoadAutosave, LoadContext, NewSessionId, Autosave,
         Throttled, AutosaveDue, Return, RotateAndClear, Crash
    <2>2. pc'[p] # "pkl"
      BY <1>1 DEF Command, Turn, QuietTurn, Clear, Dump, LoadAutosave, LoadContext, NewSessionId, Autosave,
         Throttled, AutosaveDue, Return, RotateAndClear, Crash
    <2> QED
      BY <2>1, <2>2 DEF Alone
  <1>2. ASSUME NEW p \in Procs,
               SaveUnchanged(p) \/ SaveChanged(p) \/ WriteMeta(p) \/ WriteFails(p) \/ CleanupScan(p) \/ CleanupDone(p)
        PROVE  UNCHANGED <<disk, older>> /\ JsonFirst'
    <2>1. UNCHANGED <<disk, older>> /\ pc'[p] # "pkl"
      BY <1>2 DEF SaveUnchanged, SaveChanged, WriteMeta, WriteFails, CleanupScan, CleanupDone
    <2> QED
      BY <2>1 DEF Alone
  <1>3. ASSUME NEW p \in Procs, WriteJson(p) PROVE JsonFirst' /\ CanonicalIsNewest'
    <2>1. /\ target[p] \in Names /\ hist[p] \in Histories /\ Replace(target[p], "json", hist[p])
          /\ pc' = [pc EXCEPT ![p] = "pkl"] /\ UNCHANGED <<hist, target>>
      BY <1>3 DEF WriteJson, WriteFileThen
    <2> DEFINE n == target[p]
    <2>2. /\ disk'[n]["json"] = hist[p]
          /\ \A m \in Names, g \in Files : m # n \/ g # "json" => disk'[m][g] = disk[m][g]
          /\ \A a, b : <<a, b>> \in older' <=>
                 \/ <<a, b>> \in older /\ a # <<n, "json">> /\ b # <<n, "json">>
                 \/ a \in Existing /\ a # <<n, "json">> /\ b = <<n, "json">>
      <3>1. "json" \in Files /\ n \in Names
        BY <2>1, Constant
      <3> HIDE DEF n
      <3>2. Replace(n, "json", hist[p])
        BY <2>1 DEF n
      <3> QED
        BY <1>0, <2>1, <3>1, <3>2, ReplaceParts
    <2>3. JsonFirst'
      BY <2>1, <2>2 DEF Alone
    <2>4. ASSUME NEW m \in Names, Exists(m, "json")', Exists(m, "pkl")', disk'[m]["json"] # disk'[m]["pkl"]
          PROVE  <<<<m, "pkl">>, <<m, "json">>>> \in older'
      <3>1. disk'[m]["pkl"] = disk[m]["pkl"] /\ <<m, "pkl">> \in Existing
        BY <2>2, <2>4, Constant DEF Exists, Existing
      <3>2. CASE m = n
        BY <2>2, <3>1, <3>2
      <3>3. CASE m # n
        <4>1. disk'[m]["json"] = disk[m]["json"]
          BY <2>2, <3>3, Constant
        <4>2. <<<<m, "pkl">>, <<m, "json">>>> \in older
          BY <2>4, <3>1, <4>1 DEF CanonicalIsNewest, Exists
        <4> QED
          BY <2>2, <3>3, <4>2
      <3> QED
        BY <3>2, <3>3
    <2> QED
      BY <2>3, <2>4 DEF CanonicalIsNewest
  <1>4. ASSUME NEW p \in Procs, WritePkl(p) PROVE JsonFirst' /\ CanonicalIsNewest'
    <2>1. /\ target[p] \in Names /\ hist[p] \in Histories /\ Replace(target[p], "pkl", hist[p])
          /\ pc' = [pc EXCEPT ![p] = "meta"] /\ UNCHANGED <<hist, target>>
          /\ disk[target[p]]["json"] = hist[p]
      BY <1>4 DEF WritePkl, WriteFileThen
    <2> DEFINE n == target[p]
    <2>2. /\ disk'[n]["pkl"] = hist[p]
          /\ \A m \in Names, g \in Files : m # n \/ g # "pkl" => disk'[m][g] = disk[m][g]
          /\ \A a, b : <<a, b>> \in older' <=>
                 \/ <<a, b>> \in older /\ a # <<n, "pkl">> /\ b # <<n, "pkl">>
                 \/ a \in Existing /\ a # <<n, "pkl">> /\ b = <<n, "pkl">>
      <3>1. "pkl" \in Files /\ n \in Names
        BY <2>1, Constant
      <3> HIDE DEF n
      <3>2. Replace(n, "pkl", hist[p])
        BY <2>1 DEF n
      <3> QED
        BY <1>0, <2>1, <3>1, <3>2, ReplaceParts
    <2>3. JsonFirst'
      BY <2>1 DEF Alone
    <2>4. ASSUME NEW m \in Names, Exists(m, "json")', Exists(m, "pkl")', disk'[m]["json"] # disk'[m]["pkl"]
          PROVE  <<<<m, "pkl">>, <<m, "json">>>> \in older'
      <3>1. m # n
        BY <2>1, <2>2, <2>4, Constant
      <3>2. disk'[m]["json"] = disk[m]["json"] /\ disk'[m]["pkl"] = disk[m]["pkl"]
        BY <2>2, <3>1, Constant
      <3>3. <<<<m, "pkl">>, <<m, "json">>>> \in older
        BY <2>4, <3>2 DEF CanonicalIsNewest, Exists
      <3> QED
        BY <2>2, <3>1, <3>3
    <2> QED
      BY <2>3, <2>4 DEF CanonicalIsNewest
  <1>5. ASSUME NEW p \in Procs, CleanupUnlink(p) PROVE JsonFirst' /\ CanonicalIsNewest'
    <2>1. PICK n \in Ids, fs \in SUBSET Files : Unlink(n, fs)
      BY <1>5, UnlinkOne
    <2>2. /\ \A m \in Names, g \in Files :
                disk'[m][g] = IF m = n /\ g \in fs THEN Nil ELSE disk[m][g]
          /\ \A a, b : <<a, b>> \in older' <=>
                <<a, b>> \in older /\ a \notin {n} \X fs /\ b \notin {n} \X fs
      <3>1. n \in Names
        BY Constant
      <3> QED
        BY <2>1, <3>1, UnlinkParts
    <2>3. JsonFirst'
      BY <1>5 DEF CleanupUnlink, Alone
    <2>4. ASSUME NEW m \in Names, Exists(m, "json")', Exists(m, "pkl")', disk'[m]["json"] # disk'[m]["pkl"]
          PROVE  <<<<m, "pkl">>, <<m, "json">>>> \in older'
      <3>1. /\ disk'[m]["json"] = disk[m]["json"] /\ <<m, "json">> \notin {n} \X fs
            /\ disk'[m]["pkl"] = disk[m]["pkl"] /\ <<m, "pkl">> \notin {n} \X fs
        BY <2>2, <2>4, Constant DEF Exists
      <3>2. <<<<m, "pkl">>, <<m, "json">>>> \in older
        BY <2>4, <3>1 DEF CanonicalIsNewest, Exists
      <3> QED
        BY <2>2, <3>1, <3>2
    <2> QED
      BY <2>3, <2>4 DEF CanonicalIsNewest
  <1>6. CASE Tick \/ UNCHANGED vars
    BY <1>a, <1>6 DEF Tick, vars, procVars
  <1> QED
    BY <1>a, <1>1, <1>2, <1>3, <1>4, <1>5, <1>6 DEF Next, Save, Cleanup

(* Whatever write fails and wherever the process crashes: when the two     *)
(* files of a session differ the canonical one is the newer.               *)
THEOREM CanonicalFileIsNewest ==
    ASSUME Alone
    PROVE  Spec => []CanonicalIsNewest
  <1>1. Init => TypeOK /\ JsonFirst /\ CanonicalIsNewest
    <2>1. Init => JsonFirst /\ CanonicalIsNewest
      BY Constant DEF Init, JsonFirst, CanonicalIsNewest, Exists
    <2> QED
      BY <2>1, InitType
  <1>2. TypeOK /\ JsonFirst /\ CanonicalIsNewest /\ [Next]_vars
           => TypeOK' /\ JsonFirst' /\ CanonicalIsNewest'
    BY TypeStep, CanonicalStep
  <1> QED
    BY <1>1, <1>2, PTL DEF Spec

-----------------------------------------------------------------------------
\* The existing files are in a strict order of age.
Strict(E, R) ==
    /\ \A a \in E : <<a, a>> \notin R
    /\ \A a, b \in E : a # b => <<a, b>> \in R \/ <<b, a>> \in R
    /\ \A a, b, c \in E : <<a, b>> \in R /\ <<b, c>> \in R => <<a, c>> \in R
Ordered == Strict(Existing, older)

Hashed(p, n) == hashes[p][n] # Nil

\* No session is younger than the clock.
Clocked == /\ \A n \in Ids : Load(n) # Nil => n <= clock
           /\ \A p \in Procs : id[p] <= clock /\ \A n \in Ids : Hashed(p, n) => n <= clock

LEMMA YoungestAdded ==
    ASSUME NEW E, NEW R, NEW E2, NEW R2, NEW x, Strict(E, R), E2 = E \cup {x},
           \A a, b : <<a, b>> \in R2 <=>
               \/ <<a, b>> \in R /\ a # x /\ b # x
               \/ a \in E /\ a # x /\ b = x
    PROVE  Strict(E2, R2)
  <1>1. \A a \in E2 : <<a, a>> \notin R2
    BY Zenon DEF Strict
  <1>2. ASSUME NEW a \in E2, NEW b \in E2, a # b PROVE <<a, b>> \in R2 \/ <<b, a>> \in R2
    <2>1. CASE a = x
      <3>1. b \in E /\ b # x
        BY <1>2, <2>1
      <3> QED
        BY <2>1, <3>1, Zenon
    <2>2. CASE b = x
      <3>1. a \in E /\ a # x
        BY <1>2, <2>2
      <3> QED
        BY <2>2, <3>1, Zenon
    <2>3. CASE a # x /\ b # x
      <3>1. <<a, b>> \in R \/ <<b, a>> \in R
        BY <1>2, <2>3 DEF Strict
      <3> QED
        BY <2>3, <3>1, Zenon
    <2> QED
      BY <2>1, <2>2, <2>3
  <1>3. ASSUME NEW a \in E2, NEW b \in E2, NEW c \in E2, <<a, b>> \in R2, <<b, c>> \in R2
        PROVE  <<a, c>> \in R2
    <2>1. <<a, b>> \in R /\ a # x /\ b # x /\ a \in E /\ b \in E
      <3>1. b # x
        <4> SUFFICES ASSUME b = x PROVE FALSE
          OBVIOUS
        <4> QED
          BY <1>3, Zenon
      <3>2. <<a, b>> \in R /\ a # x
        BY <1>3, <3>1, Zenon
      <3> QED
        BY <1>3, <3>1, <3>2
    <2>2. c = x \/ (c \in E /\ c # x /\ <<b, c>> \in R)
      BY <1>3, Zenon
    <2>3. c # x => <<a, c>> \in R
      BY <2>1, <2>2, <1>3, Zenon DEF Strict
    <2> QED
      BY <2>1, <2>2, <2>3, Zenon
  <1> QED
    BY <1>1, <1>2, <1>3 DEF Strict

LEMMA OrderedStep == TypeOK /\ Ordered /\ [Next]_vars => Ordered'
  <1> SUFFICES ASSUME DiskType, ProcType, Ordered, [Next]_vars PROVE Ordered'
    BY TypeParts
  <1>1. ASSUME UNCHANGED <<disk, older>> PROVE Ordered'
    BY <1>1 DEF Ordered, Strict, Existing, Exists
  <1>2. ASSUME NEW p \in Procs, NEW f \in Files, WriteFileThen(p, f, "pkl") \/ WriteFileThen(p, f, "meta")
        PROVE  Ordered'
    <2>1. target[p] \in Names /\ hist[p] \in Histories /\ Replace(target[p], f, hist[p])
      BY <1>2 DEF WriteFileThen, ProcType
    <2>2. /\ Existing' = Existing \cup {<<target[p], f>>}
          /\ \A a, b : <<a, b>> \in older' <=>
                 \/ <<a, b>> \in older /\ a # <<target[p], f>> /\ b # <<target[p], f>>
                 \/ a \in Existing /\ a # <<target[p], f>> /\ b = <<target[p], f>>
      BY <2>1, ReplaceParts
    <2>3. PICK E, R, E2, R2, x : /\ E = Existing /\ R = older /\ E2 = Existing' /\ R2 = older'
                                /\ x = <<target[p], f>>
      OBVIOUS
    <2>4. Strict(E, R)
      BY <2>3 DEF Ordered
    <2>5. E2 = E \cup {x} /\ \A a, b : <<a, b>> \in R2 <=>
                 \/ <<a, b>> \in R /\ a # x /\ b # x
                 \/ a \in E /\ a # x /\ b = x
      BY <2>2, <2>3, Zenon
    <2>6. Strict(E2, R2)
      BY <2>4, <2>5, YoungestAdded, Zenon
    <2> QED
      BY <2>3, <2>6 DEF Ordered, Strict
  <1>3. ASSUME NEW p \in Procs, CleanupUnlink(p) PROVE Ordered'
    <2>1. PICK n \in Ids, fs \in SUBSET Files : Unlink(n, fs)
      BY <1>3, UnlinkOne
    <2>2. n \in Names
      BY Constant DEF ProcType
    <2> DEFINE gone == {n} \X fs
    <2>3. /\ Existing' = Existing \ gone
          /\ \A a, b : <<a, b>> \in older' <=> <<a, b>> \in older /\ a \notin gone /\ b \notin gone
      BY <2>1, <2>2, UnlinkParts
    <2> HIDE DEF gone
    <2> QED
      BY <2>3 DEF Ordered, Strict
  <1>4. ASSUME NEW p \in Procs, Command(p) \/ Autosave(p) \/ Return(p) \/ RotateAndClear(p) \/ Crash(p)
        PROVE  UNCHANGED <<disk, older>>
    BY <1>4 DEF Command, Turn, QuietTurn, Clear, Dump, LoadAutosave, LoadContext, NewSessionId, Autosave,
       Throttled, AutosaveDue, Return, RotateAndClear, Crash
  <1>5. ASSUME NEW p \in Procs,
               SaveUnchanged(p) \/ SaveChanged(p) \/ WriteMeta(p) \/ WriteFails(p) \/ CleanupScan(p) \/ CleanupDone(p)
        PROVE  UNCHANGED <<disk, older>>
    BY <1>5 DEF SaveUnchanged, SaveChanged, WriteMeta, WriteFails, CleanupScan, CleanupDone
  <1>6. CASE Tick \/ UNCHANGED vars
    BY <1>1, <1>6 DEF Tick, vars, procVars
  <1> QED
    BY <1>1, <1>2, <1>3, <1>4, <1>5, <1>6, Constant
    DEF Next, Save, Cleanup, WriteJson, WritePkl

\* What is loaded after a file was written, or a session removed.
LEMMA LoadReplaced ==
    ASSUME DiskType, NEW n \in Names, NEW f \in Files, NEW c \in Histories, Replace(n, f, c)
    PROVE  /\ \A m \in Names \ {n} : Load(m)' = Load(m) /\ disk'[m]["json"] = disk[m]["json"]
           /\ Load(n)' # Nil
           /\ f = "json" => Load(n)' = c /\ disk'[n]["json"] = c
           /\ f = "pkl" => disk'[n]["json"] = disk[n]["json"] /\ (Load(n) = c => Load(n)' = c)
           /\ SessionsOnDisk' = SessionsOnDisk \cup ({n} \cap Ids)
  <1>1. /\ DiskType' /\ disk'[n][f] = c
        /\ \A m \in Names, g \in Files : m # n \/ g # f => disk'[m][g] = disk[m][g]
    BY ReplaceParts
  <1>2. \A m \in Names \ {n} : Load(m)' = Load(m) /\ disk'[m]["json"] = disk[m]["json"]
    BY <1>1, Constant DEF Load, Exists
  <1>3. Load(n)' # Nil
    BY <1>1, Constant, NilAssumption DEF Load, Exists
  <1>4. f = "json" => Load(n)' = c /\ disk'[n]["json"] = c
    BY <1>1, Constant, NilAssumption DEF Load, Exists
  <1>5. f = "pkl" => disk'[n]["json"] = disk[n]["json"] /\ (Load(n) = c => Load(n)' = c)
    BY <1>1, Constant, NilAssumption DEF Load, Exists
  <1>6. \A m \in Ids : m \in SessionsOnDisk' <=> m \in SessionsOnDisk \/ m = n
    <2> TAKE m \in Ids
    <2>1. m \in SessionsOnDisk <=> Load(m) # Nil
      BY LoadParts, Constant
    <2>2. m \in SessionsOnDisk' <=> Load(m)' # Nil
      BY <1>1, Constant DEF SessionsOnDisk, Load, Exists, DiskType
    <2> QED
      BY <1>2, <1>3, <2>1, <2>2, Constant
  <1>7. SessionsOnDisk \subseteq Ids /\ SessionsOnDisk' \subseteq Ids
    BY DEF SessionsOnDisk
  <1> QED
    BY <1>2, <1>3, <1>4, <1>5, <1>6, <1>7

LEMMA LoadUnlinked ==
    ASSUME DiskType, NEW n \in Ids, NEW fs \in SUBSET Files, Unlink(n, fs)
    PROVE  /\ \A m \in Names \ {n} : Load(m)' = Load(m) /\ disk'[m]["json"] = disk[m]["json"]
           /\ Load(n)' # Nil => Load(n) # Nil
           /\ (\A f \in Files \ fs : ~Exists(n, f)) =>
                 Load(n)' = Nil /\ SessionsOnDisk' = SessionsOnDisk \ {n}
  <1>1. /\ DiskType'
        /\ \A m \in Names, g \in Files :
              disk'[m][g] = IF m = n /\ g \in fs THEN Nil ELSE disk[m][g]
    BY UnlinkParts, Constant
  <1>2. \A m \in Names \ {n} : Load(m)' = Load(m) /\ disk'[m]["json"] = disk[m]["json"]
    BY <1>1, Constant DEF Load, Exists
  <1>3. Load(n)' # Nil => Load(n) # Nil
    BY <1>1, Constant DEF Load, Exists
  <1>4. ASSUME \A f \in Files \ fs : ~Exists(n, f)
        PROVE  Load(n)' = Nil /\ SessionsOnDisk' = SessionsOnDisk \ {n}
    <2>1. \A g \in Files : disk'[n][g] = Nil
      BY <1>1, <1>4, Constant DEF Exists
    <2>2. Load(n)' = Nil /\ n \notin SessionsOnDisk'
      BY <2>1, Constant DEF Load, Exists, SessionsOnDisk
    <2>3. \A m \in Ids \ {n} : m \in SessionsOnDisk' <=> m \in SessionsOnDisk
      BY <1>1, Constant DEF SessionsOnDisk, Exists
    <2>4. SessionsOnDisk \subseteq Ids /\ SessionsOnDisk' \subseteq Ids
      BY DEF SessionsOnDisk
    <2> QED
      BY <2>2, <2>3, <2>4
  <1> QED
    BY <1>2, <1>3, <1>4

LEMMA ClockedStep == TypeOK /\ Targets /\ Clocked /\ [Next]_vars => Clocked'
  <1> SUFFICES ASSUME DiskType, ProcType, OtherType, Targets, Clocked, [Next]_vars PROVE Clocked'
    BY TypeParts
  <1>1. clock \in Nat /\ \A q \in Procs : id[q] \in Nat
    BY Constant DEF ProcType, OtherType, Ids, NoId
  <1>2. ASSUME UNCHANGED <<clock, disk>>, NEW p \in Procs, DrawId(p) \/ UNCHANGED id \/ id'[p] <= clock,
               \A q \in Procs \ {p} : id'[q] = id[q],
               \A q \in Procs, n \in Ids : Hashed(q, n)' => Hashed(q, n) \/ n <= clock
        PROVE  Clocked'
    <2>1. id'[p] <= clock
      BY <1>1, <1>2, DrawParts DEF Clocked
    <2>2. \A n \in Names : Load(n)' = Load(n)
      BY <1>2 DEF Load, Exists
    <2>3. \A n \in Ids : Load(n)' = Load(n)
      BY <2>2, Constant
    <2> QED
      BY <1>2, <2>1, <2>3 DEF Clocked
  <1> USE DEF Hashed
  <1>3. ASSUME NEW p \in Procs, Turn(p) \/ QuietTurn(p) \/ Clear(p) \/ Dump(p) PROVE Clocked'
    BY <1>2, <1>3 DEF Turn, QuietTurn, Clear, Dump
  <1>4. ASSUME NEW p \in Procs, LoadAutosave(p) PROVE Clocked'
    <2>1. PICK n \in SessionsOnDisk : id' = [id EXCEPT ![p] = n]
      BY <1>4 DEF LoadAutosave
    <2>2. n \in Ids /\ Load(n) # Nil
      BY LoadParts, Constant DEF SessionsOnDisk
    <2>3. id'[p] <= clock /\ \A q \in Procs \ {p} : id'[q] = id[q]
      BY <2>1, <2>2 DEF ProcType, Clocked
    <2> QED
      BY <1>2, <1>4, <2>3 DEF LoadAutosave
  <1>5. ASSUME NEW p \in Procs, LoadContext(p) \/ NewSessionId(p) \/ RotateAndClear(p) PROVE Clocked'
    <2>1. DrawId(p) /\ UNCHANGED <<clock, disk, hashes>>
      BY <1>5 DEF LoadContext, NewSessionId, RotateAndClear
    <2> QED
      BY <1>2, <2>1, DrawParts
  <1>6. ASSUME NEW p \in Procs, Throttled(p) \/ Return(p) PROVE Clocked'
    BY <1>2, <1>6 DEF Throttled, Return
  <1>7. ASSUME NEW p \in Procs, AutosaveDue(p) PROVE Clocked'
    <2>1. (DrawId(p) \/ UNCHANGED id) /\ UNCHANGED <<clock, disk, hashes>>
      BY <1>7 DEF AutosaveDue
    <2> QED
      BY <1>2, <2>1, DrawParts
  <1>8. ASSUME NEW p \in Procs, SaveUnchanged(p) \/ WriteMeta(p) \/ WriteFails(p) PROVE Clocked'
    BY <1>2, <1>8 DEF SaveUnchanged, WriteMeta, WriteFails
  <1>9. ASSUME NEW p \in Procs, SaveChanged(p) PROVE Clocked'
    <2>1. target[p] \in Ids => target[p] <= clock
      BY <1>9, Constant DEF SaveChanged, Targets, Clocked
    <2>2. \A q \in Procs, n \in Ids : Hashed(q, n)' => Hashed(q, n) \/ n <= clock
      BY <1>9, <2>1, Constant DEF SaveChanged, ProcType
    <2> QED
      BY <1>2, <1>9, <2>2 DEF SaveChanged
  <1>10. ASSUME NEW p \in Procs, NEW f \in Files, WriteFileThen(p, f, "pkl") \/ WriteFileThen(p, f, "meta")
         PROVE  Clocked'
    <2>1. /\ Replace(target[p], f, hist[p]) /\ pc[p] = f /\ UNCHANGED <<clock, id, hashes>>
          /\ target[p] \in Names /\ hist[p] \in Histories
      BY <1>10 DEF WriteFileThen, ProcType
    <2>2. \A n \in Ids \ {target[p]} : Load(n)' = Load(n)
      BY <2>1, LoadReplaced, Constant
    <2>3. target[p] \in Ids => target[p] <= clock
      BY <2>1, Constant DEF Targets, Clocked
    <2> QED
      BY <2>1, <2>2, <2>3 DEF Clocked
  <1>11. ASSUME NEW p \in Procs, CleanupScan(p) \/ CleanupDone(p) PROVE Clocked'
    BY <1>2, <1>11 DEF CleanupScan, CleanupDone
  <1>12. ASSUME NEW p \in Procs, CleanupUnlink(p) PROVE Clocked'
    <2>1. PICK n \in Ids, fs \in SUBSET Files : Unlink(n, fs)
      BY <1>12, UnlinkOne
    <2>2. n \in Ids
      BY DEF ProcType
    <2>3. \A m \in Ids : Load(m)' # Nil => Load(m) # Nil
      BY <2>1, <2>2, LoadUnlinked, Constant
    <2> QED
      BY <1>12, <2>3 DEF CleanupUnlink, Clocked
  <1>13. ASSUME NEW p \in Procs, Crash(p) PROVE Clocked'
    <2>1. /\ id'[p] = NoId /\ \A q \in Procs \ {p} : id'[q] = id[q]
          /\ \A n \in Ids : hashes'[p][n] = Nil /\ \A q \in Procs \ {p} : hashes'[q][n] = hashes[q][n]
          /\ UNCHANGED <<clock, disk>>
      BY <1>13, Constant DEF Crash, ProcType
    <2>2. id'[p] <= clock
      BY <1>1, <2>1 DEF NoId
    <2> QED
      BY <1>2, <2>1, <2>2
  <1>14. CASE Tick
    <2>1. \A n \in Ids : Load(n)' = Load(n)
      BY <1>14 DEF Tick, Load, Exists
    <2>2. \A n \in Ids : n <= clock => n <= clock'
      BY <1>1, <1>14, Constant DEF Tick
    <2>3. \A q \in Procs : id'[q] = id[q] /\ id[q] <= clock'
      BY <1>1, <1>14 DEF Tick, procVars, Clocked
    <2>4. hashes' = hashes
      BY <1>14 DEF Tick, procVars
    <2> QED
      BY <2>1, <2>2, <2>3, <2>4 DEF Clocked
  <1>15. CASE UNCHANGED vars
    <2>1. UNCHANGED <<clock, disk, id, hashes>>
      BY <1>15 DEF vars, procVars
    <2> QED
      BY <2>1 DEF Clocked, Load, Exists
  <1> QED
    BY <1>3, <1>4, <1>5, <1>6, <1>7, <1>8, <1>9, <1>10, <1>11, <1>12, <1>13, <1>14, <1>15, Constant
    DEF Next, Command, Autosave, Save, Cleanup, WriteJson, WritePkl

-----------------------------------------------------------------------------
\* The hash cache tells the truth, except of sessions that cleanup removes,
\* and those are not used again.
HashTrue(p) ==
    /\ pc[p] \in {"json", "pkl", "meta"} => hashes[p][target[p]] = hist[p]
    /\ \A n \in Names :
          Hashed(p, n) /\ ~(pc[p] = "json" /\ target[p] = n) /\ <<n, "pkl">> \notin stale[p] =>
          IF Load(n) # Nil THEN disk[n]["json"] = hashes[p][n]
                           ELSE n < clock /\ n # id[p]

\* A session that is not on disk yet is the youngest the process has saved.
NewIsYoungest(p) ==
    id[p] # NoId /\ Load(id[p]) = Nil => \A n \in Ids : Hashed(p, n) => n <= id[p]

\* Cleanup never chooses the session in use, and removes the canonical file
\* of a session first.
StaleRight(p) ==
    /\ pc[p] # "unlink" \/ ~ByAutosave(p) => stale[p] = {}
    /\ \A n \in Ids, f \in Files : <<n, f>> \in stale[p] =>
          n # id[p] /\ (Hashed(p, n) => n < clock) /\ <<n, "pkl">> \in stale[p]
    /\ \A n \in Ids : <<n, "pkl">> \in stale[p] /\ <<n, "json">> \notin stale[p] =>
          ~Exists(n, "json")

\* A process that has saved leaves at most MaxSessions behind.
Few(S) == Cardinality(S) <= MaxSessions
Doomed(p) == {n \in Ids : <<n, "pkl">> \in stale[p]}
Limited(p) == MaxSessions # 0 =>
    /\ ~ByAutosave(p) \/ pc[p] \in {"idle", "autosave", "save", "done"} =>
          \A n \in Ids : Hashed(p, n) => Few(SessionsOnDisk)
    /\ ByAutosave(p) /\ pc[p] = "json" =>
          \A n \in Ids \ {id[p]} : Hashed(p, n) =>
              Few(SessionsOnDisk) /\ (Load(id[p]) = Nil => n < id[p])
    /\ ByAutosave(p) /\ pc[p] \in {"pkl", "meta", "saved"} =>
          \A n \in Ids \ {id[p]} : Hashed(p, n) => Few(SessionsOnDisk) \/ n < id[p]
    /\ ByAutosave(p) /\ pc[p] \in {"meta", "saved"} =>
          Few(SessionsOnDisk) \/ \A n \in SessionsOnDisk : ~Later(n, id[p])
    /\ ByAutosave(p) /\ pc[p] = "unlink" => Few(SessionsOnDisk \ Doomed(p))

\* What was saved stays, and no more than `lag` turns are missing from it,
\* besides those that ended without an autosave.
Near(p, lag) ==
    \/ hist[p].len <= lag + skipped[p]
    \/ \E n \in Names : /\ Load(n) # Nil /\ Load(n).conv = hist[p].conv
                        /\ hist[p].len <= Load(n).len + lag + skipped[p]
Saved(p) ==
    /\ pc[p] \in {"idle", "done"} \/ ~ByAutosave(p) => Near(p, counter[p])
    /\ pc[p] = "autosave" => Near(p, counter[p] + 1)
    /\ ByAutosave(p) /\ pc[p] \in {"pkl", "meta", "saved", "unlink"} => Load(target[p]) = hist[p]

Lasting(p) == HashTrue(p) /\ NewIsYoungest(p) /\ StaleRight(p) /\ Limited(p) /\ Saved(p)
LossInv == failed \/ \A p \in Procs : Lasting(p)

\* Sessions on disk are in a strict order of age, ...
LEMMA LaterOrder ==
    ASSUME DiskType, Ordered
    PROVE  \A l, m, n \in SessionsOnDisk :
              /\ ~Later(n, n)
              /\ m # n => Later(m, n) \/ Later(n, m)
              /\ Later(l, m) /\ Later(m, n) => Later(l, n)
  <1>1. \A n \in SessionsOnDisk : Dated(n) \in Existing /\ Dated(n)[1] = n
    BY Constant DEF SessionsOnDisk, Dated, Existing
  <1> QED
    BY <1>1 DEF Ordered, Strict, Later

LEMMA DiskFinite ==
    /\ SessionsOnDisk \subseteq Ids /\ IsFiniteSet(SessionsOnDisk)
    /\ \A S \in SUBSET SessionsOnDisk :
          /\ IsFiniteSet(S) /\ Cardinality(S) \in Nat
          /\ Cardinality(S) <= Cardinality(SessionsOnDisk)
          /\ \A T \in SUBSET S : T # S => Cardinality(T) < Cardinality(S)
  <1>1. SessionsOnDisk \subseteq Ids /\ IsFiniteSet(Ids)
    BY Constant, FS_Interval DEF SessionsOnDisk, Ids
  <1>2. IsFiniteSet(SessionsOnDisk)
    BY <1>1, FS_Subset
  <1> QED
    BY <1>1, <1>2, FS_Subset, FS_CardinalityType

\* ... so cleanup leaves the newest, at most as many as the limit says.
LEMMA StaleLeavesFew ==
    ASSUME DiskType, Ordered, MaxSessions # 0
    PROVE  Few(SessionsOnDisk \ StaleBeyond(MaxSessions))
  <1> DEFINE Newer(n) == {m \in SessionsOnDisk : Later(m, n)}
             kept == SessionsOnDisk \ StaleBeyond(MaxSessions)
             rank == [n \in kept |-> Cardinality(Newer(n))]
  <1>1. \A n \in kept : rank[n] \in 0..(MaxSessions - 1) /\ n \in SessionsOnDisk
    <2> TAKE n \in kept
    <2>1. Cardinality(Newer(n)) \in Nat
      BY DiskFinite
    <2>2. ~(Cardinality(Newer(n)) >= MaxSessions)
      BY DEF StaleBeyond
    <2> QED
      BY <2>1, <2>2, Constant
  <1>2. ASSUME NEW m \in kept, NEW n \in kept, Later(m, n) PROVE rank[m] < rank[n]
    <2>1. Newer(m) \subseteq Newer(n)
      BY <1>1, <1>2, LaterOrder
    <2>2. m \in Newer(n) /\ m \notin Newer(m)
      BY <1>1, <1>2, LaterOrder
    <2>3. Newer(n) \in SUBSET SessionsOnDisk /\ Newer(m) # Newer(n)
      BY <2>2
    <2>4. Cardinality(Newer(m)) < Cardinality(Newer(n))
      BY <2>1, <2>3, DiskFinite
    <2> QED
      BY <2>4
  <1>3. \A m, n \in kept : rank[m] = rank[n] => m = n
    <2> SUFFICES ASSUME NEW m \in kept, NEW n \in kept, m # n PROVE rank[m] # rank[n]
      OBVIOUS
    <2>1. Later(m, n) \/ Later(n, m)
      BY <1>1, LaterOrder
    <2>2. rank[m] \in Nat /\ rank[n] \in Nat
      BY <1>1, Constant
    <2> HIDE DEF rank
    <2>3. rank[m] < rank[n] \/ rank[n] < rank[m]
      BY <1>2, <2>1
    <2> QED
      BY <2>2, <2>3
  <1>4. rank \in Injection(kept, 0..(MaxSessions - 1))
    BY <1>1, <1>3 DEF Injection, IsInjective
  <1>5. IsFiniteSet(0..(MaxSessions - 1)) /\ Cardinality(0..(MaxSessions - 1)) = MaxSessions
    BY Constant, FS_Interval
  <1>6. Cardinality(kept) <= MaxSessions
    BY <1>4, <1>5, FS_Injection
  <1> QED
    BY <1>6 DEF Few

\* A directory within the limit has nothing stale.
LEMMA FewNotStale ==
    ASSUME DiskType, Ordered, Few(SessionsOnDisk)
    PROVE  StaleBeyond(MaxSessions) = {}
  <1> SUFFICES ASSUME NEW n \in SessionsOnDisk,
                      Cardinality({m \in SessionsOnDisk : Later(m, n)}) >= MaxSessions
               PROVE  FALSE
    BY DEF StaleBeyond
  <1> DEFINE newer == {m \in SessionsOnDisk : Later(m, n)}
  <1>1. n \notin newer
    BY LaterOrder
  <1>2. newer \in SUBSET SessionsOnDisk /\ newer # SessionsOnDisk
    BY <1>1
  <1>3. Cardinality(newer) < Cardinality(SessionsOnDisk)
    BY <1>2, DiskFinite
  <1>4. Cardinality(newer) \in Nat /\ Cardinality(SessionsOnDisk) \in Nat
    BY <1>2, DiskFinite
  <1> QED
    BY <1>3, <1>4, Constant DEF Few

LEMMA DiskSame ==
    ASSUME UNCHANGED <<disk, older>>
    PROVE  /\ \A n \in Names : Load(n)' = Load(n) /\ disk'[n]["json"] = disk[n]["json"]
           /\ SessionsOnDisk' = SessionsOnDisk
           /\ \A m, n : Later(m, n)' <=> Later(m, n)
  BY DEF Load, Exists, SessionsOnDisk, Later, Dated

\* A step outside save_session and cleanup_sessions: files, hashes and what
\* is stale stay; another id is drawn from the clock or that of a file.
LEMMA Quiet ==
    ASSUME TypeOK, Clocked, NEW p \in Procs, Lasting(p),
           UNCHANGED <<clock, disk, older, hashes, stale>>,
           pc[p] \in {"idle", "autosave", "done"}, pc'[p] \in {"idle", "autosave", "save", "done"},
           id'[p] = id[p] \/ id'[p] = clock \/ (id'[p] \in Ids /\ Load(id'[p]) # Nil)
    PROVE  HashTrue(p)' /\ NewIsYoungest(p)' /\ StaleRight(p)' /\ Limited(p)'
  <1>0. DiskType /\ ProcType /\ OtherType
    BY TypeParts
  <1>1. /\ \A n \in Names : Load(n)' = Load(n) /\ disk'[n]["json"] = disk[n]["json"]
        /\ SessionsOnDisk' = SessionsOnDisk
    BY DiskSame
  <1>2. \A n \in Names : Hashed(p, n)' <=> Hashed(p, n)
    BY DEF Hashed
  <1>3. clock \in Ids /\ clock \in Nat /\ (id[p] = NoId \/ id[p] \in Ids) /\ id'[p] \in Ids \cup {NoId}
    BY <1>0, Constant DEF ProcType, OtherType, Ids
  <1>4. HashTrue(p)'
    <2>1. ASSUME NEW n \in Names, Hashed(p, n), <<n, "pkl">> \notin stale[p], Load(n) = Nil
          PROVE  n < clock /\ n # id'[p]
      <3>1. n < clock /\ n # id[p]
        BY <2>1 DEF Lasting, HashTrue
      <3> QED
        BY <2>1, <3>1, <1>3, Constant
    <2>2. ASSUME NEW n \in Names, Hashed(p, n), <<n, "pkl">> \notin stale[p], Load(n) # Nil
          PROVE  disk[n]["json"] = hashes[p][n]
      BY <2>2 DEF Lasting, HashTrue
    <2> QED
      BY <1>1, <1>2, <2>1, <2>2 DEF HashTrue
  <1>5. NewIsYoungest(p)'
    <2>1. \A n \in Ids : Hashed(p, n) => n <= clock
      BY DEF Clocked
    <2>2. id[p] # NoId /\ Load(id[p]) = Nil => \A n \in Ids : Hashed(p, n) => n <= id[p]
      BY DEF Lasting, NewIsYoungest
    <2>3. PICK i \in Ids \cup {NoId} : i = id'[p]
      BY <1>3
    <2>4. i # NoId => Load(i)' = Load(i)
      BY <1>1, Constant
    <2>5. \A n \in Ids : Hashed(p, n)' => Hashed(p, n)
      BY <1>2, Constant
    <2>6. i # NoId /\ Load(i) = Nil => \A n \in Ids : Hashed(p, n) => n <= i
      BY <2>1, <2>2, <2>3
    <2>7. i # NoId /\ Load(i)' = Nil => \A n \in Ids : Hashed(p, n)' => n <= i
      BY <2>4, <2>5, <2>6
    <2> QED
      BY <2>3, <2>7 DEF NewIsYoungest, Load, Exists
  <1>6. StaleRight(p)'
    <2>1. stale[p] = {}
      BY DEF Lasting, StaleRight
    <2> QED
      BY <2>1 DEF StaleRight
  <1>7. Limited(p)'
    BY <1>1, <1>2, Constant DEF Lasting, Limited, Few
  <1> QED
    BY <1>4, <1>5, <1>6, <1>7

LEMMA NearSame ==
    ASSUME UNCHANGED <<disk, older>>, NEW p \in Procs, NEW k, hist'[p] = hist[p],
           skipped'[p] = skipped[p], Near(p, k)
    PROVE  Near(p, k)'
  BY DiskSame DEF Near

\* A step that Quiet speaks of, where the history is as near to what was
\* saved as the counter says.
LEMMA QuietLasting ==
    ASSUME TypeOK, Clocked, NEW p \in Procs, Lasting(p), Targets',
           UNCHANGED <<clock, disk, older, hashes, stale>>,
           pc[p] \in {"idle", "autosave", "done"}, pc'[p] \in {"idle", "autosave", "save", "done"},
           id'[p] = id[p] \/ id'[p] = clock \/ (id'[p] \in Ids /\ Load(id'[p]) # Nil),
           pc'[p] \in {"idle", "done"} \/ after'[p] = "dump" => Near(p, counter[p])',
           pc'[p] = "autosave" => Near(p, counter[p] + 1)'
    PROVE  Lasting(p)'
  <1>1. HashTrue(p)' /\ NewIsYoungest(p)' /\ StaleRight(p)' /\ Limited(p)'
    BY Quiet
  <1>2. Saved(p)'
    BY DEF Saved, ByAutosave
  <1> QED
    BY <1>1, <1>2 DEF Lasting

LEMMA CommandLasting ==
    ASSUME TypeOK, TypeOK', Targets', Clocked, NEW p \in Procs, Lasting(p),
           Command(p) \/ Autosave(p) \/ Return(p) \/ RotateAndClear(p)
    PROVE  Lasting(p)'
  <1>0. DiskType /\ ProcType /\ OtherType /\ ProcType'
    BY TypeParts, TypeParts, PTL
  <1> USE DEF Goto, Leave
  <1>n. /\ pc[p] \in {"idle", "done"} => Near(p, counter[p])
        /\ pc[p] = "autosave" => Near(p, counter[p] + 1)
    BY DEF Lasting, Saved
  <1>k. counter[p] \in Nat /\ skipped[p] \in Nat /\ hist[p] \in Histories /\ hist[p].len \in Nat /\ clock \in Ids
    BY <1>0, Constant DEF ProcType, OtherType, Ids
  <1>1. ASSUME Turn(p) \/ QuietTurn(p) PROVE Lasting(p)'
    <2> DEFINE lag == counter[p] + skipped[p]  next == lag + 1
    <2>1. /\ pc[p] = "idle" /\ UNCHANGED <<clock, disk, older, hashes, stale, id, counter>>
          /\ hist'[p].len <= hist[p].len + 1 /\ hist'[p].conv = hist[p].conv /\ hist'[p].len \in Nat
          /\ \/ pc'[p] = "autosave" /\ after'[p] = "return" /\ skipped'[p] = skipped[p]
             \/ pc'[p] = "idle" /\ skipped'[p] = skipped[p] + 1
      BY <1>0, <1>1 DEF Turn, QuietTurn, ProcType, Histories
    <2>2. \A n \in Names : Load(n)' = Load(n) /\ (Load(n) # Nil => Load(n).len \in Nat)
      BY <1>0, <2>1, DiskSame, LoadParts, Constant
    <2>3. lag \in Nat /\ next = lag + 1 /\ hist[p].len \in Nat
      BY <1>k
    <2>4. \/ hist[p].len <= lag
          \/ \E n \in Names : /\ Load(n) # Nil /\ Load(n).conv = hist[p].conv
                              /\ hist[p].len <= Load(n).len + lag
      BY <1>n, <1>k, <2>1, <2>2 DEF Near
    <2> HIDE DEF lag, next
    <2>5. \/ hist'[p].len <= next
          \/ \E n \in Names : /\ Load(n)' # Nil /\ Load(n)'.conv = hist'[p].conv
                              /\ hist'[p].len <= Load(n)'.len + next
      <3>1. CASE hist[p].len <= lag
        BY <2>1, <2>3, <3>1
      <3>2. CASE ~(hist[p].len <= lag)
        <4>1. PICK n \in Names : /\ Load(n) # Nil /\ Load(n).conv = hist[p].conv
                                 /\ hist[p].len <= Load(n).len + lag
          BY <2>4, <3>2
        <4>2. hist'[p].len <= Load(n)'.len + next
          BY <2>1, <2>2, <2>3, <4>1
        <4> QED
          BY <2>1, <2>2, <4>1, <4>2
      <3> QED
        BY <3>1, <3>2
    <2>6. CASE pc'[p] = "autosave" /\ after'[p] = "return" /\ skipped'[p] = skipped[p]
      <3>1. Near(p, counter[p] + 1)'
        BY <1>k, <2>1, <2>2, <2>5, <2>6 DEF Near, lag, next
      <3> QED
        BY <2>1, <2>6, <3>1, QuietLasting
    <2>7. CASE pc'[p] = "idle" /\ skipped'[p] = skipped[p] + 1
      <3>1. Near(p, counter[p])'
        BY <1>k, <2>1, <2>2, <2>5, <2>7 DEF Near, lag, next
      <3> QED
        BY <2>1, <2>7, <3>1, QuietLasting
    <2> QED
      BY <2>1, <2>6, <2>7
  <1>2. ASSUME Clear(p) PROVE Lasting(p)'
    <2>1. /\ pc[p] = "idle" /\ pc'[p] = "autosave" /\ UNCHANGED <<clock, disk, older, hashes, stale, id, counter, hist, skipped>>
          /\ after'[p] = "rotate"
      BY <1>0, <1>2 DEF Clear, ProcType
    <2>2. \A n \in Names : Load(n) # Nil => Load(n).len \in Nat
      BY <1>0, LoadParts, Constant
    <2>3. Near(p, counter[p] + 1)
      BY <1>n, <1>k, <2>1, <2>2 DEF Near
    <2>4. Near(p, counter[p] + 1)'
      BY <2>1, <2>3, DiskSame DEF Near
    <2> QED
      BY <2>1, <2>4, QuietLasting
  <1>3. ASSUME Dump(p) \/ Throttled(p) \/ Return(p) PROVE Lasting(p)'
    <2>1. /\ UNCHANGED <<clock, disk, older, hashes, stale, id, hist, skipped>>
          /\ pc[p] \in {"idle", "autosave", "done"} /\ pc'[p] \in {"idle", "save", "done"}
      BY <1>0, <1>3 DEF Dump, Throttled, Return, ProcType
    <2>2. Near(p, counter[p])'
      <3>1. \/ counter'[p] = counter[p] /\ pc[p] \in {"idle", "done"}
            \/ counter'[p] = counter[p] + 1 /\ pc[p] = "autosave"
        BY <1>0, <1>3 DEF Dump, Throttled, Return, ProcType
      <3>2. Near(p, counter'[p])
        BY <1>n, <3>1
      <3> QED
        BY <2>1, <3>2, DiskSame DEF Near
    <2> QED
      BY <2>1, <2>2, QuietLasting
  <1>4. ASSUME LoadAutosave(p) PROVE Lasting(p)'
    <2>1. PICK n \in SessionsOnDisk :
             hist' = [hist EXCEPT ![p] = Load(n)] /\ id' = [id EXCEPT ![p] = n]
      BY <1>4 DEF LoadAutosave
    <2>2. /\ pc[p] = "idle" /\ pc'[p] = "idle" /\ UNCHANGED <<clock, disk, older, hashes, stale, counter>>
          /\ hist'[p] = Load(n) /\ skipped'[p] = 0 /\ id'[p] = n /\ n \in Names /\ n \in Ids /\ Load(n) # Nil
      BY <1>0, <1>4, <2>1, Constant, LoadParts DEF LoadAutosave, ProcType, SessionsOnDisk
    <2>3. Load(n)' = Load(n) /\ Load(n) \in Histories
      BY <1>0, <2>2, DiskSame, LoadParts
    <2>4. Near(p, counter[p])'
      BY <1>k, <2>2, <2>3, Constant DEF Near
    <2> QED
      BY <2>2, <2>4, QuietLasting
  <1>5. ASSUME LoadContext(p) PROVE Lasting(p)'
    <2>1. /\ pc[p] = "idle" /\ pc'[p] = "idle" /\ UNCHANGED <<clock, disk, older, hashes, stale, counter>>
          /\ hist'[p] = Load(Context) /\ skipped'[p] = 0 /\ Load(Context) # Nil /\ id'[p] = clock
      BY <1>0, <1>5, DrawParts DEF LoadContext, ProcType
    <2>2. Load(Context)' = Load(Context) /\ Load(Context) \in Histories /\ Context \in Names
      BY <1>0, <2>1, DiskSame, LoadParts, Constant
    <2>3. Near(p, counter[p])'
      BY <1>k, <2>1, <2>2, Constant DEF Near
    <2> QED
      BY <2>1, <2>3, QuietLasting
  <1>6. ASSUME NewSessionId(p) PROVE Lasting(p)'
    <2>1. /\ pc[p] = "idle" /\ pc'[p] = "idle" /\ UNCHANGED <<clock, disk, older, hashes, stale, counter, hist, skipped>>
          /\ id'[p] = clock
      BY <1>0, <1>6, DrawParts DEF NewSessionId, ProcType
    <2>2. Near(p, counter[p])'
      BY <1>n, <2>1, DiskSame DEF Near
    <2> QED
      BY <2>1, <2>2, QuietLasting
  <1>7. ASSUME AutosaveDue(p) PROVE Lasting(p)'
    <2>1. /\ pc[p] = "autosave" /\ UNCHANGED <<clock, disk, older, hashes, stale, hist>> /\ counter'[p] = 0 /\ skipped'[p] = 0
          /\ after' = after
      BY <1>0, <1>7 DEF AutosaveDue, ProcType
    <2>2. id'[p] = id[p] \/ id'[p] = clock
      BY <1>0, <1>7, DrawParts DEF AutosaveDue
    <2>3. CASE hist[p].len = 0 /\ Goto(p, "done")
      <3>1. pc'[p] = "done" /\ Near(p, counter[p])'
        BY <1>0, <2>1, <2>3 DEF ProcType, Near
      <3> QED
        BY <2>1, <2>2, <3>1, QuietLasting
    <2>4. CASE Goto(p, "save") /\ target' = [target EXCEPT ![p] = id'[p]]
      <3>1. pc'[p] = "save" /\ target'[p] = id'[p]
        BY <1>0, <2>4 DEF ProcType
      <3>2. after'[p] # "dump"
        <4>1. id'[p] # Context
          BY <1>0, <1>k, <2>2, Constant DEF ProcType, NoId, Context
        <4> QED
          BY <3>1, <4>1 DEF Targets, ByAutosave
      <3> QED
        BY <2>1, <2>2, <3>1, <3>2, QuietLasting
    <2> QED
      BY <1>7, <2>3, <2>4 DEF AutosaveDue
  <1>8. ASSUME RotateAndClear(p) PROVE Lasting(p)'
    <2>1. /\ pc[p] = "done" /\ pc'[p] = "idle" /\ UNCHANGED <<clock, disk, older, hashes, stale, counter>>
          /\ id'[p] = clock /\ skipped'[p] = 0 /\ hist'[p] = Begin(convs + 1) /\ Begin(convs + 1).len = 0
      BY <1>0, <1>8, DrawParts DEF RotateAndClear, ProcType, Begin
    <2>2. Near(p, counter[p])'
      BY <1>k, <2>1 DEF Near
    <2> QED
      BY <2>1, <2>2, QuietLasting
  <1> QED
    BY <1>1, <1>2, <1>3, <1>4, <1>5, <1>6, <1>7, <1>8 DEF Command, Autosave

\* save_session before it writes.
LEMMA SaveLasting ==
    ASSUME TypeOK, Targets, Clocked, NEW p \in Procs, Lasting(p),
           SaveUnchanged(p) \/ SaveChanged(p) \/ WriteMeta(p)
    PROVE  Lasting(p)'
  <1>0. DiskType /\ ProcType /\ OtherType
    BY TypeParts
  <1> USE DEF Goto
  <1>1. /\ UNCHANGED <<clock, disk, older, stale, hist, id, counter, target, after, skipped>>
        /\ pc[p] \in {"save", "meta"} /\ pc'[p] \in {"json", "saved"} /\ stale[p] = {}
    BY <1>0 DEF SaveUnchanged, SaveChanged, WriteMeta, ProcType, Lasting, StaleRight
  <1>2. /\ \A n \in Names : Load(n)' = Load(n) /\ disk'[n]["json"] = disk[n]["json"]
        /\ SessionsOnDisk' = SessionsOnDisk
        /\ \A m, n : Later(m, n)' <=> Later(m, n)
    BY <1>1, DiskSame
  <1>3. /\ target[p] \in Names /\ hist[p] \in Histories /\ hist[p] # Nil
        /\ IF ByAutosave(p) THEN id[p] \in Ids /\ target[p] = id[p] ELSE target[p] = Context
        /\ \A n \in Names : n < clock /\ n # id[p] => n # target[p]
    <2>1. IF ByAutosave(p) THEN id[p] \in Ids /\ target[p] = id[p] ELSE target[p] = Context
      BY <1>1 DEF Targets
    <2>2. ~(Context < clock)
      BY <1>0, Constant DEF OtherType, Context
    <2> QED
      BY <1>0, <2>1, <2>2, NilAssumption DEF ProcType
  <1>4. StaleRight(p)'
    BY <1>1 DEF StaleRight
  <1>5. ~ByAutosave(p) => Near(p, counter[p])'
    <2>1. ~ByAutosave(p) => Near(p, counter[p])
      BY DEF Lasting, Saved
    <2> QED
      BY <1>1, <1>2, <2>1 DEF Near
  <1>6. ASSUME SaveUnchanged(p) \/ WriteMeta(p) PROVE Lasting(p)'
    <2>1. pc'[p] = "saved" /\ UNCHANGED hashes
      BY <1>0, <1>6 DEF SaveUnchanged, WriteMeta, ProcType
    <2>2. \A n \in Names : Hashed(p, n)' <=> Hashed(p, n)
      BY <2>1 DEF Hashed
    <2>3. HashTrue(p)'
      BY <1>1, <1>2, <2>1, <2>2 DEF Lasting, HashTrue
    <2>4. NewIsYoungest(p)'
      <3>1. id[p] \in Names => Load(id[p])' = Load(id[p])
        BY <1>1, <1>2 DEF Load, Exists
      <3>2. id[p] # NoId => id[p] \in Names
        BY <1>0, Constant DEF ProcType
      <3> QED
        BY <1>1, <2>2, <3>1, <3>2, Constant DEF Lasting, NewIsYoungest
    <2>5. hashes[p][target[p]] = hist[p] /\ Hashed(p, target[p])
      BY <1>3, <1>6 DEF SaveUnchanged, WriteMeta, Lasting, HashTrue, Hashed
    <2>6. Load(target[p]) = hist[p]
      <3>1. Load(target[p]) # Nil
        BY <1>1, <1>3, <2>5 DEF Lasting, HashTrue
      <3>2. disk[target[p]]["json"] = hist[p]
        BY <1>1, <1>3, <2>5, <3>1 DEF Lasting, HashTrue
      <3> QED
        BY <1>3, <3>2 DEF Load, Exists
    <2>7. Limited(p)'
      <3>1. MaxSessions # 0 /\ ~ByAutosave(p) => \A n \in Ids : Hashed(p, n) => Few(SessionsOnDisk)
        BY DEF Lasting, Limited
      <3>2. ASSUME MaxSessions # 0, ByAutosave(p)
            PROVE  /\ \A n \in Ids \ {id[p]} : Hashed(p, n) => Few(SessionsOnDisk) \/ n < id[p]
                   /\ Few(SessionsOnDisk) \/ \A n \in SessionsOnDisk : ~Later(n, id[p])
        <4>1. CASE pc[p] = "save"
          <5>1. Few(SessionsOnDisk)
            BY <1>3, <2>5, <3>2, <4>1 DEF Lasting, Limited
          <5> QED
            BY <5>1
        <4>2. CASE pc[p] = "meta"
          BY <3>2, <4>2 DEF Lasting, Limited
        <4> QED
          BY <1>1, <4>1, <4>2
      <3> QED
        BY <1>1, <1>2, <2>1, <2>2, <3>1, <3>2, Constant DEF Limited, Few, ByAutosave
    <2>8. Saved(p)'
      <3>1. Load(target[p])' = hist'[p]
        BY <1>1, <1>2, <1>3, <2>6 DEF Load, Exists
      <3> QED
        BY <1>1, <1>5, <2>1, <3>1 DEF Saved, ByAutosave
    <2> QED
      BY <1>4, <2>3, <2>4, <2>7, <2>8 DEF Lasting
  <1>7. ASSUME SaveChanged(p) PROVE Lasting(p)'
    <2>1. /\ pc[p] = "save" /\ pc'[p] = "json" /\ hashes'[p][target[p]] = hist[p]
          /\ \A n \in Names \ {target[p]} : hashes'[p][n] = hashes[p][n]
      BY <1>0, <1>3, <1>7 DEF SaveChanged, ProcType
    <2>2. \A n \in Names \ {target[p]} : Hashed(p, n)' <=> Hashed(p, n)
      BY <2>1 DEF Hashed
    <2>3. HashTrue(p)'
      BY <1>1, <1>2, <2>1, <2>2 DEF Lasting, HashTrue
    <2>4. \A n \in Ids : Hashed(p, n)' => Hashed(p, n) \/ n = id[p]
      BY <1>3, <2>2, Constant
    <2>5. NewIsYoungest(p)'
      <3>1. id[p] # NoId => id[p] \in Names /\ id[p] \in Nat
        BY <1>0, Constant DEF ProcType
      <3>2. id[p] # NoId => Load(id[p])' = Load(id[p])
        BY <1>1, <1>2, <3>1 DEF Load, Exists
      <3> QED
        BY <1>1, <2>4, <3>1, <3>2, Constant DEF Lasting, NewIsYoungest
    <2>6. Limited(p)'
      <3>1. MaxSessions # 0 => \A n \in Ids : Hashed(p, n) => Few(SessionsOnDisk)
        BY <2>1 DEF Lasting, Limited
      <3>2. ASSUME ~ByAutosave(p) PROVE \A n \in Ids : Hashed(p, n)' => Hashed(p, n)
        BY <1>3, <2>2, <3>2, Constant
      <3>3. ASSUME ByAutosave(p), Load(id[p]) = Nil, NEW n \in Ids \ {id[p]}, Hashed(p, n)
            PROVE  n < id[p]
        <4>1. n <= id[p] /\ id[p] \in Nat /\ n \in Nat
          BY <1>3, <3>3, Constant DEF Lasting, NewIsYoungest
        <4> QED
          BY <4>1
      <3>4. ByAutosave(p) => Load(id[p])' = Load(id[p])
        BY <1>1, <1>2, <1>3, Constant DEF Load, Exists
      <3> QED
        BY <1>1, <1>2, <2>1, <2>4, <3>1, <3>2, <3>3, <3>4 DEF Limited, Few, ByAutosave
    <2>7. Saved(p)'
      BY <1>1, <1>5, <2>1 DEF Saved, ByAutosave
    <2> QED
      BY <1>4, <2>3, <2>5, <2>6, <2>7 DEF Lasting
  <1> QED
    BY <1>6, <1>7

\* save_session writes a file.
LEMMA WriteLasting ==
    ASSUME TypeOK, Targets, Clocked, JsonFirst, NEW p \in Procs, Lasting(p),
           WriteJson(p) \/ WritePkl(p)
    PROVE  Lasting(p)'
  <1>0. DiskType /\ ProcType /\ OtherType
    BY TypeParts
  <1> USE DEF Goto
  <1>1. PICK f \in Files : WriteFileThen(p, f, IF f = "json" THEN "pkl" ELSE "meta")
    BY Constant DEF WriteJson, WritePkl
  <1>2. /\ UNCHANGED <<clock, stale, hist, id, counter, hashes, target, after, skipped>>
        /\ pc[p] = f /\ pc'[p] = (IF f = "json" THEN "pkl" ELSE "meta") /\ f \in {"json", "pkl"}
        /\ stale[p] = {}
    BY <1>0, <1>1, Constant DEF WriteFileThen, ProcType, Lasting, StaleRight
  <1>3. /\ target[p] \in Names /\ hist[p] \in Histories /\ hist[p] # Nil
        /\ Replace(target[p], f, hist[p])
        /\ hist[p].conv \in Nat /\ hist[p].len \in Nat /\ counter[p] \in Nat
        /\ skipped[p] \in Nat
    BY <1>0, <1>1, NilAssumption, Constant DEF ProcType, WriteFileThen
  <1>4. IF ByAutosave(p) THEN id[p] \in Ids /\ target[p] = id[p] ELSE target[p] = Context
    BY <1>2 DEF Targets
  <1>5. f = "pkl" => disk[target[p]]["json"] = hist[p] /\ Load(target[p]) = hist[p]
    BY <1>2, <1>3 DEF JsonFirst, Load, Exists
  <1>6. /\ \A m \in Names \ {target[p]} : Load(m)' = Load(m) /\ disk'[m]["json"] = disk[m]["json"]
        /\ SessionsOnDisk' = SessionsOnDisk \cup ({target[p]} \cap Ids)
    BY <1>0, <1>3, LoadReplaced
  <1>7. /\ disk'[target[p]]["json"] = hist[p]
        /\ (IF disk'[target[p]]["json"] # Nil THEN disk'[target[p]]["json"] ELSE disk'[target[p]]["pkl"]) = hist[p]
    <2>1. PICK n \in Names, c \in Histories : n = target[p] /\ c = hist[p] /\ Replace(n, f, c)
      BY <1>3
    <2>2. /\ f = "json" => disk'[n]["json"] = c
          /\ f = "pkl" => disk'[n]["json"] = disk[n]["json"]
      BY <1>0, <2>1, LoadReplaced
    <2> QED
      BY <1>2, <1>3, <1>5, <2>1, <2>2
  <1>8. Load(target[p])' = hist'[p] /\ Load(target[p])' # Nil
    BY <1>2, <1>3, <1>7 DEF Load, Exists
  <1>9. \A n \in Names : Hashed(p, n)' <=> Hashed(p, n)
    BY <1>2 DEF Hashed
  <1>10. HashTrue(p)'
    <2>1. hashes[p][target[p]] = hist[p]
      BY <1>2 DEF Lasting, HashTrue
    <2>2. ASSUME NEW n \in Names \ {target[p]}, Hashed(p, n)
          PROVE  IF Load(n) # Nil THEN disk[n]["json"] = hashes[p][n] ELSE n < clock /\ n # id[p]
      <3>1. <<n, "pkl">> \notin stale[p]
        BY <1>2
      <3> QED
        BY <2>2, <3>1 DEF Lasting, HashTrue
    <2>3. ASSUME NEW n \in Names, Hashed(p, n)
          PROVE  IF Load(n)' # Nil THEN disk'[n]["json"] = hashes'[p][n] ELSE n < clock' /\ n # id'[p]
      <3>1. CASE n = target[p]
        BY <1>2, <1>3, <1>7, <2>1, <3>1 DEF Load, Exists
      <3>2. CASE n # target[p]
        BY <1>2, <1>6, <2>2, <2>3, <3>2
      <3> QED
        BY <3>1, <3>2
    <2> QED
      BY <1>2, <1>9, <2>1, <2>3 DEF HashTrue
  <1>11. NewIsYoungest(p)'
    <2>1. PICK i : i = id[p]
      OBVIOUS
    <2>2. CASE i = target[p]
      BY <1>2, <1>3, <1>7, <2>1, <2>2 DEF NewIsYoungest, Load, Exists
    <2>3. CASE i # target[p]
      <3>1. i # NoId => i \in Names \ {target[p]}
        BY <1>0, <2>1, <2>3, Constant DEF ProcType
      <3>2. i # NoId => Load(i)' = Load(i)
        BY <1>6, <3>1
      <3>3. i # NoId /\ Load(i) = Nil => \A n \in Ids : Hashed(p, n) => n <= i
        BY <2>1 DEF Lasting, NewIsYoungest
      <3>4. i # NoId /\ Load(i)' = Nil => \A n \in Ids : Hashed(p, n)' => n <= i
        BY <1>9, <3>2, <3>3, Constant
      <3> QED
        BY <1>2, <2>1, <3>4 DEF NewIsYoungest, Load, Exists
    <2> QED
      BY <2>2, <2>3
  <1>12. StaleRight(p)'
    BY <1>2 DEF StaleRight
  <1>13. Limited(p)'
    <2>1. ASSUME MaxSessions # 0, ~ByAutosave(p)
          PROVE  SessionsOnDisk' = SessionsOnDisk /\ \A n \in Ids : Hashed(p, n) => Few(SessionsOnDisk)
      <3>1. {target[p]} \cap Ids = {}
        BY <1>4, <2>1, Constant
      <3> QED
        BY <1>6, <2>1, <3>1 DEF Lasting, Limited
    <2>2. ASSUME MaxSessions # 0, ByAutosave(p)
          PROVE  /\ \A n \in Ids \ {id[p]} : Hashed(p, n) => Few(SessionsOnDisk') \/ n < id[p]
                 /\ f = "pkl" => \A n \in SessionsOnDisk' : ~Later(n, id[p])'
      <3>1. Load(id[p]) # Nil => SessionsOnDisk' = SessionsOnDisk
        <4>1. Load(id[p]) # Nil => id[p] \in SessionsOnDisk
          BY <1>0, <1>4, <2>2, LoadParts, Constant
        <4> QED
          BY <1>4, <1>6, <2>2, <4>1
      <3>2. ASSUME NEW n \in Ids \ {id[p]}, Hashed(p, n) PROVE Few(SessionsOnDisk') \/ n < id[p]
        <4>1. CASE f = "json"
          BY <1>2, <2>2, <3>1, <3>2, <4>1 DEF Lasting, Limited
        <4>2. CASE f = "pkl"
          <5>1. SessionsOnDisk' = SessionsOnDisk
            BY <1>3, <1>4, <1>5, <2>2, <3>1, <4>2
          <5> QED
            BY <1>2, <2>2, <3>2, <4>2, <5>1 DEF Lasting, Limited
        <4> QED
          BY <1>2, <4>1, <4>2
      <3>3. ASSUME f = "pkl", NEW n \in SessionsOnDisk' PROVE ~Later(n, id[p])'
        <4>1. PICK m \in Names, c \in Histories : m = id[p] /\ c = hist[p] /\ Replace(m, "pkl", c)
          BY <1>3, <1>4, <2>2, <3>3
        <4>2. "pkl" \in Files
          BY Constant
        <4>3. /\ disk'[m]["pkl"] = c
              /\ \A a, b : <<a, b>> \in older' =>
                    \/ <<a, b>> \in older /\ a # <<m, "pkl">> /\ b # <<m, "pkl">>
                    \/ a \in Existing /\ a # <<m, "pkl">> /\ b = <<m, "pkl">>
          BY <1>0, <4>1, <4>2, ReplaceParts
        <4>4. \A b : <<<<m, "pkl">>, b>> \notin older'
          BY <4>3, Zenon
        <4>5. Exists(m, "pkl")'
          BY <4>1, <4>3, NilAssumption DEF Exists
        <4>6. ~Later(n, m)'
          BY <4>4, <4>5 DEF Later, Dated
        <4> QED
          BY <1>2, <4>1, <4>6 DEF Later, Dated, Exists
      <3> QED
        BY <3>2, <3>3
    <2> QED
      BY <1>2, <1>9, <2>1, <2>2, Constant DEF Limited, Few, ByAutosave
  <1>14. Saved(p)'
    <2>1. PICK n \in Names : n = target[p]
      BY <1>3
    <2>2. Load(n)' = hist'[p] /\ Load(n)' # Nil
      BY <1>2, <1>3, <1>7, <2>1 DEF Load, Exists
    <2>3. Near(p, counter[p])'
      BY <1>2, <1>3, <2>2 DEF Near
    <2> QED
      BY <1>2, <1>8, <2>3 DEF Saved
  <1> QED
    BY <1>10, <1>11, <1>12, <1>13, <1>14 DEF Lasting

LEMMA CleanupLasting ==
    ASSUME TypeOK, Targets, Ordered, Clocked, NEW p \in Procs, Lasting(p), Cleanup(p), ~failed'
    PROVE  Lasting(p)'
  <1>0. DiskType /\ ProcType /\ OtherType
    BY TypeParts
  <1> USE DEF Goto
  <1>1. /\ UNCHANGED <<clock, hist, id, counter, hashes, target, after, skipped>>
        /\ pc[p] \in {"saved", "unlink"} /\ pc'[p] \in {"unlink", "done"}
    BY <1>0 DEF Cleanup, CleanupScan, CleanupUnlink, CleanupDone, ProcType
  <1>2. IF ByAutosave(p) THEN id[p] \in Ids /\ target[p] = id[p] ELSE target[p] = Context
    BY <1>1 DEF Targets
  <1>3. \A n \in Names : Hashed(p, n)' <=> Hashed(p, n)
    BY <1>1 DEF Hashed
  <1>4. /\ clock \in Nat /\ Context \in Nat /\ \A n \in Ids : n \in Nat
        /\ id[p] <= clock /\ id[p] \in Nat /\ target[p] \in Names
    <2>1. clock \in Nat /\ Context \in Nat /\ \A n \in Ids : n \in Nat
      BY <1>0, Constant DEF OtherType
    <2>2. id[p] \in Nat /\ target[p] \in Names
      <3>1. id[p] \in Ids \cup {NoId} /\ target[p] \in Names
        BY <1>0 DEF ProcType
      <3> QED
        BY <2>1, <3>1 DEF NoId
    <2>3. id[p] <= clock
      BY DEF Clocked
    <2> QED
      BY <2>1, <2>2, <2>3
  <1>5. ByAutosave(p) => Load(target[p]) = hist[p] /\ Load(target[p]) # Nil
    <2>1. hist[p] # Nil
      BY <1>0, NilAssumption DEF ProcType
    <2> QED
      BY <1>1, <2>1 DEF Lasting, Saved
  <1>6. ASSUME UNCHANGED <<disk, older>>, stale[p] = {} PROVE HashTrue(p)' /\ NewIsYoungest(p)'
    <2>1. \A n \in Names : Load(n)' = Load(n) /\ disk'[n]["json"] = disk[n]["json"]
      BY <1>6, DiskSame
    <2>2. HashTrue(p)'
      <3>1. \A n \in Names : Hashed(p, n) =>
               IF Load(n) # Nil THEN disk[n]["json"] = hashes[p][n] ELSE n < clock /\ n # id[p]
        <4>1. \A n : <<n, "pkl">> \notin stale[p]
          BY <1>6
        <4> QED
          BY <1>1, <4>1 DEF Lasting, HashTrue
      <3> QED
        BY <1>1, <1>3, <2>1, <3>1 DEF HashTrue
    <2>3. id[p] # NoId => id[p] \in Names
      BY <1>0, Constant DEF ProcType
    <2>4. id[p] # NoId => Load(id[p])' = Load(id[p])
      BY <1>1, <2>1, <2>3 DEF Load, Exists
    <2>5. NewIsYoungest(p)'
      BY <1>1, <1>3, <2>4, Constant DEF Lasting, NewIsYoungest
    <2> QED
      BY <2>2, <2>5
  <1>7. ASSUME CleanupScan(p) PROVE Lasting(p)'
    <2>1. /\ UNCHANGED <<disk, older>> /\ pc[p] = "saved" /\ pc'[p] = "unlink"
          /\ stale'[p] = (IF after[p] = "dump" \/ MaxSessions = 0 THEN {}
                                                            ELSE StaleBeyond(MaxSessions) \X Files)
          /\ stale[p] = {}
      BY <1>0, <1>7 DEF CleanupScan, ProcType, Lasting, StaleRight
    <2>2. SessionsOnDisk' = SessionsOnDisk /\ \A n \in Names : Load(n)' = Load(n)
      BY <2>1, DiskSame
    <2>3. ASSUME ByAutosave(p), MaxSessions # 0, NEW n \in StaleBeyond(MaxSessions)
          PROVE  n # id[p] /\ (Hashed(p, n) => n < clock)
      <3>1. ~Few(SessionsOnDisk)
        BY <1>0, <2>3, FewNotStale
      <3>2. \A m \in SessionsOnDisk : ~Later(m, id[p])
        BY <2>1, <2>3, <3>1 DEF Lasting, Limited
      <3>3. n # id[p]
        <4> SUFFICES ASSUME n = id[p] PROVE FALSE
          OBVIOUS
        <4>1. {m \in SessionsOnDisk : Later(m, n)} = {}
          BY <3>2
        <4>2. Cardinality({m \in SessionsOnDisk : Later(m, n)}) = 0
          BY <4>1, FS_EmptySet
        <4>3. Cardinality({m \in SessionsOnDisk : Later(m, n)}) >= MaxSessions
          BY <2>3 DEF StaleBeyond
        <4> QED
          BY <2>3, <4>2, <4>3, Constant
      <3>4. n \in Ids
        BY <2>3 DEF StaleBeyond, SessionsOnDisk
      <3>5. Hashed(p, n) => n < id[p]
        BY <2>1, <2>3, <3>1, <3>3, <3>4 DEF Lasting, Limited
      <3> QED
        BY <1>4, <3>3, <3>4, <3>5
    <2>4. StaleRight(p)'
      <3>1. ~ByAutosave(p) => stale'[p] = {}
        BY <2>1 DEF ByAutosave
      <3>2. ASSUME NEW n \in Ids, NEW f \in Files, <<n, f>> \in stale'[p]
            PROVE  /\ n # id[p] /\ (Hashed(p, n) => n < clock)
                   /\ <<n, "pkl">> \in stale'[p] /\ <<n, "json">> \in stale'[p]
        BY <2>1, <2>3, <3>2, Constant DEF ByAutosave
      <3>3. "pkl" \in Files /\ \A n \in Ids : n \in Names
        BY Constant
      <3> QED
        BY <1>1, <1>3, <2>1, <3>1, <3>2, <3>3 DEF StaleRight, ByAutosave
    <2>5. Limited(p)'
      <3>1. MaxSessions # 0 /\ ByAutosave(p) => Few(SessionsOnDisk \ Doomed(p)')
        <4> SUFFICES ASSUME MaxSessions # 0, ByAutosave(p) PROVE Few(SessionsOnDisk \ Doomed(p)')
          OBVIOUS
        <4>1. Doomed(p)' = StaleBeyond(MaxSessions)
          BY <2>1, Constant DEF Doomed, ByAutosave, StaleBeyond, SessionsOnDisk
        <4> QED
          BY <1>0, <4>1, StaleLeavesFew
      <3>2. MaxSessions # 0 /\ ~ByAutosave(p) => \A n \in Ids : Hashed(p, n) => Few(SessionsOnDisk)
        BY DEF Lasting, Limited
      <3> QED
        BY <1>1, <1>3, <2>1, <2>2, <3>1, <3>2, Constant DEF Limited, Few, ByAutosave
    <2>6. Saved(p)'
      <3>1. ~ByAutosave(p) => Near(p, counter[p])
        BY DEF Lasting, Saved
      <3>2. ~ByAutosave(p) => Near(p, counter[p])'
        BY <1>1, <2>2, <3>1 DEF Near
      <3>3. ByAutosave(p) => Load(target[p])' = hist'[p]
        BY <1>1, <1>4, <1>5, <2>1 DEF Load, Exists
      <3> QED
        BY <1>1, <2>1, <3>2, <3>3 DEF Saved, ByAutosave
    <2> QED
      BY <1>6, <2>1, <2>4, <2>5, <2>6 DEF Lasting
  <1>8. ASSUME CleanupUnlink(p) PROVE Lasting(p)'
    <2>1. PICK n \in Ids, f \in Files : \E fs \in SUBSET {f} :
             /\ Unlink(n, fs) /\ (failed' \/ fs = {f})
             /\ <<n, f>> \in stale[p] /\ (f = "pkl" => <<n, "json">> \notin stale[p])
             /\ stale' = [stale EXCEPT ![p] = @ \ {<<n, f>>}]
      BY <1>0, <1>8, UnlinkOne
    <2>2. Unlink(n, {f})
      BY <2>1
    <2>4. /\ pc[p] = "unlink" /\ pc'[p] = "unlink" /\ ByAutosave(p)
          /\ stale'[p] = stale[p] \ {<<n, f>>}
          /\ n # id[p] /\ (Hashed(p, n) => n < clock) /\ <<n, "pkl">> \in stale[p]
      BY <1>0, <1>8, <2>1 DEF CleanupUnlink, Lasting, StaleRight, ProcType
    <2>3. /\ \A m \in Names \ {n} : Load(m)' = Load(m) /\ disk'[m]["json"] = disk[m]["json"]
          /\ f = "pkl" => Load(n)' = Nil /\ SessionsOnDisk' = SessionsOnDisk \ {n}
          /\ \A m \in Names, g \in Files :
                disk'[m][g] = IF m = n /\ g = f THEN Nil ELSE disk[m][g]
      <3>1. f = "pkl" => \A g \in Files \ {f} : ~Exists(n, g)
        BY <2>1, <2>4, Constant DEF Lasting, StaleRight
      <3>2. \A m \in Names, g \in Files :
                disk'[m][g] = IF m = n /\ g \in {f} THEN Nil ELSE disk[m][g]
        BY <1>0, <2>2, UnlinkParts, Constant
      <3> QED
        BY <1>0, <2>2, <3>1, <3>2, LoadUnlinked
    <2>5. HashTrue(p)'
      <3>1. ASSUME NEW m \in Names, Hashed(p, m), <<m, "pkl">> \notin stale'[p]
            PROVE  IF Load(m)' # Nil THEN disk'[m]["json"] = hashes'[p][m] ELSE m < clock' /\ m # id'[p]
        <4>1. CASE m = n
          <5>1. f = "pkl"
            BY <2>4, <3>1, <4>1
          <5> QED
            BY <1>1, <2>3, <2>4, <3>1, <4>1, <5>1
        <4>2. CASE m # n
          <5>1. <<m, "pkl">> \notin stale[p]
            BY <2>4, <3>1, <4>2
          <5>2. IF Load(m) # Nil THEN disk[m]["json"] = hashes[p][m] ELSE m < clock /\ m # id[p]
            BY <2>4, <3>1, <5>1 DEF Lasting, HashTrue
          <5> QED
            BY <1>1, <2>3, <4>2, <5>2
        <4> QED
          BY <4>1, <4>2
      <3> QED
        BY <1>3, <2>4, <3>1 DEF HashTrue
    <2>6. id[p] \in Ids /\ Load(id[p])' = Load(id[p]) /\ Load(id[p]) = hist[p] /\ Load(id[p]) # Nil
      <3>1. PICK i \in Ids : i = id[p] /\ i # n
        BY <1>2, <2>4
      <3>2. Load(i)' = Load(i)
        BY <2>3, <3>1, Constant
      <3> QED
        BY <1>1, <1>2, <1>5, <2>4, <3>1, <3>2 DEF Load, Exists
    <2>7. NewIsYoungest(p)'
      BY <1>1, <2>6 DEF NewIsYoungest
    <2>8. StaleRight(p)'
      <3>1. \A m \in Ids, g \in Files : <<m, g>> \in stale[p] =>
               m \in Names /\ m # id[p] /\ (Hashed(p, m) => m < clock) /\ <<m, "pkl">> \in stale[p]
        BY <1>0, Constant DEF Lasting, StaleRight
      <3>2. \A m \in Ids : <<m, "pkl">> \in stale[p] /\ <<m, "json">> \notin stale[p] =>
               ~Exists(m, "json")
        BY DEF Lasting, StaleRight
      <3>3. \A m \in Ids, g \in Files : <<m, g>> \in stale'[p] => <<m, "pkl">> \in stale'[p]
        <4> SUFFICES ASSUME NEW m \in Ids, NEW g \in Files, <<m, g>> \in stale'[p], m = n,
                            f = "pkl", g # "pkl"
                     PROVE  FALSE
          BY <2>4, <3>1
        <4> QED
          BY <2>1, <2>4, Constant
      <3>4. \A m \in Ids : <<m, "pkl">> \in stale'[p] /\ <<m, "json">> \notin stale'[p] =>
               ~Exists(m, "json")'
        <4> SUFFICES ASSUME NEW m \in Ids, <<m, "pkl">> \in stale'[p], <<m, "json">> \notin stale'[p]
                     PROVE  disk'[m]["json"] = Nil
          BY DEF Exists
        <4>1. m \in Names /\ "json" \in Files
          BY Constant
        <4>2. CASE m = n /\ f = "json"
          BY <2>3, <4>1, <4>2
        <4>3. CASE ~(m = n /\ f = "json")
          <5>1. disk[m]["json"] = Nil
            BY <2>4, <3>2, <4>3 DEF Exists
          <5> QED
            BY <2>3, <4>1, <4>3, <5>1
        <4> QED
          BY <4>2, <4>3
      <3> QED
        BY <1>1, <1>3, <2>4, <3>1, <3>3, <3>4 DEF StaleRight, ByAutosave
    <2>9. Limited(p)'
      <3>1. MaxSessions # 0 => Few(SessionsOnDisk \ Doomed(p))
        BY <2>4 DEF Lasting, Limited
      <3>2. SessionsOnDisk' \ Doomed(p)' = SessionsOnDisk \ Doomed(p)
        <4>1. CASE f = "pkl"
          <5>1. Doomed(p)' = Doomed(p) \ {n} /\ n \in Doomed(p)
            BY <2>4, <4>1 DEF Doomed
          <5> QED
            BY <2>3, <4>1, <5>1
        <4>2. CASE f # "pkl"
          <5>1. Doomed(p)' = Doomed(p) /\ n \in Doomed(p)
            BY <2>4, <4>2 DEF Doomed
          <5>2. \A m \in Ids \ {n} : m \in SessionsOnDisk' <=> m \in SessionsOnDisk
            BY <2>3, Constant DEF SessionsOnDisk, Exists
          <5>3. SessionsOnDisk \subseteq Ids /\ SessionsOnDisk' \subseteq Ids
            BY DEF SessionsOnDisk
          <5> QED
            BY <5>1, <5>2, <5>3
        <4> QED
          BY <4>1, <4>2
      <3> QED
        BY <1>1, <2>4, <3>1, <3>2 DEF Limited, Few, ByAutosave
    <2>10. Saved(p)'
      <3>1. Load(target[p])' = hist'[p]
        BY <1>1, <1>2, <2>4, <2>6 DEF Load, Exists
      <3> QED
        BY <1>1, <2>4, <3>1 DEF Saved, ByAutosave
    <2> QED
      BY <2>5, <2>7, <2>8, <2>9, <2>10 DEF Lasting
  <1>9. ASSUME CleanupDone(p) PROVE Lasting(p)'
    <2>1. /\ UNCHANGED <<disk, older, stale>> /\ pc[p] = "unlink" /\ pc'[p] = "done" /\ stale[p] = {}
      BY <1>0, <1>9 DEF CleanupDone, ProcType
    <2>2. SessionsOnDisk' = SessionsOnDisk /\ \A n \in Names : Load(n)' = Load(n)
      BY <2>1, DiskSame
    <2>3. StaleRight(p)'
      BY <2>1 DEF StaleRight
    <2>4. Limited(p)'
      <3>1. SessionsOnDisk \ Doomed(p) = SessionsOnDisk
        BY <2>1 DEF Doomed
      <3>2. MaxSessions # 0 => \A n \in Ids : Hashed(p, n) => Few(SessionsOnDisk)
        BY <2>1, <3>1 DEF Lasting, Limited
      <3> QED
        BY <1>1, <1>3, <2>1, <2>2, <3>2, Constant DEF Limited, Few, ByAutosave
    <2>5. Near(p, counter[p])
      <3>1. CASE ByAutosave(p)
        <4>1. hist[p].len \in Nat /\ counter[p] \in Nat /\ skipped[p] \in Nat
          BY <1>0, Constant DEF ProcType
        <4> QED
          BY <1>4, <1>5, <3>1, <4>1 DEF Near
      <3>2. CASE ~ByAutosave(p)
        BY <3>2 DEF Lasting, Saved
      <3> QED
        BY <3>1, <3>2
    <2>6. Saved(p)'
      <3>1. Near(p, counter[p])'
        BY <1>1, <2>2, <2>5 DEF Near
      <3> QED
        BY <1>1, <2>1, <3>1 DEF Saved, ByAutosave
    <2> QED
      BY <1>6, <2>1, <2>3, <2>4, <2>6 DEF Lasting
  <1> QED
    BY <1>7, <1>8, <1>9 DEF Cleanup

LEMMA CrashLasting ==
    ASSUME TypeOK, NEW p \in Procs, Crash(p)
    PROVE  Lasting(p)'
  <1>1. /\ hist'[p].len = 0 /\ id'[p] = NoId /\ counter'[p] = 0 /\ skipped'[p] = 0 /\ stale'[p] = {} /\ pc'[p] = "idle"
        /\ \A n \in Names : hashes'[p][n] = Nil
    BY TypeParts DEF Crash, ProcType, Begin, Leave, Goto
  <1>2. \A n \in Names : ~Hashed(p, n)'
    BY <1>1 DEF Hashed
  <1>3. HashTrue(p)' /\ NewIsYoungest(p)' /\ StaleRight(p)'
    BY <1>1, <1>2, Constant DEF HashTrue, NewIsYoungest, StaleRight
  <1>4. Limited(p)'
    BY <1>1, <1>2, Constant DEF Limited
  <1>5. Saved(p)'
    BY <1>1 DEF Saved, Near
  <1> QED
    BY <1>3, <1>4, <1>5 DEF Lasting

LEMMA TickLasting ==
    ASSUME TypeOK, NEW p \in Procs, Lasting(p), Tick \/ UNCHANGED vars
    PROVE  Lasting(p)'
  <1>0. ProcType /\ OtherType
    BY TypeParts
  <1>1. /\ UNCHANGED <<disk, older, hist, id, counter, hashes, pc, target, after, stale, skipped>>
        /\ clock \in Nat /\ (clock' = clock \/ clock' = clock + 1)
    BY <1>0 DEF Tick, vars, procVars, OtherType
  <1>2. /\ \A n \in Names : Load(n)' = Load(n) /\ disk'[n]["json"] = disk[n]["json"]
        /\ SessionsOnDisk' = SessionsOnDisk /\ \A m, n : Later(m, n)' <=> Later(m, n)
    BY <1>1, DiskSame
  <1>3. \A n \in Names : Hashed(p, n)' <=> Hashed(p, n)
    BY <1>1 DEF Hashed
  <1>4. \A n \in Names : n < clock => n < clock'
    BY <1>1, Constant DEF Names
  <1>5. HashTrue(p)'
    BY <1>1, <1>2, <1>3, <1>4 DEF Lasting, HashTrue
  <1>6. id[p] # NoId => id[p] \in Names
    BY <1>0, Constant DEF ProcType
  <1>7. Load(id[p])' = Load(id[p])
    BY <1>1 DEF Load, Exists
  <1>8. NewIsYoungest(p)'
    BY <1>1, <1>3, <1>7, Constant DEF Lasting, NewIsYoungest
  <1>9. StaleRight(p)'
    <2>1. \A n \in Ids : n \in Names /\ (Exists(n, "json")' <=> Exists(n, "json"))
      BY <1>1, Constant DEF Exists
    <2> QED
      BY <1>1, <1>3, <1>4, <2>1 DEF Lasting, StaleRight, ByAutosave
  <1>10. Limited(p)'
    BY <1>1, <1>2, <1>3, <1>7, Constant DEF Lasting, Limited, Few, ByAutosave, Doomed
  <1>11. Saved(p)'
    <2>1. \A k : Near(p, k)' <=> Near(p, k)
      BY <1>1, <1>2 DEF Near
    <2>2. Load(target[p])' = Load(target[p])
      BY <1>1 DEF Load, Exists
    <2> QED
      BY <1>1, <2>1, <2>2 DEF Lasting, Saved, ByAutosave
  <1> QED
    BY <1>5, <1>8, <1>9, <1>10, <1>11 DEF Lasting

(* When every write succeeds, what a crash of an idle process would lose   *)
(* of its conversation is less than Throttle turns and those that ended    *)
(* without an autosave since the last one that was due, however often      *)
(* sessions were loaded, rotated, dumped and cleaned up before.            *)
THEOREM LossIsBounded ==
    ASSUME Alone
    PROVE  Spec => []LossBounded
  <1> DEFINE Inv == TypeOK /\ Targets /\ Ordered /\ Clocked /\ JsonFirst /\ CanonicalIsNewest /\ LossInv
  <1>1. Init => Inv
    <2>1. ASSUME Init PROVE Ordered /\ Clocked /\ JsonFirst /\ CanonicalIsNewest
      BY <2>1, Constant
      DEF Init, Ordered, Strict, Clocked, Existing, Exists, Load, Hashed, NoId, JsonFirst, CanonicalIsNewest
    <2>2. ASSUME Init, NEW p \in Procs PROVE Lasting(p)
      <3>1. /\ hist[p].len = 0 /\ id[p] = NoId /\ counter[p] = 0 /\ skipped[p] = 0
            /\ stale[p] = {} /\ pc[p] = "idle"
            /\ after[p] = "return" /\ \A n \in Names : ~Hashed(p, n)
        BY <2>2 DEF Init, Begin, Hashed
      <3>2. HashTrue(p) /\ NewIsYoungest(p) /\ StaleRight(p)
        BY <3>1, Constant DEF HashTrue, NewIsYoungest, StaleRight
      <3>3. Limited(p)
        BY <3>1, Constant DEF Limited, ByAutosave
      <3>4. Saved(p)
        BY <3>1 DEF Saved, Near, ByAutosave
      <3> QED
        BY <3>2, <3>3, <3>4 DEF Lasting
    <2> QED
      BY <2>1, <2>2, InitType, InitConv DEF LossInv
  <1>2. Inv /\ [Next]_vars => Inv'
    <2> SUFFICES ASSUME Inv, [Next]_vars PROVE Inv'
      OBVIOUS
    <2>1. TypeOK' /\ Targets' /\ Ordered' /\ Clocked' /\ JsonFirst' /\ CanonicalIsNewest'
      BY TypeStep, TargetStep, OrderedStep, ClockedStep, CanonicalStep
    <2>2. ASSUME ~failed', NEW p \in Procs PROVE Lasting(p)'
      <3>1. ~failed
        BY <2>2, Zenon DEF Next, Command, Turn, QuietTurn, Clear, Dump, LoadAutosave, LoadContext, NewSessionId, Autosave,
           Throttled, AutosaveDue, Save, SaveUnchanged, SaveChanged, WriteJson, WritePkl, WriteFileThen,
           WriteMeta, WriteFails, Cleanup, CleanupScan, CleanupUnlink, CleanupDone, Return,
           RotateAndClear, Crash, Tick, vars
      <3>2. Lasting(p)
        BY <3>1 DEF LossInv
      <3>3. CASE Tick \/ UNCHANGED vars
        BY <3>2, <3>3, TickLasting
      <3>4. ASSUME NEW q \in Procs, \/ Command(q) \/ Autosave(q) \/ Save(q) \/ Cleanup(q)
                                    \/ Return(q) \/ RotateAndClear(q) \/ Crash(q)
            PROVE  Lasting(p)'
        <4>1. p = q
          BY DEF Alone
        <4>2. ~WriteFails(q)
          BY <2>2, Zenon DEF WriteFails
        <4> QED
          BY <2>1, <2>2, <3>2, <3>4, <4>1, <4>2, CommandLasting, SaveLasting, WriteLasting,
             CleanupLasting, CrashLasting DEF Save
      <3> QED
        BY <3>3, <3>4 DEF Next
    <2> QED
      BY <2>1, <2>2 DEF LossInv
  <1>3. Inv => LossBounded
    <2> SUFFICES ASSUME Inv, NEW p \in Procs, pc[p] = "idle", ~failed,
                        hist[p].len >= Throttle + skipped[p]
                 PROVE  \E l \in Persisted(hist[p].conv) : hist[p].len - l < Throttle + skipped[p]
      BY DEF LossBounded
    <2>0. DiskType /\ ProcType
      BY TypeParts
    <2>1. Near(p, counter[p])
      BY DEF LossInv, Lasting, Saved
    <2>2. counter[p] \in Nat /\ counter[p] < Throttle /\ hist[p].len \in Nat /\ skipped[p] \in Nat
      BY <2>0, Constant DEF ProcType
    <2>3. PICK n \in Names : /\ Load(n) # Nil /\ Load(n).conv = hist[p].conv
                             /\ hist[p].len <= Load(n).len + counter[p] + skipped[p]
      BY <2>1, <2>2, Constant DEF Near
    <2>4. Load(n).len \in Nat /\ Load(n).len \in Persisted(hist[p].conv)
      BY <2>0, <2>3, LoadParts, Constant DEF Persisted
    <2> QED
      BY <2>2, <2>3, <2>4, Constant
  <1> QED
    BY <1>1, <1>2, <1>3, PTL DEF Spec

=============================================================================
