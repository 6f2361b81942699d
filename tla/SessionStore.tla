---------------------------- MODULE SessionStore ----------------------------
(***************************************************************************)
(* Persistence of conversations: save_session, load_session and            *)
(* cleanup_sessions (session_storage.py), driven by the autosave of        *)
(* config/session.py, /clear, /dump_context and the loading of an          *)
(* autosave.  Every process of Procs works on the same autosave directory; *)
(* its history, autosave id, throttle counter and hash cache are lost when *)
(* it crashes.                                                             *)
(*                                                                         *)
(* A conversation is a number and its length in turns; a session name is   *)
(* the second in which its id was drawn from the clock, or Context for the *)
(* file /dump_context writes.  The files of a session are replaced one by  *)
(* one, each atomically, and a write may fail; the content of the metadata *)
(* file is not modelled, its write is.                                     *)
(***************************************************************************)
EXTENDS Naturals, FiniteSets

CONSTANTS Procs, Nil,
          Throttle,     \* _AUTOSAVE_THROTTLE
          MaxSessions,  \* max_saved_sessions; 0 keeps everything
          MaxClock, MaxTurns, MaxConvs,  \* bounds of the instance
          Commands      \* what the instance explores besides turns and /clear

ASSUME SessionStoreAssumption ==
    /\ Throttle \in Nat \ {0} /\ MaxSessions \in Nat
    /\ Commands \subseteq {"quiet", "dump", "load", "new", "crash", "fail"}
    /\ MaxClock \in Nat \ {0} /\ MaxTurns \in Nat /\ MaxConvs \in Nat

NoId == 0
Ids == 1..MaxClock
Context == MaxClock + 1
Names == Ids \cup {Context}
Files == {"json", "pkl"}
Histories == [conv : 1..MaxConvs, len : 0..MaxTurns]

ASSUME NilAssumption == Nil \notin Histories

VARIABLES clock,     \* the wall clock, in seconds
          convs,     \* how many conversations were begun
          disk,      \* disk[n][f]: the content of file f of session n, or Nil
          older,     \* pairs of existing files, the one with the older mtime first
          hist,      \* the message history of each process
          id,        \* _CURRENT_AUTOSAVE_ID
          counter,   \* _autosave_counter, modulo Throttle
          hashes,    \* _LAST_SAVED_HASHES
          pc,        \* the step each process is at
          target,    \* session_name in save_session
          after,     \* what follows the save: return, rotate or (a dump) return
          stale,     \* the files of stale_entries yet to be removed
          skipped,   \* history: turns that ended without an autosave since
                     \* the last autosave that was due
          reissued,  \* history: ids drawn while a file or a process had them
          failed     \* history: a write failed or a file could not be removed

procVars == <<hist, id, counter, hashes, pc, target, after, stale, skipped>>
vars == <<clock, convs, disk, older, procVars, reissued, failed>>

PCs == {"idle", "autosave", "save", "json", "pkl", "meta", "saved", "unlink", "done"}

Begin(c) == [conv |-> c, len |-> 0]
Exists(n, f) == disk[n][f] # Nil
Existing == {e \in Names \X Files : Exists(e[1], e[2])}
SessionsOnDisk == {n \in Ids : Exists(n, "json") \/ Exists(n, "pkl")}

(* load_session: the canonical file, else the compat one. *)
Load(n) == IF Exists(n, "json") THEN disk[n]["json"] ELSE disk[n]["pkl"]

TypeOK ==
    /\ clock \in 1..MaxClock /\ convs \in 0..MaxConvs
    /\ disk \in [Names -> [Files -> Histories \cup {Nil}]]
    /\ older \subseteq Existing \X Existing
    /\ hist \in [Procs -> Histories]
    /\ id \in [Procs -> Ids \cup {NoId}]
    /\ counter \in [Procs -> 0..(Throttle - 1)]
    /\ hashes \in [Procs -> [Names -> Histories \cup {Nil}]]
    /\ pc \in [Procs -> PCs]
    /\ target \in [Procs -> Names]
    /\ after \in [Procs -> {"return", "rotate", "dump"}]
    /\ stale \in [Procs -> SUBSET (Ids \X Files)] /\ skipped \in [Procs -> Nat]
    /\ reissued \subseteq Ids /\ failed \in BOOLEAN

Init == /\ clock = 1 /\ older = {} /\ reissued = {} /\ failed = FALSE
        /\ disk = [n \in Names |-> [f \in Files |-> Nil]]
        /\ \E number \in [Procs -> 1..MaxConvs] :
              /\ \A p, q \in Procs : number[p] = number[q] => p = q
              /\ \A p \in Procs : number[p] <= Cardinality(Procs)
              /\ hist = [p \in Procs |-> Begin(number[p])]
        /\ convs = Cardinality(Procs)
        /\ id = [p \in Procs |-> NoId]
        /\ counter = [p \in Procs |-> 0]
        /\ hashes = [p \in Procs |-> [n \in Names |-> Nil]]
        /\ pc = [p \in Procs |-> "idle"]
        /\ target = [p \in Procs |-> Context]
        /\ after = [p \in Procs |-> "return"]
        /\ stale = [p \in Procs |-> {}]
        /\ skipped = [p \in Procs |-> 0]
-----------------------------------------------------------------------------
Goto(p, label) == pc' = [pc EXCEPT ![p] = label]

(* The command is over, and its local variables with it. *)
Leave(p) == /\ Goto(p, "idle")
            /\ target' = [target EXCEPT ![p] = Context]
            /\ after' = [after EXCEPT ![p] = "return"]

(* os.replace of one file: its content and the newest mtime. *)
Replace(n, f, content) ==
    /\ disk' = [disk EXCEPT ![n][f] = content]
    /\ older' = {pair \in older : pair[1] # <<n, f>> /\ pair[2] # <<n, f>>}
                  \cup (Existing \ {<<n, f>>}) \X {<<n, f>>}
Unlink(n, fs) ==
    /\ disk' = [disk EXCEPT ![n] = [f \in Files |-> IF f \in fs THEN Nil ELSE @[f]]]
    /\ older' = {pair \in older : pair[1] \notin {n} \X fs /\ pair[2] \notin {n} \X fs}

(* The file whose mtime stands for a session, and the order of sessions.  *)
Dated(n) == <<n, IF Exists(n, "pkl") THEN "pkl" ELSE "json">>
Later(m, n) == <<Dated(n), Dated(m)>> \in older
StaleBeyond(limit) ==
    {n \in SessionsOnDisk : Cardinality({m \in SessionsOnDisk : Later(m, n)}) >= limit}

(* An id is taken from the clock, whatever sessions exist already. *)
DrawId(p) ==
    /\ id' = [id EXCEPT ![p] = clock]
    /\ reissued' = IF clock \in SessionsOnDisk \/ \E q \in Procs \ {p} : id[q] = clock
                     THEN reissued \cup {clock} ELSE reissued
-----------------------------------------------------------------------------
(* A turn of the conversation, and auto_save_session_if_enabled after it; *)
(* one that fails early adds nothing.                                     *)
Turn(p) ==
    /\ pc[p] = "idle"
    /\ \E added \in {0, 1} :
          /\ hist[p].len + added <= MaxTurns
          /\ hist' = [hist EXCEPT ![p].len = @ + added]
    /\ after' = [after EXCEPT ![p] = "return"]
    /\ Goto(p, "autosave")
    /\ UNCHANGED <<clock, convs, disk, older, id, counter, hashes, target, stale, skipped, reissued, failed>>

(* A turn without an autosave: the initial command, and a run that was     *)
(* cancelled or met its usage limit.                                       *)
QuietTurn(p) ==
    /\ "quiet" \in Commands /\ pc[p] = "idle" /\ hist[p].len < MaxTurns
    /\ hist' = [hist EXCEPT ![p].len = @ + 1]
    /\ skipped' = [skipped EXCEPT ![p] = @ + 1]
    /\ UNCHANGED <<clock, convs, disk, older, id, counter, hashes, pc, target, after, stale, reissued, failed>>

(* /clear: finalize_autosave_session, then clear_message_history. *)
Clear(p) ==
    /\ pc[p] = "idle"
    /\ after' = [after EXCEPT ![p] = "rotate"]
    /\ Goto(p, "autosave")
    /\ UNCHANGED <<clock, convs, disk, older, hist, id, counter, hashes, target, stale, skipped, reissued, failed>>

ThrottledForGood(p) ==              \* faulty: the counter never advances
    /\ pc[p] = "autosave" /\ (counter[p] + 1) % Throttle # 0
    /\ Goto(p, "done")
    /\ UNCHANGED <<clock, convs, disk, older, hist, id, counter, hashes, target, after, stale, skipped, reissued, failed>>

(* auto_save_session_if_enabled up to the call of save_session: one call   *)
(* in Throttle goes on, with the id of this process, drawn now if need be. *)
Throttled(p) ==
    /\ pc[p] = "autosave" /\ (counter[p] + 1) % Throttle # 0
    /\ counter' = [counter EXCEPT ![p] = @ + 1]
    /\ Goto(p, "done")
    /\ UNCHANGED <<clock, convs, disk, older, hist, id, hashes, target, after, stale, skipped, reissued, failed>>

AutosaveDueNoWrap(p) ==             \* faulty: the counter is not reset
    /\ pc[p] = "autosave" /\ (counter[p] + 1) % Throttle = 0
    /\ counter' = [counter EXCEPT ![p] = @ + 1]
    /\ Goto(p, "done")
    /\ UNCHANGED <<clock, convs, disk, older, hist, id, hashes, target, after, stale, skipped, reissued, failed>>

AutosaveDue(p) ==
    /\ pc[p] = "autosave" /\ (counter[p] + 1) % Throttle = 0
    /\ counter' = [counter EXCEPT ![p] = 0]
    /\ skipped' = [skipped EXCEPT ![p] = 0]
    /\ \/ /\ hist[p].len = 0
          /\ Goto(p, "done")
          /\ UNCHANGED <<id, reissued, target>>
       \/ /\ hist[p].len > 0
          /\ IF id[p] = NoId THEN DrawId(p) ELSE UNCHANGED <<id, reissued>>
          /\ target' = [target EXCEPT ![p] = id'[p]]
          /\ Goto(p, "save")
    /\ UNCHANGED <<clock, convs, disk, older, hist, hashes, after, stale, failed>>

(* /dump_context: save_session into the directory of contexts. *)
Dump(p) ==
    /\ "dump" \in Commands /\ pc[p] = "idle" /\ hist[p].len > 0
    /\ target' = [target EXCEPT ![p] = Context]
    /\ after' = [after EXCEPT ![p] = "dump"]
    /\ Goto(p, "save")
    /\ UNCHANGED <<clock, convs, disk, older, hist, id, counter, hashes, stale, skipped, reissued, failed>>

(* save_session: nothing to do when the data has the hash of the last      *)
(* save; otherwise the hash is recorded first, ...                         *)
SaveUnchanged(p) ==
    /\ pc[p] = "save" /\ hashes[p][target[p]] = hist[p]
    /\ Goto(p, "saved")
    /\ UNCHANGED <<clock, convs, disk, older, hist, id, counter, hashes, target, after, stale, skipped, reissued, failed>>

SaveChangedCompatFirst(p) ==        \* faulty: the compat file is written first
    /\ pc[p] = "save" /\ hashes[p][target[p]] # hist[p]
    /\ hashes' = [hashes EXCEPT ![p][target[p]] = hist[p]]
    /\ Replace(target[p], "pkl", hist[p])
    /\ Goto(p, "json")
    /\ UNCHANGED <<clock, convs, hist, id, counter, target, after, stale, skipped, reissued, failed>>
SaveChanged(p) ==
    /\ pc[p] = "save" /\ hashes[p][target[p]] # hist[p]
    /\ hashes' = [hashes EXCEPT ![p][target[p]] = hist[p]]
    /\ Goto(p, "json")
    /\ UNCHANGED <<clock, convs, disk, older, hist, id, counter, target, after, stale, skipped, reissued, failed>>

(* ... then the files are replaced in turn. *)
WriteFileThen(p, f, next) ==
    /\ pc[p] = f
    /\ Replace(target[p], f, hist[p])
    /\ Goto(p, next)
    /\ UNCHANGED <<clock, convs, hist, id, counter, hashes, target, after, stale, skipped, reissued, failed>>
WriteJson(p) == WriteFileThen(p, "json", "pkl")
WritePkl(p) == WriteFileThen(p, "pkl", "meta")
WriteMeta(p) ==
    /\ pc[p] = "meta"
    /\ Goto(p, "saved")
    /\ UNCHANGED <<clock, convs, disk, older, hist, id, counter, hashes, target, after, stale, skipped, reissued, failed>>

(* A write raises: the caller reports the failure and goes on. *)
WriteFails(p) ==
    /\ "fail" \in Commands /\ pc[p] \in {"json", "pkl", "meta"}
    /\ failed' = TRUE
    /\ Goto(p, "done")
    /\ UNCHANGED <<clock, convs, disk, older, hist, id, counter, hashes, target, after, stale, skipped, reissued>>

(* cleanup_sessions after an autosave: the sessions beyond the newest      *)
(* MaxSessions are chosen, ...                                             *)
CleanupScan(p) ==
    /\ pc[p] = "saved"
    /\ stale' = [stale EXCEPT ![p] = IF after[p] = "dump" \/ MaxSessions = 0
                                     THEN {} ELSE StaleBeyond(MaxSessions) \X Files]
    /\ Goto(p, "unlink")
    /\ UNCHANGED <<clock, convs, disk, older, hist, id, counter, hashes, target, after, skipped, reissued, failed>>

(* ... and removed file by file, the canonical file of a session before    *)
(* the compat one; an unlink that fails is skipped.                        *)
CleanupUnlink(p) ==
    /\ pc[p] = "unlink"
    /\ \E n \in Ids, f \in Files :
          /\ <<n, f>> \in stale[p] /\ (f = "pkl" => <<n, "json">> \notin stale[p])
          /\ stale' = [stale EXCEPT ![p] = @ \ {<<n, f>>}]
          /\ \/ Unlink(n, {f}) /\ UNCHANGED failed
             \/ "fail" \in Commands /\ Exists(n, f) /\ failed' = TRUE /\ UNCHANGED <<disk, older>>
    /\ UNCHANGED <<clock, convs, hist, id, counter, hashes, pc, target, after, skipped, reissued>>

CleanupDone(p) ==
    /\ pc[p] = "unlink" /\ stale[p] = {}
    /\ Goto(p, "done")
    /\ UNCHANGED <<clock, convs, disk, older, hist, id, counter, hashes, target, after, stale, skipped, reissued, failed>>

(* Back in the caller: /clear rotates the id and empties the history. *)
Return(p) ==
    /\ pc[p] = "done" /\ after[p] # "rotate"
    /\ Leave(p)
    /\ UNCHANGED <<clock, convs, disk, older, hist, id, counter, hashes, stale, skipped, reissued, failed>>

RotateAndClear(p) ==
    /\ pc[p] = "done" /\ after[p] = "rotate" /\ convs < MaxConvs
    /\ DrawId(p)
    /\ convs' = convs + 1
    /\ hist' = [hist EXCEPT ![p] = Begin(convs + 1)]
    /\ Leave(p)
    /\ skipped' = [skipped EXCEPT ![p] = 0]
    /\ UNCHANGED <<clock, disk, older, counter, hashes, stale, failed>>
-----------------------------------------------------------------------------
LoadAutosaveKeepsId(p) ==           \* faulty: autosaves go on under the old id
    /\ "load" \in Commands /\ pc[p] = "idle"
    /\ \E n \in SessionsOnDisk : hist' = [hist EXCEPT ![p] = Load(n)]
    /\ UNCHANGED <<clock, convs, disk, older, id, counter, hashes, pc, target, after, stale, skipped, reissued, failed>>

(* Loading an autosave: later autosaves go to the same session. *)
LoadAutosave(p) ==
    /\ "load" \in Commands /\ pc[p] = "idle"
    /\ \E n \in SessionsOnDisk :
          /\ hist' = [hist EXCEPT ![p] = Load(n)]
          /\ id' = [id EXCEPT ![p] = n]
    /\ skipped' = [skipped EXCEPT ![p] = 0]
    /\ UNCHANGED <<clock, convs, disk, older, counter, hashes, pc, target, after, stale, reissued, failed>>

(* /load_context: later autosaves go to a new session. *)
LoadContext(p) ==
    /\ pc[p] = "idle" /\ Load(Context) # Nil
    /\ hist' = [hist EXCEPT ![p] = Load(Context)]
    /\ DrawId(p)
    /\ skipped' = [skipped EXCEPT ![p] = 0]
    /\ UNCHANGED <<clock, convs, disk, older, counter, hashes, pc, target, after, stale, failed>>

(* /session new: the conversation goes on under another id. *)
NewSessionId(p) ==
    /\ "new" \in Commands /\ pc[p] = "idle"
    /\ DrawId(p)
    /\ UNCHANGED <<clock, convs, disk, older, hist, counter, hashes, pc, target, after, stale, skipped, failed>>

(* The process dies anywhere and is started again with an empty history. *)
Crash(p) ==
    /\ "crash" \in Commands /\ convs < MaxConvs
    /\ convs' = convs + 1
    /\ hist' = [hist EXCEPT ![p] = Begin(convs + 1)]
    /\ id' = [id EXCEPT ![p] = NoId]
    /\ counter' = [counter EXCEPT ![p] = 0]
    /\ hashes' = [hashes EXCEPT ![p] = [n \in Names |-> Nil]]
    /\ stale' = [stale EXCEPT ![p] = {}]
    /\ Leave(p)
    /\ skipped' = [skipped EXCEPT ![p] = 0]
    /\ UNCHANGED <<clock, disk, older, reissued, failed>>

Tick == /\ clock < MaxClock
        /\ clock' = clock + 1
        /\ UNCHANGED <<convs, disk, older, procVars, reissued, failed>>

Autosave(p) == Throttled(p) \/ AutosaveDue(p)
Save(p) == \/ SaveUnchanged(p) \/ SaveChanged(p) \/ WriteJson(p) \/ WritePkl(p)
           \/ WriteMeta(p) \/ WriteFails(p)
Cleanup(p) == CleanupScan(p) \/ CleanupUnlink(p) \/ CleanupDone(p)
Command(p) == \/ Turn(p) \/ QuietTurn(p) \/ Clear(p) \/ Dump(p) \/ LoadAutosave(p) \/ LoadContext(p)
              \/ NewSessionId(p)

Next == \/ \E p \in Procs : \/ Command(p) \/ Autosave(p) \/ Save(p) \/ Cleanup(p)
                            \/ Return(p) \/ RotateAndClear(p) \/ Crash(p)
        \/ Tick

Spec == Init /\ [][Next]_vars
-----------------------------------------------------------------------------
(* The files of a session are written in an order load_session can rely    *)
(* on: whatever write failed or crash came between, when the canonical and *)
(* the compat file differ the canonical one is the newer.                  *)
CanonicalIsNewest ==
    \A n \in Names :
        Exists(n, "json") /\ Exists(n, "pkl") /\ disk[n]["json"] # disk[n]["pkl"]
            => <<<<n, "pkl">>, <<n, "json">>>> \in older

(* A saved conversation is never overwritten by another one, unless the    *)
(* clock handed out the id of an existing session a second time.           *)
NoClobber ==
    [][\A n \in Ids : Load(n) # Nil /\ Load(n)' # Nil /\ Load(n)'.conv # Load(n).conv
                          => n \in reissued]_vars

(* When every write succeeds, what a crash of an idle process would lose   *)
(* of the conversation is less than Throttle turns and those that ended    *)
(* without an autosave since the last one that was due.                    *)
Persisted(c) == {Load(n).len : n \in {m \in Names : Load(m) # Nil /\ Load(m).conv = c}}
LossBounded ==
    \A p \in Procs :
        LET lost == Throttle + skipped[p]
        IN  pc[p] = "idle" /\ ~failed /\ hist[p].len >= lost
               => \E l \in Persisted(hist[p].conv) : hist[p].len - l < lost

(* "skip disk writes if the session data is unchanged": a save that        *)
(* reports success leaves the history on disk.                             *)
SavedMeansOnDisk ==
    \A p \in Procs : pc[p] = "saved" => Load(target[p]) = hist[p]
=============================================================================
