-------------------------- MODULE InterpreterPool --------------------------
(***************************************************************************)
(* The keep-alive pool of PEP 734 sub-interpreters (interpreter_pool.py).  *)
(*                                                                         *)
(* Each element of Calls is one execution of run_module_function, in a     *)
(* thread of its own, with its own watcher timer.  The pool's lock makes   *)
(* the bodies of _acquire, of the second half of _release and of the drain *)
(* in shutdown atomic; _closed is read and written outside the lock, and   *)
(* the timer's callback runs beside everything else.                       *)
(***************************************************************************)
EXTENDS Naturals, Sequences, FiniteSets

CONSTANTS Calls,        \* the calls of run_module_function
          Interps,      \* the interpreters the process may create
          NoInterp,     \* the value of interp before _acquire
          MaxWorkers,   \* capacity of the pool
          KeepAlive     \* the keep_alive argument of the constructor

ASSUME InterpreterPoolAssumption ==
    /\ NoInterp \notin Interps
    /\ MaxWorkers \in Nat \ {0}
    /\ KeepAlive \in BOOLEAN

VARIABLES pool,      \* _pool, a deque of interpreters
          created,   \* the interpreters created so far
          dead,      \* the interpreters destroyed by close()
          closed,    \* _closed
          drained,   \* shutdown has emptied the pool
          pc,        \* where each call is in run_module_function
          interp,    \* the local variable interp of each call
          timer,     \* the watcher of each call
          timedOut,  \* the local variable timed_out of each call
          answer,   \* the dict each call returns, by its error
          late       \* history: what a call held between the _closed test and
                     \* the append of _release when shutdown set _closed

callVars == <<pc, interp, timer, timedOut, answer>>
poolVars == <<pool, created, dead, closed, drained, callVars, late>>

PCs == {"idle", "acquired", "watched", "exec", "returned", "finally",
        "release", "append", "done"}
Timers == {"off", "armed", "firing", "fired", "cancelled"}
Outcomes == {"none", "ok", "timeout", "failed"}

Pooled == {pool[k] : k \in 1..Len(pool)}
Holding(c) == pc[c] \notin {"idle", "done"}
Distinct == \A j, k \in 1..Len(pool) : pool[j] = pool[k] => j = k
Running(i) == \E c \in Calls : pc[c] = "exec" /\ interp[c] = i

PoolInit == /\ pool = <<>> /\ created = {} /\ dead = {}
            /\ closed = FALSE /\ drained = FALSE /\ late = {}
            /\ pc = [c \in Calls |-> "idle"]
            /\ interp = [c \in Calls |-> NoInterp]
            /\ timer = [c \in Calls |-> "off"]
            /\ timedOut = [c \in Calls |-> FALSE]
            /\ answer = [c \in Calls |-> "none"]
-----------------------------------------------------------------------------
(* The locked half of _release, for a pool that keeps the interpreter,    *)
(* one that closes it, or both.                                            *)
ReleaseAppendWith(c, keeps, closes) ==
    /\ pc[c] = "append"
    /\ pool' = IF keeps THEN Append(pool, interp[c]) ELSE pool
    /\ dead' = IF closes THEN dead \cup {interp[c]} ELSE dead
    /\ pc' = [pc EXCEPT ![c] = "done"]
    /\ UNCHANGED <<created, closed, drained, interp, timer, timedOut, answer, late>>

(* Faulty variants of the actions below, one per property; PoolNext uses none. *)
AcquirePooledPeek(c) ==          \* pool[0] instead of popleft()
    /\ pc[c] = "idle" /\ pool # <<>>
    /\ interp' = [interp EXCEPT ![c] = Head(pool)]
    /\ pc' = [pc EXCEPT ![c] = "acquired"]
    /\ UNCHANGED <<pool, created, dead, closed, drained, timer, timedOut, answer, late>>

AcquireFreshUnset(c) ==          \* the fresh interpreter is not returned
    /\ pc[c] = "idle" /\ pool = <<>>
    /\ \E i \in Interps \ created : created' = created \cup {i}
    /\ pc' = [pc EXCEPT ![c] = "acquired"]
    /\ UNCHANGED <<pool, dead, closed, drained, interp, timer, timedOut, answer, late>>

AcquireFreshCapped(c) ==         \* creation limited by max_workers
    /\ pc[c] = "idle" /\ pool = <<>> /\ Cardinality(created) < MaxWorkers
    /\ \E i \in Interps \ created :
          /\ interp' = [interp EXCEPT ![c] = i]
          /\ created' = created \cup {i}
    /\ pc' = [pc EXCEPT ![c] = "acquired"]
    /\ UNCHANGED <<pool, dead, closed, drained, timer, timedOut, answer, late>>

ReleaseKeepUnchecked(c) ==       \* _closed is not tested
    /\ pc[c] = "release" /\ KeepAlive
    /\ pc' = [pc EXCEPT ![c] = "append"]
    /\ UNCHANGED <<pool, created, dead, closed, drained, interp, timer, timedOut, answer, late>>

ReleaseAppendDropsSurplus(c) == ReleaseAppendWith(c, Len(pool) < MaxWorkers, FALSE)
ReleaseAppendClosesAll(c) == ReleaseAppendWith(c, Len(pool) < MaxWorkers, TRUE)
-----------------------------------------------------------------------------
(* _acquire: the oldest pooled interpreter, or a fresh one.  Nothing tests *)
(* _closed or whether the pooled interpreter is still alive.               *)
AcquirePooled(c) ==
    /\ pc[c] = "idle" /\ pool # <<>>
    /\ interp' = [interp EXCEPT ![c] = Head(pool)]
    /\ pool' = Tail(pool)
    /\ pc' = [pc EXCEPT ![c] = "acquired"]
    /\ UNCHANGED <<created, dead, closed, drained, timer, timedOut, answer, late>>

AcquireFresh(c) ==
    /\ pc[c] = "idle" /\ pool = <<>>
    /\ \E i \in Interps \ created :
          /\ interp' = [interp EXCEPT ![c] = i]
          /\ created' = created \cup {i}
    /\ pc' = [pc EXCEPT ![c] = "acquired"]
    /\ UNCHANGED <<pool, dead, closed, drained, timer, timedOut, answer, late>>

(* Whatever raises between _acquire and the return, the except clause      *)
(* answers "Subinterpreter execution failed".                              *)
Fail(c) == /\ pc' = [pc EXCEPT ![c] = "finally"]
           /\ answer' = [answer EXCEPT ![c] = "failed"]

(* json.dumps and prepare_main, then the start of the watcher.  Each of    *)
(* them may raise; on a destroyed interpreter prepare_main always does.    *)
Prepare(c) ==
    /\ pc[c] = "acquired"
    /\ \/ /\ Fail(c)
          /\ UNCHANGED timer
       \/ /\ interp[c] \notin dead
          /\ pc' = [pc EXCEPT ![c] = "watched"]
          /\ timer' = [timer EXCEPT ![c] = "armed"]
          /\ UNCHANGED answer
    /\ UNCHANGED <<pool, created, dead, closed, drained, interp, timedOut, late>>

(* interp.exec(bootstrap): it starts, ... *)
ExecStart(c) ==
    /\ pc[c] = "watched"
    /\ \/ interp[c] \in dead /\ Fail(c)
       \/ /\ interp[c] \notin dead
          /\ pc' = [pc EXCEPT ![c] = "exec"]
          /\ UNCHANGED answer
    /\ UNCHANGED <<pool, created, dead, closed, drained, interp, timer, timedOut, late>>

(* ... ends when the tool does, or raises on a live interpreter what the   *)
(* bootstrap does not catch: a BaseException of the tool, or an error in   *)
(* writing the result or the captured output, ...                          *)
ExecReturn(c) ==
    /\ pc[c] = "exec" /\ interp[c] \notin dead
    /\ \/ pc' = [pc EXCEPT ![c] = "returned"] /\ UNCHANGED answer
       \/ Fail(c)
    /\ UNCHANGED <<pool, created, dead, closed, drained, interp, timer, timedOut, late>>

(* ... or raises because the interpreter was destroyed under it. *)
ExecAborted(c) ==
    /\ pc[c] = "exec" /\ interp[c] \in dead
    /\ Fail(c)
    /\ UNCHANGED <<pool, created, dead, closed, drained, interp, timer, timedOut, late>>

(* The test of timed_out and the return statements after it. *)
Report(c) ==
    /\ pc[c] = "returned"
    /\ pc' = [pc EXCEPT ![c] = "finally"]
    /\ answer' = [answer EXCEPT ![c] = IF timedOut[c] THEN "timeout" ELSE "ok"]
    /\ UNCHANGED <<pool, created, dead, closed, drained, interp, timer, timedOut, late>>

(* The finally clause: cancel() stops a timer that has not fired, and only *)
(* that one.                                                               *)
CancelWatcher(c) ==
    /\ pc[c] = "finally"
    /\ pc' = [pc EXCEPT ![c] = "release"]
    /\ timer' = [timer EXCEPT ![c] = IF @ = "armed" THEN "cancelled" ELSE @]
    /\ UNCHANGED <<pool, created, dead, closed, drained, interp, timedOut, answer, late>>

(* _release: the test of _closed, without the lock, ... *)
ReleaseClose(c) ==
    /\ pc[c] = "release" /\ (closed \/ ~KeepAlive)
    /\ dead' = dead \cup {interp[c]}
    /\ pc' = [pc EXCEPT ![c] = "done"]
    /\ UNCHANGED <<pool, created, closed, drained, interp, timer, timedOut, answer, late>>

ReleaseKeep(c) ==
    /\ pc[c] = "release" /\ ~closed /\ KeepAlive
    /\ pc' = [pc EXCEPT ![c] = "append"]
    /\ UNCHANGED <<pool, created, dead, closed, drained, interp, timer, timedOut, answer, late>>

(* ... then, under the lock, the append or the close of the surplus one. *)
ReleaseAppend(c) == ReleaseAppendWith(c, Len(pool) < MaxWorkers, Len(pool) >= MaxWorkers)
-----------------------------------------------------------------------------
(* _timeout_kill, in the timer's thread: it sets timed_out, ... *)
TimerFire(c) ==
    /\ timer[c] = "armed"
    /\ timer' = [timer EXCEPT ![c] = "firing"]
    /\ timedOut' = [timedOut EXCEPT ![c] = TRUE]
    /\ UNCHANGED <<pool, created, dead, closed, drained, pc, interp, answer, late>>

(* ... and closes the interpreter the call acquired, which it may have    *)
(* released since.  Closing a running interpreter may abort it or raise;   *)
(* the callback suppresses the exception.                                  *)
TimerClose(c) ==
    /\ timer[c] = "firing"
    /\ timer' = [timer EXCEPT ![c] = "fired"]
    /\ \/ dead' = dead \cup {interp[c]}
       \/ Running(interp[c]) /\ UNCHANGED dead
    /\ UNCHANGED <<pool, created, closed, drained, pc, interp, timedOut, answer, late>>

(* shutdown: _closed without the lock, then the drain under it. *)
ShutdownFlag ==
    /\ ~closed
    /\ closed' = TRUE
    /\ late' = {interp[c] : c \in {d \in Calls : pc[d] = "append"}}
    /\ UNCHANGED <<pool, created, dead, drained, callVars>>

ShutdownDrain ==
    /\ closed /\ ~drained
    /\ dead' = dead \cup Pooled
    /\ pool' = <<>>
    /\ drained' = TRUE
    /\ UNCHANGED <<created, closed, callVars, late>>
-----------------------------------------------------------------------------
Step(c) == \/ AcquirePooled(c) \/ AcquireFresh(c) \/ Prepare(c) \/ ExecStart(c)
           \/ ExecAborted(c) \/ Report(c) \/ CancelWatcher(c)
           \/ ReleaseClose(c) \/ ReleaseKeep(c) \/ ReleaseAppend(c)
Timer(c) == TimerFire(c) \/ TimerClose(c)
Shutdown == ShutdownFlag \/ ShutdownDrain

PoolNext == \/ \E c \in Calls : Step(c) \/ ExecReturn(c) \/ Timer(c)
            \/ Shutdown

PoolSpec == PoolInit /\ [][PoolNext]_poolVars

(* Threads are scheduled, a timer that is not cancelled fires, and the     *)
(* thread that calls shutdown gets through it.  The tool itself promises   *)
(* nothing: a tool that loops forever never returns.                       *)
PoolFairness == /\ \A c \in Calls : WF_poolVars(Step(c)) /\ WF_poolVars(Timer(c))
                /\ WF_poolVars(ShutdownDrain)
PoolFairSpec == PoolSpec /\ PoolFairness
ToolsReturn == \A c \in Calls : WF_poolVars(ExecReturn(c))
-----------------------------------------------------------------------------
PoolTypeOK == /\ pool \in Seq(Interps)
              /\ created \subseteq Interps /\ dead \subseteq Interps
              /\ closed \in BOOLEAN /\ drained \in BOOLEAN
              /\ pc \in [Calls -> PCs]
              /\ interp \in [Calls -> Interps \cup {NoInterp}]
              /\ \A c \in Calls : pc[c] # "idle" => interp[c] \in Interps
              /\ \A c \in Calls : timer[c] # "off" => pc[c] # "idle"
              /\ timer \in [Calls -> Timers]
              /\ timedOut \in [Calls -> BOOLEAN]
              /\ answer \in [Calls -> Outcomes]
              /\ late \subseteq Interps

(* An interpreter is used by one call at a time: two calls in progress     *)
(* never hold the same one, a pooled one is held by nobody, and the pool   *)
(* never holds one twice.  This is what _acquire and _release promise the  *)
(* code between them, across every path through run_module_function.       *)
Exclusive ==
    /\ \A c, d \in Calls : Holding(c) /\ Holding(d) /\ interp[c] = interp[d] => c = d
    /\ \A c \in Calls : Holding(c) => interp[c] \notin Pooled
    /\ Distinct

(* The keep-alive pool never outgrows max_workers although releases race.  *)
PoolBounded == Len(pool) <= MaxWorkers

(* No interpreter is forgotten: one that is still alive is either pooled   *)
(* or held by a call that will release it.  (The finally clause of         *)
(* run_module_function and the surplus branch of _release.)                *)
NoForgotten ==
    \A i \in created \ dead : i \in Pooled \/ \E c \in Calls : Holding(c) /\ interp[c] = i

(* An interpreter is destroyed under a call only by a watcher that was     *)
(* armed for that very interpreter, by this call or by one that held it    *)
(* before: release never pools an interpreter it closed itself, and        *)
(* shutdown never closes one that is in use.  (_release, shutdown and      *)
(* _timeout_kill are the three places that close.)                         *)
DestroyedOnlyByTimeout ==
    \A c \in Calls : Holding(c) /\ interp[c] \in dead =>
        \E d \in Calls : timedOut[d] /\ interp[d] = interp[c]

(* After the drain of shutdown the pool holds only what a release that had *)
(* already passed the test of _closed appends afterwards.                  *)
OnlyLateReleasesSurviveShutdown == drained => Pooled \subseteq late

(* If every tool returns, so does every call: nobody waits for the pool,   *)
(* whatever times out and whenever shutdown comes.                         *)
CallsReturn == \A c \in Calls : <>(pc[c] = "done")
=============================================================================
