----------------------------- MODULE SubAgents -----------------------------
(***************************************************************************)
(* invoke_agent (tools/agent_tools.py): an agent, Main or itself a         *)
(* subagent, hands a prompt to another one, several at a time.  All of     *)
(* them share the session context of the message bus, from which the       *)
(* blackboard takes the scope of an artifact, the cache of built agents,   *)
(* and the files with the subagents' sessions.                             *)
(*                                                                         *)
(* A message is <<i, k>>, the one invocation i brought to its k-th         *)
(* request; a history is the set of its messages.  A built agent filters   *)
(* its requests through the history of the invocation that built it, and   *)
(* the history processor may drop messages of that history for good.       *)
(***************************************************************************)
EXTENDS Naturals, FiniteSets, SequencesExt

CONSTANTS Invocations, \* the calls of invoke_agent
          Main,        \* the main agent
          NoSession,   \* the session context outside any subagent
          Agents,      \* the names of the agents that may be invoked
          CacheMax,    \* _SUBAGENT_AGENT_CACHE_MAX
          MaxTurns,    \* bound on the requests of an invocation
          MaxDropped   \* bound on the messages dropped by the processor

Nodes == Invocations \cup {Main}

ASSUME SubAgentsAssumption ==
    /\ Main \notin Invocations /\ NoSession \notin Invocations
    /\ CacheMax \in Nat \ {0} /\ MaxTurns \in Nat \ {0} /\ MaxDropped \in Nat

VARIABLES pc,         \* where each invocation is
          parent,     \* the agent that calls the tool
          name,       \* agent_name
          session,    \* session_id, named after the invocation that opened it
          loaded,     \* the local variable message_history
          previous,   \* previous_session_id
          built,      \* the invocation whose configuration temp_agent is bound to
          held,       \* agent_config._message_history of each invocation
          messages,   \* the messages of the run in progress
          requests,   \* history: the requests each invocation has made
          shed,       \* history: what the processor ever dropped from held
          context,    \* _current_session_id of the bus
          cache,      \* _subagent_agent_cache: its builders, oldest first
          files,      \* the saved history of each session
          overlapped, \* history: two invocations of one agent ran side by side
          mixed       \* history: a run used an agent built for another session

input == <<parent, name, session, loaded>>
ghosts == <<overlapped, mixed>>
counts == <<requests, shed>>
vars == <<pc, input, previous, built, held, messages, counts, context, cache, files,
          ghosts>>

PCs == {"idle", "loaded", "running", "done"}
Messages == Invocations \X (0..MaxTurns)
Turns(i) == {m \in messages[i] : m[1] = i}
Said(i) == {m \in messages[i] \cup shed[i] : m[1] = i}

SessionOf(x) == IF x = Main THEN NoSession ELSE session[x]
Active(x) == x # Main => pc[x] = "running"
Children(x) == {i \in Invocations : pc[i] = "running" /\ parent[i] = x}
Innermost(x) == Active(x) /\ Children(x) = {}
Called(x) == {i \in Invocations : pc[i] \in {"loaded", "running"} /\ parent[i] = x}

Init == /\ pc = [i \in Invocations |-> "idle"]
        /\ parent = [i \in Invocations |-> Main]
        /\ name \in [Invocations -> Agents]
        /\ session = [i \in Invocations |-> i]
        /\ loaded = [i \in Invocations |-> {}]
        /\ previous = [i \in Invocations |-> NoSession]
        /\ built = [i \in Invocations |-> i]
        /\ held = [i \in Invocations |-> {}]
        /\ messages = [i \in Invocations |-> {}]
        /\ requests = [i \in Invocations |-> 0]
        /\ shed = [i \in Invocations |-> {}]
        /\ context = NoSession
        /\ cache = <<>>
        /\ files = [i \in Invocations |-> {}]
        /\ overlapped = FALSE /\ mixed = FALSE
-----------------------------------------------------------------------------
(* The tool is called, for a session of its own or one with a file, which  *)
(* is loaded; then the invoke_agent hooks may suspend the call.            *)
Load(i, x) ==
    /\ pc[i] = "idle" /\ Active(x)
    /\ pc' = [pc EXCEPT ![i] = "loaded"]
    /\ parent' = [parent EXCEPT ![i] = x]
    /\ \E s \in {i} \cup {j \in Invocations : files[j] # {}} :
          /\ session' = [session EXCEPT ![i] = s]
          /\ loaded' = [loaded EXCEPT ![i] = files[s]]
    /\ UNCHANGED <<name, previous, built, held, messages, counts, context, cache,
                   files, ghosts>>

(* The key of the cache: here only the name tells agents apart.            *)
Cached(i) == {k \in 1..Len(cache) : name[cache[k]] = name[i]}

(* The rest of invoke_agent up to the run: the context is switched, the    *)
(* configuration gets the loaded history, the agent is found or built.     *)
EnterWith(i, builder, newCache) ==
    /\ pc[i] = "loaded"
    /\ pc' = [pc EXCEPT ![i] = "running"]
    /\ previous' = [previous EXCEPT ![i] = context]
    /\ context' = session[i]
    /\ held' = [held EXCEPT ![i] = loaded[i]]
    /\ messages' = [messages EXCEPT ![i] = loaded[i]]
    /\ built' = [built EXCEPT ![i] = builder]
    /\ cache' = newCache
    /\ overlapped' = (overlapped \/ Children(parent[i]) # {})
    /\ mixed' = (mixed \/ session[builder] # session[i])
    /\ UNCHANGED <<input, counts, files>>

EnterCached(i) ==
    \E k \in Cached(i) : EnterWith(i, cache[k], Append(RemoveAt(cache, k), cache[k]))

(* faulty: the cache only grows.                                           *)
EnterBuiltUnbounded(i) ==
    /\ Cached(i) = {}
    /\ EnterWith(i, i, Append(cache, i))

EnterBuilt(i) ==
    /\ Cached(i) = {}
    /\ EnterWith(i, i, Append(IF Len(cache) >= CacheMax THEN Tail(cache) ELSE cache, i))

(* /agent_factory clears the cache between two prompts.                    *)
ClearCache ==
    /\ cache # <<>> /\ Children(Main) = {}
    /\ cache' = <<>>
    /\ UNCHANGED <<pc, input, previous, built, held, messages, counts, context, files,
                   ghosts>>
-----------------------------------------------------------------------------
(* A request to the model, with the prompt (which brings nothing if its     *)
(* hash is in the history already) or the results of tools.  The processor *)
(* merges the messages of the run, save those it dropped, unless their     *)
(* hashes were not recorded; it may drop some of the outcome (compaction,  *)
(* the size gate, the pruning of calls), and what is left becomes the      *)
(* history of the run.                                                     *)
Turn(i) ==
    LET b == built[i]
        new == <<i, requests[i] + 1>>
    IN  /\ pc[i] = "running" /\ Called(i) = {} /\ requests[i] < MaxTurns
        /\ requests' = [requests EXCEPT ![i] = @ + 1]
        /\ \E back \in SUBSET (messages[i] \cap shed[b]),
              said \in {{new}} \cup (IF requests[i] = 0 /\ loaded[i] # {} THEN {{}} ELSE {}) :
           LET merged == held[b] \cup (messages[i] \ shed[b]) \cup back \cup said
           IN  \E lost \in SUBSET merged :
                 /\ Cardinality(lost \cup UNION {shed[j] : j \in Invocations}) <= MaxDropped
                 /\ held' = [held EXCEPT ![b] = merged \ lost]
                 /\ messages' = [messages EXCEPT ![i] = merged \ lost]
                 /\ shed' = [shed EXCEPT ![b] = @ \cup lost]
        /\ UNCHANGED <<pc, input, previous, built, context, cache, files, ghosts>>
-----------------------------------------------------------------------------
(* faulty: the context is cleared.                                         *)
LeaveCleared(i) ==
    /\ pc[i] = "running" /\ Called(i) = {}
    /\ pc' = [pc EXCEPT ![i] = "done"]
    /\ context' = NoSession
    /\ UNCHANGED <<input, previous, built, held, counts, cache, ghosts>>

(* The call ends, and the context found on entry is restored.              *)
Leave(i) ==
    /\ pc[i] = "running" /\ Called(i) = {}
    /\ pc' = [pc EXCEPT ![i] = "done"]
    /\ context' = previous[i]
    /\ UNCHANGED <<input, previous, built, held, counts, cache, ghosts>>

(* faulty: the messages are saved for the session in the context.          *)
SucceedInContext(i) ==
    /\ requests[i] > 0 /\ context # NoSession
    /\ files' = [files EXCEPT ![context] = messages[i] \cup {<<i, 0>>}]
    /\ messages' = [messages EXCEPT ![i] = {}]
    /\ Leave(i)

(* The model's answer ends the run: all messages are saved.                *)
Succeed(i) ==
    /\ requests[i] > 0
    /\ files' = [files EXCEPT ![session[i]] = messages[i] \cup {<<i, 0>>}]
    /\ messages' = [messages EXCEPT ![i] = {}]
    /\ Leave(i)

(* faulty: a session that was continued keeps what it had.                 *)
FailNewOnly(i) ==
    /\ files' = IF loaded[i] = {} THEN [files EXCEPT ![session[i]] = held[i]] ELSE files
    /\ messages' = [messages EXCEPT ![i] = {}]
    /\ Leave(i)

(* An exception: the history of the own configuration is saved when it is  *)
(* longer than what was loaded.                                            *)
Fail(i) ==
    /\ files' = IF Cardinality(held[i]) > Cardinality(loaded[i])
                THEN [files EXCEPT ![session[i]] = held[i]] ELSE files
    /\ messages' = [messages EXCEPT ![i] = {}]
    /\ Leave(i)

(* A cancellation is no Exception: nothing is saved.                       *)
Cancel(i) ==
    /\ messages' = [messages EXCEPT ![i] = {}]
    /\ UNCHANGED files
    /\ Leave(i)

(* Cancelled in the hooks, before the context was switched.                *)
CancelLoaded(i) ==
    /\ pc[i] = "loaded"
    /\ pc' = [pc EXCEPT ![i] = "done"]
    /\ UNCHANGED <<input, previous, built, held, messages, counts, context, cache,
                   files, ghosts>>
-----------------------------------------------------------------------------
Invoke(i) ==
    \/ \E x \in Nodes : Load(i, x)
    \/ EnterCached(i) \/ EnterBuilt(i) \/ Turn(i)
    \/ Succeed(i) \/ Fail(i) \/ Cancel(i) \/ CancelLoaded(i)

Next == ClearCache \/ \E i \in Invocations : Invoke(i)

Spec == Init /\ [][Next]_vars
-----------------------------------------------------------------------------
(* Types; the cache holds at most CacheMax agents, each once.              *)
TypeOK ==
    /\ pc \in [Invocations -> PCs] /\ parent \in [Invocations -> Nodes]
    /\ name \in [Invocations -> Agents] /\ session \in [Invocations -> Invocations]
    /\ previous \in [Invocations -> Invocations \cup {NoSession}]
    /\ built \in [Invocations -> Invocations]
    /\ loaded \in [Invocations -> SUBSET Messages]
    /\ held \in [Invocations -> SUBSET Messages]
    /\ messages \in [Invocations -> SUBSET Messages]
    /\ requests \in [Invocations -> 0..MaxTurns] /\ shed \in [Invocations -> SUBSET Messages]
    /\ files \in [Invocations -> SUBSET Messages]
    /\ context \in Invocations \cup {NoSession}
    /\ cache \in Seq(Invocations) /\ Len(cache) <= CacheMax
    /\ \A j, k \in 1..Len(cache) : name[cache[j]] = name[cache[k]] => j = k
    /\ overlapped \in BOOLEAN /\ mixed \in BOOLEAN

(* While no two calls of one agent have ever run side by side, the context *)
(* names the session of the innermost agent at work, so that what it posts *)
(* to the blackboard lands in its own scope (_get_current_session_id).     *)
(* After the first overlap it may name a session that is long over.        *)
ScopesRight == ~overlapped => \A x \in Nodes : Innermost(x) => context = SessionOf(x)

(* The file of a session holds messages of that session only, unless an    *)
(* agent was reused that had been built for another session.               *)
FilesOwn == \A s \in Invocations : \A m \in files[s] : session[m[1]] = s
FilesOwnUnlessMixed == ~mixed => FilesOwn

(* When a call fails that uses the agent built for it, its file holds all  *)
(* it has said and the processor has not dropped: the test of lengths      *)
(* skips the save only when at least as many messages were dropped as the  *)
(* call has added to what it loaded.                                       *)
PartialKept ==
    [][\A i \in Invocations :
          Fail(i) /\ built[i] = i /\ Cardinality(shed[i]) < Cardinality(Said(i)) =>
          Said(i) \ shed[i] \subseteq files'[session[i]]]_vars

(* The comment on the partial save has it so for every call: "this         *)
(* captures every committed turn up to the failure point".  The history of *)
(* a reused agent is that of the call that built it, so nothing is saved.  *)
PartialCaptured ==
    [][\A i \in Invocations : Fail(i) => Turns(i) \subseteq files'[session[i]]]_vars
=============================================================================
