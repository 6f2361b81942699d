------------------------- MODULE PluginCallbacks -------------------------
(***************************************************************************)
(* The callback registry (callbacks.py) and the loader of plugins          *)
(* (plugins/__init__.py): what the registry holds for one phase, the cache *)
(* of the sorted callbacks, and the deferred mode in which the threads     *)
(* that import plugins only buffer what they register until the loader     *)
(* commits the whole buffer.  Meanwhile other code registers, removes and  *)
(* dispatches callbacks.  Every operation on the registry holds            *)
(* _callback_lock from beginning to end and is one step.                   *)
(*                                                                         *)
(* A callback is an atom with a priority.  The phases do not interact, so  *)
(* one is modelled.  What a callback does, and whether it raises, makes no *)
(* difference to the registry.                                             *)
(***************************************************************************)
EXTENDS Naturals, FiniteSets, SequencesExt

CONSTANTS
    Builtin,       \* the built-in plugins
    User,          \* the user's plugins
    Callbacks,     \* the callback functions
    Script,        \* Script[p] is what importing p registers, in order
    Priority,      \* the priority each callback is registered with
    Nameless,      \* the callbacks without a __name__, a partial for instance
    Dispatchers,   \* tasks and threads that trigger the phase
    Threads,       \* max_workers of the executors that import plugins
    MaxBuffered    \* bound on what is registered while loading

Plugins == Builtin \cup User

ASSUME CallbacksAssumption ==
    /\ Script \in [Plugins -> Seq(Callbacks)]
    /\ Priority \in [Callbacks -> Nat]
    /\ Nameless \subseteq Callbacks
    /\ Threads \in Nat \ {0}
    /\ MaxBuffered \in Nat

VARIABLES
    registered,    \* _callbacks[phase]
    cache,         \* _sorted_cache: {} when it has no entry for the phase
    deferring,     \* _defer_mode
    buffered,      \* _deferred_registrations
    loader,        \* where load_plugin_callbacks is
    import,        \* what the import of each plugin has come to
    made,          \* how many registrations each plugin has made
    dispatch,      \* each dispatcher's list of callbacks, and how many it called
    gone           \* history: what was ever unregistered or cleared

registry == <<registered, cache, deferring, buffered>>
loading  == <<loader, import, made>>
vars     == <<registered, cache, deferring, buffered, loader, import, made, dispatch, gone>>

\* What the plugins have registered so far, failed ones included.
Made == UNION {{Script[p][i] : i \in 1 .. made[p]} : p \in Plugins}

\* Callbacks that nobody but plugins registers.
Own == UNION {ToSet(Script[p]) : p \in Plugins}
Core == Callbacks \ Own

-----------------------------------------------------------------------------
Init ==
    /\ registered = <<>>
    /\ cache = {}
    /\ deferring = FALSE
    /\ buffered = <<>>
    /\ loader = "idle"
    /\ import = [p \in Plugins |-> "waiting"]
    /\ made = [p \in Plugins |-> 0]
    /\ dispatch = [d \in Dispatchers |-> [seen |-> <<>>, called |-> 0]]
    /\ gone = {}

\* The position of the i-th registration: higher priorities first, then the
\* earlier registration.
Rank(s, i) ==
    Cardinality({j \in 1 .. Len(s) :
        \/ Priority[s[j]] > Priority[s[i]]
        \/ Priority[s[j]] = Priority[s[i]] /\ j <= i})

ByPriority(s) ==
    [k \in 1 .. Len(s) |-> s[CHOOSE i \in 1 .. Len(s) : Rank(s, i) = k]]

\* A duplicate is skipped and leaves the cache alone.  A callback without a
\* name makes the log line behind either branch raise, after the change.
AddNow(f) ==
    IF f \in ToSet(registered) THEN UNCHANGED <<registered, cache>>
    ELSE /\ registered' = Append(registered, f)
         /\ cache' = {}

\* faulty: registers at once although the loader defers.
RegisterAtOnce(f) == AddNow(f) /\ UNCHANGED <<deferring, buffered>>

\* register_callback
Register(f) ==
    \/ /\ deferring
       /\ buffered' = Append(buffered, f)
       /\ cache' = {}
       /\ UNCHANGED <<registered, deferring>>
    \/ /\ ~ deferring
       /\ AddNow(f)
       /\ UNCHANGED <<deferring, buffered>>

\* Modules outside the plugins register theirs whenever they are imported.
RegisterCore(f) ==
    /\ f \in Core
    /\ Len(buffered) < MaxBuffered
    /\ Register(f)
    /\ UNCHANGED <<loading, dispatch, gone>>

\* unregister_callback does not look into the buffer.
Unregister(f) ==
    /\ \E i \in 1 .. Len(registered) :
        /\ registered[i] = f
        /\ \A j \in 1 .. i - 1 : registered[j] # f
        /\ registered' = RemoveAt(registered, i)
    /\ cache' = {}
    /\ gone' = gone \cup {f}
    /\ UNCHANGED <<deferring, buffered, loading, dispatch>>

\* clear_callbacks leaves the buffer alone, too.
Clear ==
    /\ registered' = <<>>
    /\ cache' = {}
    /\ gone' = gone \cup ToSet(registered)
    /\ UNCHANGED <<deferring, buffered, loading, dispatch>>

-----------------------------------------------------------------------------
BeginDeferred ==
    /\ loader = "idle"
    /\ deferring' = TRUE
    /\ buffered' = <<>>
    /\ loader' = "builtin"
    /\ UNCHANGED <<registered, cache, import, made, dispatch, gone>>

\* The plugins whose turn it is: the executor of the built-in ones is joined
\* before the user's plugins are listed.
Stage ==
    {p \in Plugins : \/ loader = "builtin" /\ p \in Builtin
                     \/ loader = "user" /\ p \in User}

StageOver == \A p \in Stage : import[p] \in {"loaded", "failed"}

StartImport(p) ==
    /\ p \in Stage
    /\ import[p] = "waiting"
    /\ Cardinality({q \in Plugins : import[q] = "running"}) < Threads
    /\ import' = [import EXCEPT ![p] = "running"]
    /\ UNCHANGED <<registry, loader, made, dispatch, gone>>

\* The import goes on, or fails with the error of the log line.
RegisterNext(p) ==
    LET f == Script[p][made[p] + 1] IN
    /\ import[p] = "running"
    /\ made[p] < Len(Script[p])
    /\ Len(buffered) < MaxBuffered
    /\ Register(f)
    /\ made' = [made EXCEPT ![p] = @ + 1]
    /\ import' = IF f \in Nameless THEN [import EXCEPT ![p] = "failed"] ELSE import
    /\ UNCHANGED <<loader, dispatch, gone>>

ImportReturns(p) ==
    /\ import[p] = "running"
    /\ made[p] = Len(Script[p])
    /\ import' = [import EXCEPT ![p] = "loaded"]
    /\ UNCHANGED <<registry, loader, made, dispatch, gone>>

\* The exception is logged; what the plugin has buffered stays buffered.
ImportRaises(p) ==
    /\ import[p] = "running"
    /\ import' = [import EXCEPT ![p] = "failed"]
    /\ UNCHANGED <<registry, loader, made, dispatch, gone>>

LoadUserPlugins ==
    /\ loader = "builtin"
    /\ StageOver
    /\ loader' = "user"
    /\ UNCHANGED <<registry, import, made, dispatch, gone>>

\* The buffered callbacks that are neither registered nor repeated in it.
Fresh ==
    LET first(i) == \A j \in 1 .. i - 1 : buffered[j] # buffered[i]
        new == {i \in 1 .. Len(buffered) :
                    first(i) /\ buffered[i] \notin ToSet(registered)}
        nth(k) == CHOOSE i \in new : Cardinality({j \in new : j <= i}) = k
    IN  [k \in 1 .. Cardinality(new) |-> buffered[nth(k)]]

EndDeferred(outcome) ==
    /\ deferring' = FALSE
    /\ buffered' = <<>>
    /\ loader' = outcome
    /\ UNCHANGED <<import, made, dispatch, gone>>

\* The buffered callbacks that cannot be named.
Unnamed == ToSet(buffered) \cap Nameless

\* faulty: trusts that buffering has emptied the cache.
CommitKeepingCache ==
    /\ loader = "user"
    /\ StageOver
    /\ Unnamed = {}
    /\ registered' = registered \o Fresh
    /\ UNCHANGED cache
    /\ EndDeferred("loaded")

\* faulty: appends duplicates as well.
CommitAll ==
    /\ loader = "user"
    /\ StageOver
    /\ Unnamed = {}
    /\ registered' = registered \o buffered
    /\ cache' = IF buffered = <<>> THEN cache ELSE {}
    /\ EndDeferred("loaded")

\* commit_deferred; _PLUGINS_LOADED makes it the last.
Commit ==
    /\ loader = "user"
    /\ StageOver
    /\ Unnamed = {}
    /\ registered' = registered \o Fresh
    /\ cache' = IF Fresh = <<>> THEN cache ELSE {}
    /\ EndDeferred("loaded")

\* Validation asks each buffered callback for its name before it registers
\* any: one without loses the whole batch, those of all plugins included.
CommitRaises ==
    /\ loader = "user"
    /\ StageOver
    /\ Unnamed # {}

\* Listing a directory raises before any plugin of the stage is imported.
ListingRaises ==
    /\ loader \in {"builtin", "user"}
    /\ \A p \in Stage : import[p] = "waiting"

\* rollback_deferred, and the exception ends the program.
Rollback ==
    /\ CommitRaises \/ ListingRaises
    /\ UNCHANGED <<registered, cache>>
    /\ EndDeferred("failed")

-----------------------------------------------------------------------------
\* get_callbacks, then the loop over the copy it returned.
Trigger(d) ==
    /\ loader # "failed"
    /\ dispatch[d].called = Len(dispatch[d].seen)
    /\ LET sorted == IF cache = {} THEN ByPriority(registered)
                     ELSE CHOOSE c \in cache : TRUE
       IN  /\ cache' = {sorted}
           /\ dispatch' = [dispatch EXCEPT ![d] = [seen |-> sorted, called |-> 0]]
    /\ UNCHANGED <<registered, deferring, buffered, loading, gone>>

\* The next callback returns or raises and the loop goes on, or the awaiting
\* task is cancelled, or the callback has no name to log: the rest is never
\* called.
CallNext(d) ==
    /\ dispatch[d].called < Len(dispatch[d].seen)
    /\ \E n \in {dispatch[d].called + 1, Len(dispatch[d].seen)} :
           dispatch' = [dispatch EXCEPT ![d].called = n]
    /\ UNCHANGED <<registry, loading, gone>>

Load ==
    \/ BeginDeferred
    \/ LoadUserPlugins
    \/ Commit
    \/ Rollback
    \/ \E p \in Plugins :
        \/ StartImport(p)
        \/ RegisterNext(p)
        \/ ImportReturns(p)
        \/ ImportRaises(p)

Next ==
    \/ Load
    \/ \E f \in Callbacks : RegisterCore(f) \/ Unregister(f)
    \/ Clear
    \/ \E d \in Dispatchers : Trigger(d) \/ CallNext(d)

Spec == Init /\ [][Next]_vars

-----------------------------------------------------------------------------
(* Every variable has its type, and no callback is registered twice: a     *)
(* dispatch calls each at most once, however often it was buffered.        *)
TypeOK ==
    /\ registered \in Seq(Callbacks)
    /\ \A i, j \in 1 .. Len(registered) : registered[i] = registered[j] => i = j
    /\ \A c \in cache : c \in Seq(Callbacks)
    /\ deferring \in BOOLEAN
    /\ buffered \in Seq(Callbacks)
    /\ loader \in {"idle", "builtin", "user", "loaded", "failed"}
    /\ import \in [Plugins -> {"waiting", "running", "loaded", "failed"}]
    /\ made \in [Plugins -> Nat]
    /\ \A p \in Plugins : made[p] <= Len(Script[p])
    /\ dispatch \in [Dispatchers -> [seen : Seq(Callbacks), called : Nat]]
    /\ gone \subseteq Callbacks

(* Whatever is registered, removed, buffered and committed around it, the  *)
(* cached list of get_callbacks is what sorting the registry would give.   *)
(* While plugins load, a dispatch may cache the phase between a buffered   *)
(* registration and the commit.                                            *)
CacheFresh == \A c \in cache : c = ByPriority(registered)

(* A dispatch sees the plugins' callbacks as a whole: either none of them, *)
(* or all that were buffered, apart from those removed again.  This is the *)
(* atomicity load_plugin_callbacks promises to those who dispatch while    *)
(* its threads import.                                                     *)
DispatchSeesWhole ==
    \A d \in Dispatchers :
        LET seen == ToSet(dispatch[d].seen) IN
        seen \cap Own # {} => Made \ gone \subseteq seen
=============================================================================
