--------------------------- MODULE HistoryProcessor ---------------------------
(***************************************************************************)
(* The conversation of one agent as its turns go by.  Every model request  *)
(* passes through history_processor (agents/_compaction.py), which merges  *)
(* the new messages into agent._message_history, compacts it, and returns  *)
(* what is sent; pydantic-ai keeps what it returned.  The turns themselves *)
(* (answers, tool calls, retries, cancellation) belong to pydantic-ai and  *)
(* to agents/_runtime.py.                                                  *)
(*                                                                         *)
(* On the way the content of messages is changed in place: long documents  *)
(* become stubs, and protected facts are appended to the first message.    *)
(* hash_message and stringify_part remember what they said of an object    *)
(* first, so its hash and its size stay: `stubs` and `noted` record what   *)
(* was changed, and the size of a long text is that of its stub unless it  *)
(* was estimated earlier.  Truncating old tool results, ahead of compact,  *)
(* changes nothing: the parts of pydantic-ai have no model_copy.           *)
(***************************************************************************)
EXTENDS MessageHistory

CONSTANTS
  Prompts,       \* user messages: records [text, size]
  Replies,       \* model texts: records [text, size]
  Results,       \* tool results: records [text, size]
  LongTexts,     \* texts of 3000 words and more
  Facts,         \* whether there are protected facts: values of BOOLEAN
  Thoughts,      \* values of `thinks` a response may have
  MaxTurns,      \* bound: requests made
  MaxCalls,      \* bound: tool calls opened
  ModelMax,      \* context window, tokens
  Overhead,      \* tokens of the system prompt and tool schemas
  Threshold,     \* percentage that triggers compaction
  SafePct,       \* percentage the gate lets through (80)
  FloorTokens,   \* least budget the gate uses (1000)
  HardCap,       \* most messages before a forced compaction
  Protected,     \* protected_token_count
  Huge,          \* filter_huge_message_threshold
  Emergency,     \* budget of _emergency_compact
  PruneAt,       \* percentage at which the task_context plugin deletes
  MaxPruned,     \* bound: messages it deletes at once
  Strategies     \* values compaction_strategy may have; the user can change it

ASSUME StrategyAssumption ==
  Strategies # {} /\ Strategies \subseteq {"truncation", "summarization"}
ASSUME BudgetAssumption ==
  /\ {ModelMax, Overhead, Threshold, SafePct, FloorTokens, HardCap, Protected,
      Huge, Emergency, PruneAt, MaxPruned, MaxTurns, MaxCalls} \subseteq Nat
  /\ FloorTokens > 0
ASSUME MessageAssumption ==
  /\ {p.size : p \in Prompts \cup Replies \cup Results} \subseteq Nat \ {0}
  /\ Facts # {} /\ Facts \subseteq BOOLEAN
  /\ Thoughts \subseteq {"no", "thought", "blank"}

VARIABLES
  history,     \* agent._message_history
  compacted,   \* agent._compacted_message_hashes
  phase,       \* "idle", or "sent": a request is with the model
  asked,       \* the prompt of the current run, or <<>>
  given,       \* the messages the pending request added, or <<>>
  turns,       \* requests made
  opened,      \* tool call ids used so far
  stubs,       \* messages whose content is the stub of a document
  noted,       \* messages the protected facts were appended to
  removed      \* history: what the plugin deleted in the last request

vars == <<history, compacted, phase, asked, given, turns, opened,
          stubs, noted, removed>>

Request(t) == [kind |-> "request", text |-> t.text, calls |-> {},
               returns |-> {}, size |-> t.size, thinks |-> "no"]
Response(t, calls, thinks) ==
  [kind |-> "response", text |-> t.text, calls |-> calls, returns |-> {},
   size |-> t.size, thinks |-> thinks]
ToolResult(ids, t) ==
  [kind |-> "request", text |-> t.text, calls |-> {}, returns |-> ids,
   size |-> t.size, thinks |-> "no"]
Nudge == Request([text |-> "retry", size |-> 1])
Summary == <<Request([text |-> "summarize", size |-> 1]),
             Response([text |-> "summary", size |-> 1], {}, "no")>>

Max2(a, b) == IF a >= b THEN a ELSE b

(* What the hook of task_context may delete from the history, in place:    *)
(* it judges every message by its task and its relevance, which are        *)
(* abstracted, and spares neither pairs nor the first message.             *)
Crowded(h)    == Len(h) > 1 /\ 100 * Total(h) >= PruneAt * ModelMax
Deletions(h)  == {D \in SUBSET DOMAIN h :
                    D # {} => Crowded(h) /\ Cardinality(D) <= MaxPruned}
Without(h, D) == Chosen(h, DOMAIN h \ D)

(* The hook and compact put stubs in the place of long documents; compact  *)
(* appends the facts to the first message, if that is a request.           *)
LongIn(s)       == {m \in ToSet(s) : m.text \in LongTexts}
Noted(s, facts) == {m \in ToSet(s) : facts /\ m = s[1] /\ m.kind = "request"}

(* faulty: a compacted message is skipped even if it is the newest.        *)
MergeForgetsNewest(held, seen, h, new) ==
  held \o Chosen(h, {i \in DOMAIN h : h[i] \notin ToSet(held) \cup seen})
       \o Chosen(new, {i \in DOMAIN new : new[i] \notin ToSet(held) \cup seen})

(* The merge loop over pydantic-ai's own list, which is h and the messages *)
(* `new`: those already held are skipped, then compacted ones, the newest  *)
(* excepted from the second test only.                                     *)
Merge(held, seen, h, new) ==
  held \o Chosen(h, {i \in DOMAIN h : h[i] \notin ToSet(held) \cup seen})
       \o Chosen(new, {i \in DOMAIN new :
                         /\ new[i] \notin ToSet(held)
                         /\ (i = Len(new) \/ new[i] \notin seen)})

OverCap(s)       == Len(s) > HardCap
OverThreshold(s) == 100 * (Total(s) + Overhead) > Threshold * ModelMax

(* compact under a strategy; "fallback" is summarization whose agent fails. *)
Compact(s, strategy) ==
  LET filtered == FilterHuge(s, Huge)
      split    == Split(filtered, Protected)
  IN  IF \/ ~ OverCap(s) /\ ~ OverThreshold(s)
         \/ ~ OverCap(s) /\ strategy # "truncation"
                         /\ HasPendingCalls(filtered)
        THEN [kept |-> s, dropped |-> {}]
      ELSE IF strategy = "summarization"
                /\ Len(filtered) > 1 /\ split.fodder # <<>>
        THEN [kept    |-> <<filtered[1]>> \o Summary \o Tail(split.kept),
              dropped |-> ToSet(split.fodder)]
      ELSE TruncateWithDropped(filtered, Protected)

Allowed  == (ModelMax * SafePct) \div 100
Safe     == Max2(FloorTokens, Allowed - Overhead)
Fits(s)  == Total(s) + Overhead <= Allowed
Shrunk(k) == Max2(FloorTokens, (Safe * (2 ^ (k + 1) + 1)) \div 2 ^ (k + 2))

(* One pass of the pre-send gate; a pass that breaks leaves s alone.       *)
GatePass(s, k) ==
  IF Fits(s) \/ Len(s) <= 2 THEN s ELSE Prune(Truncate(s, Shrunk(k)))

(* faulty: what the truncation severed is sent.                            *)
UnprunedPass(s, k) == IF Fits(s) THEN s ELSE Truncate(s, Shrunk(k))
GateUnpruned(s) ==
  UnprunedPass(UnprunedPass(UnprunedPass(UnprunedPass(s, 0), 1), 2), 3)

Gate(s) == LET cut == GatePass(GatePass(GatePass(GatePass(s, 0), 1), 2), 3)
           IN  IF Len(cut) <= 1 /\ Len(s) > 1 THEN s ELSE cut

(* history_processor, called with a list that compact sees as `merged`.    *)
Processed(merged, seen, strategy) ==
  LET result == Compact(merged, strategy)
  IN  [history   |-> Gate(Prune(PopResponses(StripBlank(result.kept)))),
       compacted |-> seen \cup result.dropped]

(* One call of history_processor with h followed by the messages `new`.    *)
Submit(h, seen, new) ==
  /\ turns < MaxTurns
  /\ \E strategy \in Strategies \cup
                       (IF "summarization" \in Strategies THEN {"fallback"} ELSE {}),
        D \in Deletions(h), facts \in Facts :
       LET merged == Merge(Without(h, D), seen, h, new)
           p      == Processed(merged, seen, strategy)
       IN  /\ history' = p.history /\ compacted' = p.compacted
           /\ noted' = noted \cup Noted(merged, facts)
           /\ removed' = D
  /\ stubs' = stubs \cup LongIn(h \o new)
  /\ given' = new
  /\ phase' = "sent"
  /\ turns' = turns + 1

(* pydantic-ai refuses a request list that is empty or ends otherwise.     *)
Accepted == phase = "sent" /\ history # <<>> /\ Last(history).kind = "request"

Init ==
  /\ history = <<>> /\ compacted = {} /\ given = <<>>
  /\ phase = "idle" /\ asked = <<>>
  /\ turns = 0 /\ opened = 0
  /\ stubs = {} /\ noted = {} /\ removed = {}

(* A run starts: run_agent_task prunes, then the prompt is submitted.      *)
Prompt == \E p \in Prompts :
  /\ phase = "idle"
  /\ Submit(Prune(history), compacted, <<Request(p)>>)
  /\ asked' = <<Request(p)>>
  /\ UNCHANGED opened

(* faulty: the prompt of the finished run stays behind.                    *)
ReplyKeepsPrompt == \E r \in Replies, t \in Thoughts :
  /\ Accepted
  /\ history' = Append(history, Response(r, {}, t))
  /\ phase' = "idle" /\ given' = <<>> /\ removed' = {}
  /\ UNCHANGED <<asked, compacted, turns, opened, stubs, noted>>

(* The model's final answer; the run loop stores all_messages().           *)
Reply == \E r \in Replies, t \in Thoughts :
  /\ Accepted
  /\ history' = Append(history, Response(r, {}, t))
  /\ phase' = "idle" /\ asked' = <<>> /\ given' = <<>> /\ removed' = {}
  /\ UNCHANGED <<compacted, turns, opened, stubs, noted>>

(* One response calling n tools, and the request with all their results.   *)
UseTools == \E n \in 1 .. 2, r \in Replies, result \in Results, t \in Thoughts :
  /\ Accepted
  /\ opened + n <= MaxCalls
  /\ LET ids == opened + 1 .. opened + n
     IN  Submit(history, compacted,
                <<Response(r, ids, t), ToolResult(ids, result)>>)
  /\ opened' = opened + n
  /\ UNCHANGED asked

(* An empty answer: pydantic-ai asks again.                                *)
EmptyAnswer ==
  /\ Accepted
  /\ Submit(history, compacted,
            <<Response([text |-> "", size |-> 1], {}, "blank"), Nudge>>)
  /\ UNCHANGED <<asked, opened>>

(* A failed request is retried with the same prompt.                       *)
Retry ==
  /\ phase = "sent"
  /\ Submit(history, compacted, asked)
  /\ UNCHANGED <<asked, opened>>

(* _emergency_compact, then the retry.                                     *)
Overflow ==
  LET cut == TruncateWithDropped(history, Emergency)
  IN  /\ phase = "sent"
      /\ Len(history) > 2
      /\ Len(cut.kept) < Len(history)
      /\ Submit(cut.kept, compacted \cup cut.dropped, asked)
      /\ UNCHANGED <<asked, opened>>

(* The run ends by cancellation or an error: what was sent stays.          *)
Cancel ==
  /\ phase = "sent"
  /\ phase' = "idle" /\ asked' = <<>> /\ given' = <<>> /\ removed' = {}
  /\ UNCHANGED <<history, compacted, turns, opened, stubs, noted>>

Next == Prompt \/ Reply \/ UseTools \/ EmptyAnswer \/ Retry \/ Overflow \/ Cancel

Spec == Init /\ [][Next]_vars

-------------------------------------------------------------------------------
Texts == {p.text : p \in Prompts \cup Replies \cup Results}
           \cup {"retry", "summarize", "summary", ""}

Messages ==
  [kind : {"request", "response"}, text : Texts,
   calls : SUBSET (1 .. MaxCalls), returns : SUBSET (1 .. MaxCalls),
   size : Nat \ {0}, thinks : {"no", "thought", "blank"}]

TypeOK ==
  /\ history \in Seq(Messages) /\ compacted \subseteq Messages
  /\ given \in Seq(Messages) /\ asked \in Seq(Messages)
  /\ phase \in {"idle", "sent"}
  /\ turns \in 0 .. MaxTurns /\ opened \in 0 .. MaxCalls
  /\ stubs \subseteq Messages /\ noted \subseteq Messages /\ removed \subseteq Nat
  /\ (phase = "idle") <=> (asked = <<>>)

(* No request reaches the model with a tool call that lost its result, or  *)
(* a result that lost its call, however the history was cut: pruning once  *)
(* is enough and comes after every cut.                                    *)
PairedWhenSent == phase = "sent" => Mismatched(history) = {}

(* Truncation keeps its promise at every budget: the result fits, or it is *)
(* nothing but the system message and one other, and no two messages are   *)
(* swapped.                                                                *)
TruncateSound ==
  \A b \in 1 .. Total(history) + 1 :
    LET t == Truncate(history, b)
    IN  /\ Total(t) <= b \/ Len(t) <= 2
        /\ \A i, j \in DOMAIN t : i <= j =>
             \E p, q \in DOMAIN history :
               p <= q /\ history[p] = t[i] /\ history[q] = t[j]

(* Only two things take the first message from a conversation: it is a     *)
(* prompt as large as filter_huge_messages drops, or the plugin deletes it *)
(* as irrelevant.  From every other merge, compaction, pruning, gate and   *)
(* emergency cut the history comes back with the same opening.             *)
Opening(m) == /\ m.kind = "request" /\ m.calls \cup m.returns = {}
              /\ m.thinks = "no" /\ m.size < Huge
SystemStaysFirst ==
  [][history # <<>> /\ Opening(history[1]) /\ 1 \notin removed'
       => history' # <<>> /\ history'[1] = history[1]]_vars

NoPressure(s) == ~ OverCap(s) /\ ~ OverThreshold(s) /\ Fits(s)

(* While the conversation is small, a request sends everything said so far *)
(* and the new messages, even if they were compacted away once before:     *)
(* whole, except that long documents are stubs and that the first message  *)
(* may have the protected facts appended.                                  *)
NothingLostWithoutPressure ==
  [][ LET all == history \o given'
      IN  ( /\ turns' > turns
            /\ NoPressure(all) /\ ~ Crowded(history) /\ Total(all) <= Emergency
            /\ ToSet(given') \cap ToSet(history) = {}
            /\ Mismatched(history) = {}
            /\ \A m \in ToSet(all) : m.thinks # "blank" )
          => /\ history' = all
             /\ stubs' \cap ToSet(all) = LongIn(all)
             /\ noted' \subseteq noted \cup {all[1]} ]_vars
=============================================================================
