---------------------------- MODULE MessageHistory ----------------------------
(***************************************************************************)
(* The pure functions on a conversation's message list                     *)
(* (agents/_history.py and agents/_compaction.py).  A message is a record: *)
(*   kind     "request" (to the model) or "response" (from it)             *)
(*   text     what it says; two equal records have equal hashes, because   *)
(*            hash_message leaves timestamps out                           *)
(*   calls    the tool call ids it opens                                   *)
(*   returns  the tool call ids it answers                                 *)
(*   size     its estimated tokens                                         *)
(*   thinks   "no", "thought" (has a thinking part) or "blank" (is nothing *)
(*            but an empty thinking part)                                  *)
(* Index 0 of the code is index 1 here.                                    *)
(***************************************************************************)
EXTENDS Integers, Sequences, FiniteSets, SequencesExt, FiniteSetsExt

(* estimate_tokens_for_message, summed: CompactionCache.sum_tokens.        *)
Total(s) ==
  LET sum[n \in 0 .. Len(s)] == IF n = 0 THEN 0 ELSE sum[n - 1] + s[n].size
  IN  sum[Len(s)]

(* The messages at the positions I, in their order.                        *)
Chosen(s, I) ==
  LET kept[n \in 0 .. Len(s)] ==
        IF n = 0 THEN <<>>
        ELSE IF n \in I THEN Append(kept[n - 1], s[n]) ELSE kept[n - 1]
  IN  kept[Len(s)]

From(s, i) == SubSeq(s, i, Len(s))

CallIds(s)   == UNION {s[i].calls   : i \in DOMAIN s}
ReturnIds(s) == UNION {s[i].returns : i \in DOMAIN s}

Mismatched(s) == (CallIds(s) \ ReturnIds(s)) \cup (ReturnIds(s) \ CallIds(s))

HasPendingCalls(s) == ~ (CallIds(s) \subseteq ReturnIds(s))

(* prune_interrupted_tool_calls: whole messages go, in one pass.           *)
Prune(s) == LET bad == Mismatched(s)
            IN  Chosen(s, {i \in DOMAIN s : (s[i].calls \cup s[i].returns) \cap bad = {}})

(* filter_huge_messages; it prunes only if it dropped something.           *)
FilterHuge(s, huge) ==
  LET kept == Chosen(s, {i \in DOMAIN s : s[i].size < huge})
  IN  IF kept = s THEN s ELSE Prune(kept)

(* _find_safe_split_index: from i back over the adjacent messages whose    *)
(* calls are answered at or after i, never past the first message.         *)
SafeSplit(s, i) ==
  IF i <= 2 THEN i
  ELSE LET answered == ReturnIds(From(s, i))
       IN  Min({j \in 2 .. i :
                  \A k \in j .. i - 1 : s[k].calls \cap answered # {}})

(* The longest tail of s that starts at `first` or later and fits.         *)
TailStart(s, first, budget) ==
  Min({Len(s) + 1} \cup
      {j \in first .. Len(s) : Total(From(s, j)) <= budget})

(* split_for_protected_summarization.  The protected tail is the one the   *)
(* budget gave; only the end of the other part moves with the safe split.  *)
Split(s, protected) ==
  LET start == TailStart(s, 2, protected - s[1].size)
  IN  IF Len(s) <= 1
        THEN [fodder |-> <<>>, kept |-> s]
        ELSE [fodder |-> SubSeq(s, 2, SafeSplit(s, start) - 1),
              kept   |-> <<s[1]>> \o From(s, start)]

(* A second message that thinks is kept next to the system message.        *)
HeadLength(s, budget) ==
  IF s[2].thinks # "no" /\ s[1].size + s[2].size < budget THEN 2 ELSE 1

(* Where the message at i occurs first.  A message is looked up by         *)
(* identity; what calls a tool equals no other object, and the rest is     *)
(* not held twice.                                                         *)
FirstOf(s, i) ==
  IF s[i].calls = {} THEN i ELSE Min({j \in 1 .. i : s[j] = s[i]})

(* The tail from start, with what a safe split puts before it.             *)
Extended(s, start) ==
  LET first == FirstOf(s, start)
  IN  SubSeq(s, SafeSplit(s, first), first - 1) \o From(s, start)

(* faulty: the tail is moved back whether or not it still fits.            *)
RecentUnchecked(s, head, room) ==
  LET start == TailStart(s, head + 1, room)
  IN  IF start <= Len(s) THEN Extended(s, start) ELSE <<>>

(* The recent part of truncate: a tail, moved back to a safe split if the  *)
(* longer tail still fits.                                                 *)
Recent(s, head, room) ==
  LET start == TailStart(s, head + 1, room)
  IN  IF start <= Len(s) /\ Total(Extended(s, start)) <= room
        THEN Extended(s, start) ELSE From(s, start)

(* The first of the smallest messages after the system message.            *)
SmallestIndex(s) ==
  LET least == Min({s[i].size : i \in 2 .. Len(s)})
  IN  Min({i \in 2 .. Len(s) : s[i].size = least})

(* faulty: the budget is spent from the end, on the system message last.  *)
TruncateTailOnly(s, budget) == From(s, TailStart(s, 1, budget))

Truncate(s, budget) ==
  IF s = <<>> THEN s
  ELSE IF s[1].size >= budget \/ Len(s) = 1 THEN <<s[1]>>
  ELSE LET head   == HeadLength(s, budget)
           room   == budget - Total(SubSeq(s, 1, head))
           result == SubSeq(s, 1, head) \o Recent(s, head, room)
       IN  IF Len(result) = 1 THEN Append(result, s[SmallestIndex(s)])
                              ELSE result

(* _truncate_with_dropped: `dropped` compares hashes, hence contents.      *)
TruncateWithDropped(s, budget) ==
  LET kept == Truncate(s, budget)
  IN  [kept |-> kept, dropped |-> ToSet(s) \ ToSet(kept)]

(* _strip_empty_thinking_parts.  A blank part of a message that says more  *)
(* is detail: only the messages that vanish count.                         *)
StripBlank(s) == Chosen(s, {i \in DOMAIN s : s[i].thinks # "blank"})

(* The while loop that pops trailing responses.                            *)
PopResponses(s) ==
  SubSeq(s, 1, Max({0} \cup {i \in DOMAIN s : s[i].kind = "request"}))
===============================================================================
