------------------------------ MODULE MessageBus ------------------------------
(***************************************************************************)
(* The outgoing half of messaging/bus.py and the consumer thread of        *)
(* messaging/rich_renderer.py.  Any thread emits, under the bus lock; with *)
(* no active renderer a message goes to the startup buffer, else into the  *)
(* bounded queue, directly or through a callback scheduled on the event    *)
(* loop.  A renderer thread first shows a copy of the buffer, clears it,   *)
(* then polls the queue.  Messages are numbered in the order of emission.  *)
(***************************************************************************)
EXTENDS Integers, Sequences, FiniteSets, SequencesExt

CONSTANTS
  MaxSize,      \* maxsize of the queue and of the startup buffer
  MaxEmits,     \* bound: messages emitted
  MaxStarts     \* bound: renderer starts; the CLI makes one

ASSUME SizeAssumption == MaxSize \in Nat \ {0}
ASSUME BoundAssumption == MaxEmits \in Nat /\ MaxStarts \in Nat

Threads == 1 .. MaxStarts

VARIABLES
  emitted,      \* number of messages emitted
  active,       \* bus._has_active_renderer
  loop,         \* bus._event_loop: "none", "running" or "ended"
  buffer,       \* bus._startup_buffer
  scheduled,    \* _do_put callbacks waiting in the event loop
  outgoing,     \* bus._outgoing
  putting,      \* <<m>> while a put of m has found the queue full
  life,         \* of the renderer: "down", "up", "stopping" (_running is "up")
  starts,       \* renderer threads created
  pc,           \* of each renderer thread
  batch,        \* what a thread has yet to show of its copy of the buffer
  holding,      \* <<m>> while a thread has taken m and not shown it
  shown,        \* messages shown, in order
  dropped       \* messages thrown away because something was full

busVars      == <<active, loop, buffer, scheduled, outgoing, putting>>
rendererVars == <<life, starts, pc, batch, holding, shown>>
vars == <<emitted, busVars, rendererVars, dropped>>

(* A put that bypasses the loop runs inside emit, which holds the lock.    *)
LockFree == putting = <<>> \/ loop = "running"

Init ==
  /\ emitted = 0 /\ dropped = {} /\ shown = <<>>
  /\ active = FALSE /\ loop = "none"
  /\ buffer = <<>> /\ scheduled = <<>> /\ outgoing = <<>> /\ putting = <<>>
  /\ life = "down" /\ starts = 0
  /\ pc = [t \in Threads |-> "off"]
  /\ batch = [t \in Threads |-> <<>>] /\ holding = [t \in Threads |-> <<>>]

(* faulty: a full queue is ignored.                                        *)
TryPutIgnoringFull(m) ==
  /\ outgoing' = IF Len(outgoing) < MaxSize THEN Append(outgoing, m) ELSE outgoing
  /\ UNCHANGED putting

(* The first half of _do_put: a free place is used, a full queue noticed.  *)
TryPut(m) ==
  IF Len(outgoing) < MaxSize
    THEN outgoing' = Append(outgoing, m) /\ UNCHANGED putting
    ELSE putting' = <<m>> /\ UNCHANGED outgoing

(* faulty: the startup buffer grows without end.                           *)
EmitUntrimmed ==
  /\ ~ active
  /\ emitted < MaxEmits /\ LockFree
  /\ emitted' = emitted + 1
  /\ buffer' = Append(buffer, emitted + 1)
  /\ UNCHANGED <<active, loop, scheduled, outgoing, putting, rendererVars, dropped>>

EmitBuffered ==
  LET longer == Append(buffer, emitted + 1)
  IN  /\ ~ active
      /\ emitted < MaxEmits /\ LockFree
      /\ emitted' = emitted + 1
      /\ IF Len(longer) > MaxSize
           THEN buffer' = Tail(longer) /\ dropped' = dropped \cup {Head(longer)}
           ELSE buffer' = longer /\ UNCHANGED dropped
      /\ UNCHANGED <<active, loop, scheduled, outgoing, putting, rendererVars>>

EmitScheduled ==
  /\ active /\ loop = "running"
  /\ emitted < MaxEmits
  /\ emitted' = emitted + 1
  /\ scheduled' = Append(scheduled, emitted + 1)
  /\ UNCHANGED <<active, loop, buffer, outgoing, putting, rendererVars, dropped>>

EmitDirect ==
  /\ active /\ loop # "running"
  /\ emitted < MaxEmits /\ LockFree
  /\ emitted' = emitted + 1
  /\ TryPut(emitted + 1)
  /\ UNCHANGED <<active, loop, buffer, scheduled, rendererVars, dropped>>

(* The event loop runs the oldest scheduled callback.                      *)
LoopPut ==
  /\ loop = "running" /\ putting = <<>> /\ scheduled # <<>>
  /\ TryPut(Head(scheduled))
  /\ scheduled' = Tail(scheduled)
  /\ UNCHANGED <<emitted, active, loop, buffer, rendererVars, dropped>>

(* faulty: the newest of the queue makes room.                             *)
EvictNewest ==
  /\ putting # <<>>
  /\ outgoing' = IF outgoing = <<>> THEN <<>> ELSE Front(outgoing) \o putting
  /\ dropped' = dropped \cup (IF outgoing = <<>> THEN ToSet(putting) ELSE {Last(outgoing)})
  /\ putting' = <<>>
  /\ UNCHANGED <<emitted, active, loop, buffer, scheduled, rendererVars>>

(* The second half of _do_put after QueueFull: the oldest message makes    *)
(* room; if the consumer emptied the queue meanwhile the new one is lost.  *)
Evict ==
  /\ putting # <<>>
  /\ IF outgoing = <<>>
       THEN dropped' = dropped \cup {putting[1]} /\ UNCHANGED outgoing
       ELSE /\ outgoing' = Append(Tail(outgoing), putting[1])
            /\ dropped' = dropped \cup {Head(outgoing)}
  /\ putting' = <<>>
  /\ UNCHANGED <<emitted, active, loop, buffer, scheduled, rendererVars>>

(* asyncio.run returns: the callbacks that are left never run.             *)
LoopEnds ==
  /\ loop = "running" /\ putting = <<>>
  /\ loop' = "ended"
  /\ UNCHANGED <<emitted, active, buffer, scheduled, outgoing, putting,
                 rendererVars, dropped>>
-------------------------------------------------------------------------------
(* start(): inside a coroutine the running loop is captured, else none; an *)
(* ended loop cannot be captured again.                                    *)
Start == \E inLoop \in BOOLEAN :
  /\ life = "down" /\ starts < MaxStarts
  /\ LockFree
  /\ life' = "up" /\ active' = TRUE
  /\ loop' = IF inLoop THEN "running" ELSE "none"
  /\ inLoop => loop # "ended"
  /\ starts' = starts + 1
  /\ pc' = [pc EXCEPT ![starts + 1] = "copy"]
  /\ UNCHANGED <<emitted, buffer, scheduled, outgoing, putting, batch, holding,
                 shown, dropped>>

(* stop() clears _running, then the bus is told.  The join that follows    *)
(* has a timeout, so it orders nothing.                                    *)
Stop ==
  /\ life = "up" /\ life' = "stopping"
  /\ UNCHANGED <<emitted, busVars, starts, pc, batch, holding, shown, dropped>>

MarkInactive ==
  /\ life = "stopping" /\ LockFree
  /\ life' = "down" /\ active' = FALSE
  /\ UNCHANGED <<emitted, loop, buffer, scheduled, outgoing, putting,
                 starts, pc, batch, holding, shown, dropped>>

Goto(t, l) == pc' = [pc EXCEPT ![t] = l]

CopyBuffer(t) ==
  /\ pc[t] = "copy" /\ LockFree
  /\ batch' = [batch EXCEPT ![t] = buffer]
  /\ Goto(t, "replay")
  /\ UNCHANGED <<emitted, busVars, life, starts, holding, shown, dropped>>

(* faulty: the copy is popped from its end.                                *)
ReplayFromEnd(t) ==
  /\ pc[t] = "replay" /\ batch[t] # <<>>
  /\ shown' = Append(shown, Last(batch[t]))
  /\ batch' = [batch EXCEPT ![t] = Front(@)]
  /\ UNCHANGED <<emitted, busVars, life, starts, pc, holding, dropped>>

Replay(t) ==
  /\ pc[t] = "replay" /\ batch[t] # <<>>
  /\ shown' = Append(shown, Head(batch[t]))
  /\ batch' = [batch EXCEPT ![t] = Tail(@)]
  /\ UNCHANGED <<emitted, busVars, life, starts, pc, holding, dropped>>

ClearBuffer(t) ==
  /\ pc[t] = "replay" /\ batch[t] = <<>> /\ LockFree
  /\ buffer' = <<>>
  /\ Goto(t, "poll")
  /\ UNCHANGED <<emitted, active, loop, scheduled, outgoing, putting,
                 life, starts, batch, holding, shown, dropped>>

(* One turn of the loop: the flag is read, then the queue.                 *)
Poll(t) ==
  /\ pc[t] = "poll"
  /\ Goto(t, IF life = "up" THEN "get" ELSE "done")
  /\ UNCHANGED <<emitted, busVars, life, starts, batch, holding, shown, dropped>>

(* faulty: an empty queue ends the thread.                                 *)
GetOrQuit(t) ==
  /\ pc[t] = "get"
  /\ IF outgoing = <<>>
       THEN Goto(t, "done") /\ UNCHANGED <<outgoing, holding>>
       ELSE /\ holding' = [holding EXCEPT ![t] = <<Head(outgoing)>>]
            /\ outgoing' = Tail(outgoing)
            /\ Goto(t, "show")
  /\ UNCHANGED <<emitted, active, loop, buffer, scheduled, putting,
                 life, starts, batch, shown, dropped>>

GetNowait(t) ==
  /\ pc[t] = "get"
  /\ IF outgoing = <<>>
       THEN Goto(t, "poll") /\ UNCHANGED <<outgoing, holding>>
       ELSE /\ holding' = [holding EXCEPT ![t] = <<Head(outgoing)>>]
            /\ outgoing' = Tail(outgoing)
            /\ Goto(t, "show")
  /\ UNCHANGED <<emitted, active, loop, buffer, scheduled, putting,
                 life, starts, batch, shown, dropped>>

ShowMessage(t) ==
  /\ pc[t] = "show"
  /\ shown' = Append(shown, holding[t][1])
  /\ holding' = [holding EXCEPT ![t] = <<>>]
  /\ Goto(t, "poll")
  /\ UNCHANGED <<emitted, busVars, life, starts, batch, dropped>>

Render(t) == \/ CopyBuffer(t) \/ Replay(t) \/ ClearBuffer(t)
             \/ Poll(t) \/ GetNowait(t) \/ ShowMessage(t)

Emit == EmitBuffered \/ EmitScheduled \/ EmitDirect

Next == \/ Emit \/ LoopPut \/ Evict \/ LoopEnds
        \/ Start \/ Stop \/ MarkInactive
        \/ \E t \in Threads : Render(t)

Spec == Init /\ [][Next]_vars

(* The thread and the event loop are scheduled as long as they have work;  *)
(* nothing obliges anybody to emit, start or stop.                         *)
FairSpec == /\ Spec
            /\ \A t \in Threads : WF_vars(Render(t))
            /\ WF_vars(LoopPut) /\ WF_vars(Evict)
-------------------------------------------------------------------------------
Messages == 1 .. MaxEmits

TypeOK ==
  /\ emitted \in 0 .. MaxEmits /\ active \in BOOLEAN
  /\ loop \in {"none", "running", "ended"}
  /\ buffer \in Seq(Messages) /\ Len(buffer) <= MaxSize
  /\ outgoing \in Seq(Messages) /\ Len(outgoing) <= MaxSize
  /\ scheduled \in Seq(Messages) /\ shown \in Seq(Messages)
  /\ putting \in Seq(Messages) /\ Len(putting) <= 1
  /\ life \in {"down", "up", "stopping"} /\ starts \in 0 .. MaxStarts
  /\ pc \in [Threads -> {"off", "copy", "replay", "poll", "get", "show", "done"}]
  /\ batch \in [Threads -> Seq(Messages)]
  /\ holding \in [Threads -> Seq(Messages)]
  /\ \A t \in Threads : Len(holding[t]) = IF pc[t] = "show" THEN 1 ELSE 0
  /\ \A t \in Threads : pc[t] = "off" <=> t > starts
  /\ dropped \subseteq Messages

Channel == INSTANCE MessageChannel WITH sent <- emitted

(* With one start of the renderer, what the user sees is in the order of   *)
(* emission and without repetition, through buffer, loop, queue, eviction  *)
(* and stop.                                                               *)
ShownInOrder == Channel!Spec

InThreads == UNION {ToSet(batch[t]) \cup ToSet(holding[t]) : t \in Threads}

Located ==
  1 .. emitted \subseteq ToSet(buffer) \cup ToSet(scheduled) \cup ToSet(outgoing)
                          \cup ToSet(putting) \cup InThreads
                          \cup ToSet(shown) \cup dropped

(* While the renderer is up no message vanishes: it is on its way, shown,  *)
(* or dropped because something was full.                                  *)
AccountedWhileUp == life = "up" => Located

(* Whatever the queue or the startup buffer throws away is older than all  *)
(* that stays in it ("full queue drops oldest message").                   *)
DropsOldest ==
  [][ \A d \in dropped' \ dropped :
        LET kept == IF d \in ToSet(outgoing \o putting) THEN outgoing' ELSE buffer'
        IN  \A m \in ToSet(kept) : d < m ]_vars

(* While the renderer is up and its loop runs, every message is shown or   *)
(* dropped in the end.                                                     *)
EventuallyHandled ==
  \A m \in Messages :
    (m <= emitted /\ life = "up" /\ loop # "ended") ~>
      (m \in ToSet(shown) \cup dropped \/ life # "up" \/ loop = "ended")
=============================================================================
