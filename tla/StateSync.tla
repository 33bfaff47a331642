------------------------------ MODULE StateSync ------------------------------
(***************************************************************************)
(* How the daemon brings the status of one agent terminal to the           *)
(* repository state.  A queue holds one call of the bridge under way and    *)
(* one task that waits; a task is a promise that several callers may await, *)
(* and its snapshot is taken when its call begins.  The end of a terminal   *)
(* is sent up to three times and then left to the heartbeat.  Forgetting a  *)
(* terminal and closing the daemon drop the queue while a call is under way.*)
(***************************************************************************)
EXTENDS Integers, Sequences

CONSTANTS
  Attempts,  \* how often finalize sends the end
  None,      \* no task, no call
  MaxSeq     \* bound: the terminal's sequence number

ASSUME SyncAssumption == Attempts \in Nat \ {0} /\ MaxSeq \in Nat

VARIABLES
  seq,       \* terminal.sequence
  ended,     \* its status is a final one
  finalizing,\* finalize: "no", "result", then "await" its task, "sleep", "done"
  attempts,  \* of finalize
  pending,   \* terminal.stateSyncPending
  queue,     \* the entry of terminalSyncQueues: call and next
  detached,  \* queues that were dropped with a call under way
  forgotten,
  shut,      \* close(): "no", "closing", "severed" (no connection is left), "exited"
  received   \* the newest snapshot that the repository state has
terminal == <<seq, ended, finalizing, attempts, pending>>
syncVars == <<terminal, queue, detached, forgotten, shut, received>>

Priority == [final |-> 3, transition |-> 2, heartbeat |-> 1]
Callers == {"finalize", "heartbeat"}
Snapshot == [seq: 0..MaxSeq, ended: BOOLEAN]
Task == [priority: DOMAIN Priority, awaited: SUBSET Callers]
Call == [priority: DOMAIN Priority, awaited: SUBSET Callers,
         seq: 0..MaxSeq, ended: BOOLEAN, applied: BOOLEAN]
Queue == [call: Call \cup {None}, next: Task \cup {None}]

ASSUME NoneAssumption == None \notin Task /\ None \notin Call

\* No call and no task.
Empty == [call |-> None, next |-> None]

SyncTypeOK ==
  /\ seq \in 0..MaxSeq /\ ended \in BOOLEAN
  /\ finalizing \in {"no", "result", "await", "sleep", "done"}
  /\ attempts \in 0..Attempts
  /\ pending \in BOOLEAN
  /\ queue \in Queue /\ detached \in Seq(Queue)
  /\ forgotten \in BOOLEAN /\ shut \in {"no", "closing", "severed", "exited"}
  /\ received \in Snapshot

SyncInit ==
  /\ seq = 0 /\ ended = FALSE
  /\ finalizing = "no" /\ attempts = 0 /\ pending = FALSE
  /\ queue = Empty /\ detached = <<>>
  /\ forgotten = FALSE /\ shut = "no"
  /\ received = [seq |-> 0, ended |-> FALSE]

\* The daemon's process has not exited; its clients can still reach it.
Serving == shut # "exited"
Reachable == shut \in {"no", "closing"}

-----------------------------------------------------------------------------
(* The queue.                                                              *)

\* processNextSync: the next task's call begins with a snapshot of the terminal
\* as it is after this step.
Begun(q, s, e) ==
  IF q.call = None /\ q.next # None
  THEN [call |-> [priority |-> q.next.priority, awaited |-> q.next.awaited,
                  seq |-> s, ended |-> e, applied |-> FALSE],
        next |-> None]
  ELSE q

Higher(p, q) == IF Priority[p] > Priority[q] THEN p ELSE q

\* Fault: a task joins the call that is under way.
QueuedBehind(q, p, who) ==
  IF q.call # None THEN [q EXCEPT !.call.awaited = @ \cup who]
  ELSE [q EXCEPT !.next = [priority |-> p, awaited |-> who]]

\* A task joins the one that waits, and raises its priority.
Queued(q, p, who) ==
  [q EXCEPT !.next =
     IF @ = None THEN [priority |-> p, awaited |-> who]
     ELSE [priority |-> Higher(p, @.priority), awaited |-> @.awaited \cup who]]

\* syncTerminal, with the terminal's sequence and status after this step.
SyncTerminal(p, who, s, e) == queue' = Begun(Queued(queue, p, who), s, e)

\* What callers see of finished tasks: those of good succeed, those of bad fail.
\* A success clears stateSyncPending; a failure of finalize's task is retried.
Settle(good, bad) ==
  /\ pending' = (pending /\ good = {})
  /\ finalizing' =
       IF finalizing # "await" THEN finalizing
       ELSE IF "finalize" \in good THEN "done"
       ELSE IF "finalize" \in bad
            THEN IF attempts < Attempts THEN "sleep" ELSE "done"
       ELSE finalizing
  /\ seq' = IF "heartbeat" \in good /\ seq < MaxSeq THEN seq + 1 ELSE seq
  /\ UNCHANGED <<ended, attempts>>

\* The call of a queue ends: a successful one that carried the end also answers a
\* heartbeat that waits behind it.
Answers(q, ok) ==
  ok /\ q.call.priority = "final" /\ q.next # None /\ q.next.priority = "heartbeat"

After(q, ok) ==
  Begun([call |-> None, next |-> IF Answers(q, ok) THEN None ELSE q.next], seq, ended)

AwaitedBy(q, ok) ==
  q.call.awaited \cup (IF Answers(q, ok) THEN q.next.awaited ELSE {})

\* Fault: the bridge commits whatever arrives.
ReceivedAlways(c) == received' = [seq |-> c.seq, ended |-> c.ended]

Later(m, n) == IF m > n THEN m ELSE n

\* The bridge commits a snapshot.  It refuses one that is older than the last; the
\* end is recorded whatever its number, but only once.
Received(c) ==
  received' =
    IF c.ended
    THEN IF received.ended THEN received
         ELSE [seq |-> Later(c.seq, received.seq), ended |-> TRUE]
    ELSE IF c.seq >= received.seq THEN [seq |-> c.seq, ended |-> FALSE] ELSE received

Apply ==
  /\ queue.call # None /\ ~queue.call.applied
  /\ Received(queue.call)
  /\ queue' = [queue EXCEPT !.call.applied = TRUE]
  /\ UNCHANGED <<terminal, detached, forgotten, shut>>

\* A call fails before it is applied or, by a lost answer, after.
Return(ok) ==
  /\ Serving /\ queue.call # None /\ (ok => queue.call.applied)
  /\ queue' = After(queue, ok)
  /\ IF ok THEN Settle(AwaitedBy(queue, ok), {}) ELSE Settle({}, queue.call.awaited)
  /\ UNCHANGED <<detached, forgotten, shut, received>>

\* The same for a queue that was dropped.  A queue that has become empty removes
\* the terminal's entry, whichever queue that is by now.
ApplyDetached(i) ==
  /\ ~detached[i].call.applied
  /\ Received(detached[i].call)
  /\ detached' = [detached EXCEPT ![i].call.applied = TRUE]
  /\ UNCHANGED <<terminal, queue, forgotten, shut>>

Without(s, i) == SubSeq(s, 1, i - 1) \o SubSeq(s, i + 1, Len(s))

ReturnDetached(i, ok) ==
  LET q == detached[i]  rest == After(q, ok) IN
  /\ Serving
  /\ ok => q.call.applied
  /\ IF rest # Empty
     THEN detached' = [detached EXCEPT ![i] = rest] /\ queue' = queue
     ELSE IF finalizing # "no" /\ queue.call # None
     THEN detached' = Append(Without(detached, i), queue) /\ queue' = Empty
     ELSE detached' = Without(detached, i) /\ queue' = queue
  /\ IF ok THEN Settle(AwaitedBy(q, ok), {}) ELSE Settle({}, q.call.awaited)
  /\ UNCHANGED <<forgotten, shut, received>>

-----------------------------------------------------------------------------
(* The terminal.                                                           *)

Transition ==
  /\ Serving /\ ~ended /\ seq < MaxSeq - 1
  /\ seq' = seq + 1
  /\ SyncTerminal("transition", {}, seq', FALSE)
  /\ UNCHANGED <<ended, finalizing, attempts, pending, detached, forgotten, shut,
                 received>>

\* resize, interrupt and set_hidden: a new sequence number that is not sent of its own.
Touch ==
  /\ Reachable /\ ~forgotten /\ seq < MaxSeq - 1
  /\ seq' = seq + 1
  /\ UNCHANGED <<ended, finalizing, attempts, pending, queue, detached, forgotten,
                 shut, received>>

\* Fault: the timer looks at active terminals only.
HeartbeatActive ==
  /\ ~forgotten /\ shut = "no" /\ ~ended
  /\ SyncTerminal("heartbeat", {}, seq, ended)
  /\ UNCHANGED <<terminal, detached, forgotten, shut, received>>

\* The timer: an active terminal, or one whose end is still to be delivered.
Heartbeat ==
  /\ ~forgotten /\ shut = "no"
  /\ ~ended \/ pending
  /\ SyncTerminal("heartbeat", IF ended THEN {"heartbeat"} ELSE {}, seq, ended)
  /\ UNCHANGED <<terminal, detached, forgotten, shut, received>>

\* finalize begins, and awaits the provider's result.
FinalizeBegins ==
  /\ Serving /\ finalizing = "no"
  /\ finalizing' = "result"
  /\ UNCHANGED <<seq, ended, attempts, pending, queue, detached, forgotten, shut,
                 received>>

\* The status is final, and the end is sent for the first time.
FinalizeSyncs ==
  /\ Serving /\ finalizing = "result" /\ seq < MaxSeq
  /\ ended' = TRUE /\ seq' = seq + 1
  /\ pending' = TRUE
  /\ finalizing' = "await" /\ attempts' = 1
  /\ SyncTerminal("final", {"finalize"}, seq', TRUE)
  /\ UNCHANGED <<detached, forgotten, shut, received>>

Retry ==
  /\ Serving /\ finalizing = "sleep"
  /\ finalizing' = "await" /\ attempts' = attempts + 1
  /\ SyncTerminal("final", {"finalize"}, seq, ended)
  /\ UNCHANGED <<seq, ended, pending, detached, forgotten, shut, received>>

\* Fault: the waiting task is dropped without an answer.
DropSilently ==
  /\ detached' = IF queue.call = None THEN detached
                 ELSE Append(detached, [queue EXCEPT !.next = None])
  /\ queue' = Empty
  /\ UNCHANGED terminal

\* The queue is dropped: its waiting task fails, its call goes on.
Drop ==
  /\ detached' = IF queue.call = None THEN detached
                 ELSE Append(detached, [queue EXCEPT !.next = None])
  /\ queue' = Empty
  /\ Settle({}, IF queue.next = None THEN {} ELSE queue.next.awaited)

ForgetSync ==
  /\ Reachable /\ ended /\ ~forgotten
  /\ forgotten' = TRUE
  /\ Drop
  /\ UNCHANGED <<shut, received>>

\* close() begins: the queues are dropped, and the timer of the heartbeat stops.
Close ==
  /\ shut = "no" /\ shut' = "closing"
  /\ Drop
  /\ UNCHANGED <<forgotten, received>>

\* close() waits for active terminals, and for no more than six seconds: one that is
\* final already and awaits its task is not waited for.  Then the connections go.
Sever ==
  /\ shut = "closing" /\ shut' = "severed"
  /\ UNCHANGED <<terminal, queue, detached, forgotten, received>>

\* The daemon exits; what the bridge has been asked it may still do.
DaemonExits ==
  /\ shut = "severed" /\ shut' = "exited"
  /\ UNCHANGED <<terminal, queue, detached, forgotten, received>>

SyncNext ==
  \/ Transition \/ Touch \/ Heartbeat
  \/ FinalizeBegins \/ FinalizeSyncs \/ Retry \/ ForgetSync
  \/ Close \/ Sever \/ DaemonExits
  \/ Apply \/ \E i \in 1..Len(detached) : ApplyDetached(i)
  \/ \E ok \in BOOLEAN :
       Return(ok) \/ \E i \in 1..Len(detached) : ReturnDetached(i, ok)

SyncSpec == SyncInit /\ [][SyncNext]_syncVars

\* Timers fire, calls return, and the bridge works again and again.  A shutdown need
\* not begin, nor go on.
SyncFairSpec ==
  /\ SyncSpec
  /\ WF_syncVars(Heartbeat) /\ WF_syncVars(Retry)
  /\ WF_syncVars(\E ok \in BOOLEAN : Return(ok))
  /\ WF_syncVars(\E ok \in BOOLEAN, i \in 1..Len(detached) : ReturnDetached(i, ok))
  /\ SF_syncVars(Serving /\ Apply) /\ SF_syncVars(Return(TRUE))

-----------------------------------------------------------------------------
(* Properties.                                                             *)

\* cleanupPending is not withdrawn before the repository state has the end, by
\* whichever attempt, coalesced task or heartbeat it got there (server.mjs 392).
ClearedMeansReceived == ended /\ ~pending => received.ended

\* The repository state never goes back, not even when a dropped queue's call
\* ends beside a new queue's.
NeverBack ==
  [][/\ received'.seq >= received.seq
     /\ received.ended => received'.ended]_syncVars

\* The end reaches the repository state, however often the bridge fails, unless the
\* terminal is forgotten or close() has begun: then only finalize's own attempts are
\* left, and no heartbeat.
EndDelivered == ended ~> received.ended \/ forgotten \/ shut # "no"

\* The exit event is published, even when the terminal is forgotten or close() drops
\* the queue while finalize awaits a task.  It is not when close() destroys the
\* connections first: its loops pass over a terminal that is final already.
ExitPublished == ended ~> finalizing = "done" \/ ~Reachable

=============================================================================
