------------------------------- MODULE Threads -------------------------------
(***************************************************************************)
(* Relay Threads: the messages that runs and the operator leave for each   *)
(* other, one journal for each task.  A message waits for its recipient    *)
(* until it is acknowledged or expires.  Sending is guarded by the         *)
(* repository lock, under which runs start and end; reading, acknowledging *)
(* and expiring take the journal's lock only, so a command goes on with    *)
(* what it knew when it began.                                             *)
(***************************************************************************)
EXTENDS Integers, Sequences, FiniteSets

CONSTANTS
  Runs,          \* the runs of the project, one launch each
  Terminals,     \* those in a terminal of the daemon
  Operator,      \* the actor outside every run
  NoOp,          \* no operation id
  Ops,           \* what requests carry: operation ids, or NoOp
  Finishers,     \* invocations of relay finish
  MessageLimit,  \* THREADS_MESSAGE_LIMIT
  ThreadLimit,   \* THREADS_THREAD_LIMIT
  MaxSession,    \* bound: tasks
  MaxCommands,   \* bound: commands under way at once
  MaxCrashes     \* bound: processes that die, and updates that fail

Actors == Runs \cup {Operator}
Sessions == 1..MaxSession

ASSUME ThreadsAssumption ==
  /\ Terminals \subseteq Runs
  /\ Operator \notin Runs
  /\ Ops # {}
  /\ MessageLimit \in Nat \ {0} /\ ThreadLimit \in Nat \ {0}
  /\ MaxSession \in Nat \ {0} /\ MaxCommands \in Nat /\ MaxCrashes \in Nat

VARIABLES
  session, active,  \* state.json: the current task, and whether it is active
  lease,     \* run -> "none", "live", "orphaned"
  sess,      \* run -> the task it was launched in, 0 before
  stage,     \* run -> where its launcher is
  daemon,    \* run -> where the finalization of its terminal is
  token,     \* the runs whose capability descriptor exists
  journal,   \* task -> the messages in the order of their sequence numbers
  recent,    \* task -> the ledger of operations, oldest first
  command,   \* actor -> the task that its command was resolved for, 0: none
  finisher,  \* finisher -> where it is, and the task it has read
  abandoned, \* the runs that nobody is going to expire messages for
  crashes
world == <<session, active, lease, sess, stage, daemon, token, abandoned, crashes>>
vars == <<session, active, lease, sess, stage, daemon, token, journal, recent,
          command, finisher, abandoned, crashes>>

Message == [from: Actors, to: Actors, thread: 1..MessageLimit,
            parent: 0..MessageLimit, ack: BOOLEAN, op: Ops,
            delivery: {"queued", "acknowledged", "expired"}, read: BOOLEAN]
Operation == [actor: Actors, op: Ops \ {NoOp}, message: 1..MessageLimit]
Finisher == [step: {"idle", "checkpoint", "expire"}, session: 0..MaxSession]

TypeOK ==
  /\ session \in Sessions /\ active \in BOOLEAN
  /\ lease \in [Runs -> {"none", "live", "orphaned"}]
  /\ sess \in [Runs -> 0..MaxSession]
  /\ stage \in [Runs -> {"idle", "inserted", "running", "ending", "expiring", "gone"}]
  /\ daemon \in [Runs -> {"idle", "ended", "revoked", "done"}]
  /\ token \subseteq Runs
  /\ journal \in [Sessions -> Seq(Message)]
  /\ recent \in [Sessions -> Seq(Operation)]
  /\ command \in [Actors -> 0..MaxSession]
  /\ finisher \in [Finishers -> Finisher]
  /\ abandoned \subseteq Runs
  /\ crashes \in 0..MaxCrashes

Init ==
  /\ session = 1 /\ active = TRUE
  /\ lease = [r \in Runs |-> "none"]
  /\ sess = [r \in Runs |-> 0]
  /\ stage = [r \in Runs |-> "idle"]
  /\ daemon = [r \in Runs |-> "idle"]
  /\ token = {}
  /\ journal = [s \in Sessions |-> <<>>]
  /\ recent = [s \in Sessions |-> <<>>]
  /\ command = [a \in Actors |-> 0]
  /\ finisher = [f \in Finishers |-> [step |-> "idle", session |-> 0]]
  /\ abandoned = {}
  /\ crashes = 0

-----------------------------------------------------------------------------
(* Commands of an actor: relay thread send, reply, inbox, read, ack.       *)

\* requireCurrentRunLease.
Living(a) == a = Operator \/ (a \in Runs /\ lease[a] = "live")

\* taskContext and resolveCurrentActor: a run needs its descriptor, its lease
\* and the task it was launched in.
Resolve(a) ==
  /\ command[a] = 0 /\ Cardinality({b \in Actors : command[b] # 0}) < MaxCommands
  /\ a = Operator \/ (a \in token /\ Living(a) /\ sess[a] = session)
  /\ command' = [command EXCEPT ![a] = session]
  /\ UNCHANGED <<world, journal, recent, finisher>>

\* The command ends, with an error or with nothing to change.
Abort(a) ==
  /\ command[a] # 0
  /\ command' = [command EXCEPT ![a] = 0]
  /\ UNCHANGED <<world, journal, recent, finisher>>

\* Fault: an operation is remembered for half as many messages.
NewestHalf(ops) ==
  IF 2 * Len(ops) > MessageLimit
  THEN SubSeq(ops, Len(ops) - (MessageLimit \div 2) + 1, Len(ops))
  ELSE ops

\* The operations that the ledger keeps.
Newest(ops) ==
  IF Len(ops) > MessageLimit
  THEN SubSeq(ops, Len(ops) - MessageLimit + 1, Len(ops))
  ELSE ops

Processed(s, a, op) ==
  op # NoOp /\ \E i \in 1..Len(recent[s]) :
                 recent[s][i].actor = a /\ recent[s][i].op = op

\* updateThreadsJournal with an operation: the messages become msgs and m, unless
\* the operation has been processed.
AppendMessage(a, op, msgs, m) ==
  LET s == command[a] IN
  /\ ~Processed(s, a, op)
  /\ Len(msgs) < MessageLimit
  /\ journal' = [journal EXCEPT ![s] = Append(msgs, m)]
  /\ recent' = IF op = NoOp THEN recent
               ELSE [recent EXCEPT ![s] = Newest(Append(@,
                       [actor |-> a, op |-> op, message |-> Len(msgs) + 1]))]
  /\ command' = [command EXCEPT ![a] = 0]
  /\ UNCHANGED <<world, finisher>>

\* withMessageLifecycleGuard: the task and the leases, under the repository lock.
Guarded(a, to) ==
  /\ command[a] = session /\ active
  /\ Living(a) /\ Living(to)
  /\ a # to

Threads(msgs) == {msgs[i].thread : i \in 1..Len(msgs)}

SendMessage(a, to, op) ==
  LET msgs == journal[command[a]] IN
  /\ Guarded(a, to)
  /\ Cardinality(Threads(msgs)) < ThreadLimit
  /\ AppendMessage(a, op, msgs,
       [from |-> a, to |-> to, thread |-> Len(msgs) + 1, parent |-> 0,
        ack |-> FALSE, op |-> op, delivery |-> "queued", read |-> FALSE])

Acknowledged(m) == [m EXCEPT !.delivery = "acknowledged", !.read = TRUE]

\* Fault: an acknowledging reply leaves its parent to a second command.
ReplyAlone(a, i, ack, op) ==
  LET msgs == journal[command[a]]
      parent == msgs[i]
      to == IF parent.from = a THEN parent.to ELSE parent.from
  IN
  /\ a \in {parent.from, parent.to}
  /\ Guarded(a, to)
  /\ ack => a = parent.to /\ parent.delivery # "expired"
  /\ AppendMessage(a, op, msgs,
       [from |-> a, to |-> to, thread |-> parent.thread, parent |-> i,
        ack |-> ack, op |-> op, delivery |-> "queued", read |-> FALSE])

\* A reply goes to the other participant of its parent.  An ack reply also
\* acknowledges the parent, in the same write.
ReplyMessage(a, i, ack, op) ==
  LET msgs == journal[command[a]]
      parent == msgs[i]
      to == IF parent.from = a THEN parent.to ELSE parent.from
  IN
  /\ a \in {parent.from, parent.to}
  /\ Guarded(a, to)
  /\ ack => a = parent.to /\ parent.delivery # "expired"
  /\ AppendMessage(a, op,
       IF ack THEN [msgs EXCEPT ![i] = Acknowledged(@)] ELSE msgs,
       [from |-> a, to |-> to, thread |-> parent.thread, parent |-> i,
        ack |-> ack, op |-> op, delivery |-> "queued", read |-> FALSE])

\* Updates without an operation take the journal's own lock only.
MarkMessageRead(a, i) ==
  /\ journal[command[a]][i].to = a
  /\ journal' = [journal EXCEPT ![command[a]][i].read = TRUE]
  /\ command' = [command EXCEPT ![a] = 0]
  /\ UNCHANGED <<world, recent, finisher>>

\* Fault: a message is acknowledged without a look at its state.
AcknowledgeMessageLate(a, i) ==
  /\ journal[command[a]][i].to = a
  /\ journal' = [journal EXCEPT ![command[a]][i] = Acknowledged(@)]
  /\ command' = [command EXCEPT ![a] = 0]
  /\ UNCHANGED <<world, recent, finisher>>

AcknowledgeMessage(a, i) ==
  /\ journal[command[a]][i].to = a
  /\ journal[command[a]][i].delivery # "expired"
  /\ journal' = [journal EXCEPT ![command[a]][i] = Acknowledged(@)]
  /\ command' = [command EXCEPT ![a] = 0]
  /\ UNCHANGED <<world, recent, finisher>>

\* getInbox without peek.
GetInbox(a) ==
  /\ command[a] # 0
  /\ LET Shown(m) == IF m.to = a THEN [m EXCEPT !.read = TRUE] ELSE m
     IN  journal' = [journal EXCEPT ![command[a]] = [i \in 1..Len(@) |-> Shown(@[i])]]
  /\ command' = [command EXCEPT ![a] = 0]
  /\ UNCHANGED <<world, recent, finisher>>

OnMessage(a) ==
  /\ command[a] # 0
  /\ \E i \in 1..Len(journal[command[a]]) :
       \/ MarkMessageRead(a, i)
       \/ AcknowledgeMessage(a, i)
       \/ \E ack \in BOOLEAN, op \in Ops : ReplyMessage(a, i, ack, op)

Send(a) ==
  /\ command[a] # 0
  /\ \E to \in Actors, op \in Ops : SendMessage(a, to, op)

-----------------------------------------------------------------------------
(* Runs start and end; who ends one expires what is still queued for it.   *)

Leased == {r \in Runs : lease[r] # "none"}

\* prepareRun's insertion.
Launch(r) ==
  /\ stage[r] = "idle" /\ active
  /\ lease' = [lease EXCEPT ![r] = "live"]
  /\ sess' = [sess EXCEPT ![r] = session]
  /\ stage' = [stage EXCEPT ![r] = "inserted"]
  /\ UNCHANGED <<session, active, daemon, token, journal, recent, command,
                 finisher, abandoned, crashes>>

\* issueMessageCapability, and the spawn of the provider.
Spawn(r) ==
  /\ stage[r] = "inserted"
  /\ token' = token \cup {r}
  /\ stage' = [stage EXCEPT ![r] = "running"]
  /\ UNCHANGED <<session, active, lease, sess, daemon, journal, recent, command,
                 finisher, abandoned, crashes>>

\* finalize begins: the provider has exited, or was never spawned.
Revoke(r) ==
  /\ stage[r] \in {"inserted", "running"}
  /\ token' = token \ {r}
  /\ stage' = [stage EXCEPT ![r] = "ending"]
  /\ UNCHANGED <<session, active, lease, sess, daemon, journal, recent, command,
                 finisher, abandoned, crashes>>

\* The finalizing update; a run of an earlier task is left alone.
EndRun(r) ==
  /\ stage[r] = "ending"
  /\ lease' = [lease EXCEPT ![r] = IF sess[r] = session THEN "none" ELSE @]
  /\ stage' = [stage EXCEPT ![r] = "expiring"]
  /\ UNCHANGED <<session, active, sess, daemon, token, journal, recent, command,
                 finisher, abandoned, crashes>>

\* Its retries are used up: the run is orphaned, and nothing is expired.
EndRunFails(r) ==
  /\ stage[r] = "ending" /\ crashes < MaxCrashes
  /\ lease' = [lease EXCEPT ![r] = IF @ = "live" THEN "orphaned" ELSE @]
  /\ stage' = [stage EXCEPT ![r] = "gone"]
  /\ crashes' = crashes + 1
  /\ UNCHANGED <<session, active, sess, daemon, token, journal, recent, command,
                 finisher, abandoned>>

\* Fault: only messages that nobody has read expire.
ExpireUnread(s, recipients) ==
  LET Expired(m) == IF m.delivery = "queued" /\ ~m.read /\ m.to \in recipients
                    THEN [m EXCEPT !.delivery = "expired"] ELSE m
  IN  journal' = [journal EXCEPT ![s] = [i \in 1..Len(@) |-> Expired(@[i])]]

\* expireQueuedMessages, of those for the recipients.
ExpireQueuedMessages(s, recipients) ==
  LET Expired(m) == IF m.delivery = "queued" /\ m.to \in recipients
                    THEN [m EXCEPT !.delivery = "expired"] ELSE m
  IN  journal' = [journal EXCEPT ![s] = [i \in 1..Len(@) |-> Expired(@[i])]]

ExpireFor(r) ==
  /\ stage[r] = "expiring"
  /\ ExpireQueuedMessages(sess[r], {r})
  /\ stage' = [stage EXCEPT ![r] = "gone"]
  /\ UNCHANGED <<session, active, lease, sess, daemon, token, recent, command,
                 finisher, abandoned, crashes>>

\* The launcher dies, or cannot take the journal's lock to expire: between the
\* update and the expiry that is for good.
Crash(r) ==
  /\ stage[r] \in {"inserted", "running", "ending", "expiring"}
  /\ crashes < MaxCrashes
  /\ stage' = [stage EXCEPT ![r] = "gone"]
  /\ abandoned' = IF stage[r] = "expiring" THEN abandoned \cup {r} ELSE abandoned
  /\ crashes' = crashes + 1
  /\ UNCHANGED <<session, active, lease, sess, daemon, token, journal, recent,
                 command, finisher>>

\* finalizeTerminalRun, when the process tree of the terminal is gone: the update,
\* the descriptor, the messages.
DaemonEnd(r) ==
  /\ r \in Terminals /\ daemon[r] = "idle"
  /\ stage[r] = "gone" /\ sess[r] = session
  /\ lease' = [lease EXCEPT ![r] = "none"]
  /\ daemon' = [daemon EXCEPT ![r] = "ended"]
  /\ UNCHANGED <<session, active, sess, stage, token, journal, recent, command,
                 finisher, abandoned, crashes>>

DaemonRevoke(r) ==
  /\ daemon[r] = "ended"
  /\ token' = token \ {r}
  /\ daemon' = [daemon EXCEPT ![r] = "revoked"]
  /\ UNCHANGED <<session, active, lease, sess, stage, journal, recent, command,
                 finisher, abandoned, crashes>>

DaemonExpire(r) ==
  /\ daemon[r] = "revoked"
  /\ ExpireQueuedMessages(sess[r], {r})
  /\ daemon' = [daemon EXCEPT ![r] = "done"]
  /\ UNCHANGED <<session, active, lease, sess, stage, token, recent, command,
                 finisher, abandoned, crashes>>

\* The daemon dies in between, or its expiry fails, which it ignores.
DaemonCrash(r) ==
  /\ daemon[r] \in {"ended", "revoked"} /\ crashes < MaxCrashes
  /\ daemon' = [daemon EXCEPT ![r] = "done"]
  /\ abandoned' = abandoned \cup {r}
  /\ crashes' = crashes + 1
  /\ UNCHANGED <<session, active, lease, sess, stage, token, journal, recent,
                 command, finisher>>

\* A reconciliation finds the launcher gone.
MarkOrphaned(r) ==
  /\ stage[r] = "gone" /\ lease[r] = "live"
  /\ lease' = [lease EXCEPT ![r] = "orphaned"]
  /\ UNCHANGED <<session, active, sess, stage, daemon, token, journal, recent,
                 command, finisher, abandoned, crashes>>

\* recoverOrphanedRun ends the run and does neither of the other two things.
RecoverOrphanedRun(r) ==
  /\ lease[r] = "orphaned"
  /\ lease' = [lease EXCEPT ![r] = "none"]
  /\ abandoned' = abandoned \cup {r}
  /\ UNCHANGED <<session, active, sess, stage, daemon, token, journal, recent,
                 command, finisher, crashes>>

-----------------------------------------------------------------------------
(* The task is finished, and the next one started.                         *)

BeginFinish(f) ==
  /\ finisher[f].step = "idle" /\ active /\ Leased = {}
  /\ finisher' = [finisher EXCEPT ![f] = [step |-> "checkpoint", session |-> session]]
  /\ UNCHANGED <<world, journal, recent, command>>

\* Fault: the task is closed and its messages stay as they are.
CloseTaskOnly(f) ==
  /\ finisher[f].step = "checkpoint"
  /\ active' = (active /\ Leased # {})
  /\ finisher' = [finisher EXCEPT ![f] = [step |-> "idle", session |-> 0]]
  /\ UNCHANGED <<session, lease, sess, stage, daemon, token, journal, recent,
                 command, abandoned, crashes>>

\* The closing update completes the task that is current by then.
CloseTask(f) ==
  /\ finisher[f].step = "checkpoint"
  /\ IF Leased = {}
     THEN active' = FALSE /\ finisher' = [finisher EXCEPT ![f].step = "expire"]
     ELSE active' = active
          /\ finisher' = [finisher EXCEPT ![f] = [step |-> "idle", session |-> 0]]
  /\ UNCHANGED <<session, lease, sess, stage, daemon, token, journal, recent,
                 command, abandoned, crashes>>

ExpireTask(f) ==
  /\ finisher[f].step = "expire"
  /\ ExpireQueuedMessages(finisher[f].session, Actors)
  /\ finisher' = [finisher EXCEPT ![f] = [step |-> "idle", session |-> 0]]
  /\ UNCHANGED <<world, recent, command>>

StartTask ==
  /\ ~active /\ Leased = {} /\ session < MaxSession
  /\ session' = session + 1
  /\ active' = TRUE
  /\ UNCHANGED <<lease, sess, stage, daemon, token, journal, recent, command,
                 finisher, abandoned, crashes>>

-----------------------------------------------------------------------------

Next ==
  \/ \E a \in Actors :
       Resolve(a) \/ Abort(a) \/ Send(a) \/ OnMessage(a) \/ GetInbox(a)
  \/ \E r \in Runs :
       \/ Launch(r) \/ Spawn(r) \/ Revoke(r) \/ EndRun(r) \/ EndRunFails(r)
       \/ ExpireFor(r) \/ Crash(r)
       \/ DaemonEnd(r) \/ DaemonRevoke(r) \/ DaemonExpire(r) \/ DaemonCrash(r)
       \/ MarkOrphaned(r) \/ RecoverOrphanedRun(r)
  \/ \E f \in Finishers : BeginFinish(f) \/ CloseTask(f) \/ ExpireTask(f)
  \/ StartTask

Spec == Init /\ [][Next]_vars

-----------------------------------------------------------------------------
(* Properties.                                                             *)

\* A message that is acknowledged or expired stays so, and one that was read stays
\* read, whatever command was under way: the journal only grows at its end, and
\* only a queued message changes its state (service.ts).
ForwardOnly ==
  [][\A s \in Sessions :
       /\ Len(journal'[s]) >= Len(journal[s])
       /\ \A i \in 1..Len(journal[s]) :
            LET m == journal[s][i]  n == journal'[s][i] IN
            /\ n = [m EXCEPT !.delivery = n.delivery, !.read = n.read]
            /\ m.delivery # "queued" => n.delivery = m.delivery
            /\ m.read => n.read]_vars

\* A request that is repeated with its operation id, after any number of other
\* messages, leaves one message (updateThreadsJournal and its bounded ledger).
SentOnce ==
  \A s \in Sessions : \A i, j \in 1..Len(journal[s]) :
    LET m == journal[s][i]  n == journal[s][j] IN
    m.op # NoOp /\ m.op = n.op /\ m.from = n.from => i = j

\* No command leaves a journal that the schema of the next one would refuse: the
\* limits, replies between the participants of their parent's thread, and an
\* acknowledging reply only of an acknowledged message, by its recipient.
Readable ==
  \A s \in Sessions :
    LET msgs == journal[s] IN
    /\ Len(msgs) <= MessageLimit
    /\ Cardinality({i \in 1..Len(msgs) : msgs[i].parent = 0}) <= ThreadLimit
    /\ \A i \in 1..Len(msgs) :
         LET m == msgs[i]  p == msgs[m.parent] IN
         IF m.parent = 0 THEN m.thread = i
         ELSE /\ m.parent < i /\ p.thread = m.thread
              /\ {m.from, m.to} = {p.from, p.to}
              /\ m.ack => m.from = p.to /\ p.delivery = "acknowledged"
    /\ \A i \in 1..Len(recent[s]) : recent[s][i].message <= Len(msgs)

\* A message that is queued for a run has somebody who will answer for it: the run
\* still has its lease, or its launcher or the daemon is about to expire the
\* message.  Exempt are runs that were recovered by hand, or whose launcher died
\* after the update (sessions.ts 863, 332).
QueuedIsCared ==
  \A s \in Sessions : \A i \in 1..Len(journal[s]) :
    LET m == journal[s][i] IN
    m.delivery = "queued" /\ m.to # Operator =>
      \/ lease[m.to] # "none"
      \/ stage[m.to] = "expiring"
      \/ daemon[m.to] \in {"ended", "revoked"}
      \/ m.to \in abandoned

\* When a task is closed and every finish is over, none of its messages is queued.
ClosedTaskIsQuiet ==
  ~active /\ (\A f \in Finishers : finisher[f].step # "expire") =>
    \A i \in 1..Len(journal[session]) :
      journal[session][i].delivery # "queued"

=============================================================================
