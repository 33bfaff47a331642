---------------------------- MODULE ThreadsProofs ----------------------------
(***************************************************************************)
(* Proofs about Threads, for any runs, operation ids and limits: its       *)
(* types, how a journal changes, that a repeated request leaves one        *)
(* message, and that a queued message has somebody who answers for it.     *)
(***************************************************************************)
EXTENDS Threads, FiniteSetTheorems, SequenceTheorems, TLAPS

\* What a command or an expiry may make of a message.
Turned(m, n) ==
  /\ n \in Message
  /\ n = [m EXCEPT !.delivery = n.delivery, !.read = n.read]
  /\ m.delivery # "queued" => n.delivery = m.delivery
  /\ m.read => n.read

\* And of a journal, but for a new message.
Rewritten(msgs, next) ==
  /\ next \in Seq(Message) /\ Len(next) = Len(msgs)
  /\ \A i \in 1..Len(msgs) : Turned(msgs[i], next[i])

\* A step that rewrites a journal, and one that appends a message to one.
RewriteStep ==
  /\ recent' = recent
  /\ \E s \in Sessions, next \in Seq(Message) :
       /\ Rewritten(journal[s], next)
       /\ journal' = [journal EXCEPT ![s] = next]

\* The new message begins a thread, or answers a message as Readable asks.
Fits(msgs, m) ==
  \/ /\ m.parent = 0 /\ m.thread = Len(msgs) + 1
     /\ Cardinality(Threads(msgs)) < ThreadLimit
  \/ /\ m.parent \in 1..Len(msgs)
     /\ LET p == msgs[m.parent] IN
        /\ p.thread = m.thread /\ {m.from, m.to} = {p.from, p.to}
        /\ m.ack => m.from = p.to /\ p.delivery = "acknowledged"

AppendStep ==
  \E a \in Actors, op \in Ops, msgs \in Seq(Message), m \in Message :
    /\ AppendMessage(a, op, msgs, m) /\ command[a] \in Sessions
    /\ Rewritten(journal[command[a]], msgs)
    /\ m.from = a /\ m.op = op /\ m.delivery = "queued" /\ Guarded(a, m.to)
    /\ Fits(msgs, m)

-----------------------------------------------------------------------------
(* Journals.                                                               *)

LEMMA TurnedSame ==
  ASSUME NEW m \in Message
  PROVE  Turned(m, m)
BY DEF Turned, Message

LEMMA TurnedRead ==
  ASSUME NEW m \in Message
  PROVE  Turned(m, [m EXCEPT !.read = TRUE])
BY DEF Turned, Message

LEMMA TurnedAcknowledged ==
  ASSUME NEW m \in Message, m.delivery # "expired"
  PROVE  Turned(m, Acknowledged(m))
BY DEF Turned, Message, Acknowledged

LEMMA TurnedExpired ==
  ASSUME NEW m \in Message, m.delivery = "queued"
  PROVE  Turned(m, [m EXCEPT !.delivery = "expired"])
BY DEF Turned, Message

LEMMA TurnedKeeps ==
  ASSUME NEW m \in Message, NEW n, Turned(m, n)
  PROVE  /\ n.from = m.from /\ n.to = m.to /\ n.op = m.op
         /\ n.thread = m.thread /\ n.parent = m.parent /\ n.ack = m.ack
         /\ n.delivery = "queued" => m.delivery = "queued"
         /\ m.delivery = "acknowledged" => n.delivery = "acknowledged"
<1>1. n = [m EXCEPT !.delivery = n.delivery, !.read = n.read]
  BY DEF Turned
<1>2. /\ n.from = m.from /\ n.to = m.to /\ n.op = m.op
      /\ n.thread = m.thread /\ n.parent = m.parent /\ n.ack = m.ack
  BY <1>1 DEF Message
<1>3. m.delivery # "queued" => n.delivery = m.delivery
  BY DEF Turned
<1> QED BY <1>2, <1>3

\* One message of a journal is replaced.
LEMMA RewrittenAt ==
  ASSUME NEW msgs \in Seq(Message), NEW i \in 1..Len(msgs), NEW n \in Message,
         Turned(msgs[i], n)
  PROVE  Rewritten(msgs, [msgs EXCEPT ![i] = n])
<1>1. \A j \in 1..Len(msgs) : msgs[j] \in Message
  BY ElementOfSeq
<1> QED BY <1>1, ExceptSeq, TurnedSame DEF Rewritten

\* All of them are.
LEMMA RewrittenAll ==
  ASSUME NEW msgs \in Seq(Message), NEW f,
         \A i \in 1..Len(msgs) : Turned(msgs[i], f[i]),
         f = [i \in 1..Len(msgs) |-> f[i]]
  PROVE  Rewritten(msgs, f)
<1>1. Len(msgs) \in Nat
  BY LenProperties
<1>2. \A i \in 1..Len(msgs) : f[i] \in Message
  BY DEF Turned
<1>3. f \in [1..Len(msgs) -> Message]
  BY <1>2
<1>4. f \in Seq(Message) /\ Len(f) = Len(msgs)
  BY <1>1, <1>3
<1> QED BY <1>4 DEF Rewritten

LEMMA ReadStep ==
  ASSUME TypeOK, NEW a \in Actors, command[a] \in Sessions,
         NEW i \in 1..Len(journal[command[a]]), MarkMessageRead(a, i)
  PROVE  RewriteStep
<1> DEFINE s == command[a]
           n == [journal[s][i] EXCEPT !.read = TRUE]
<1>1. journal[s] \in Seq(Message) /\ journal[s][i] \in Message
  BY ElementOfSeq DEF TypeOK
<1>2. n \in Message /\ Turned(journal[s][i], n)
  BY <1>1, TurnedRead DEF Turned
<1>3. Rewritten(journal[s], [journal[s] EXCEPT ![i] = n])
  BY <1>1, <1>2, RewrittenAt
<1>4. journal' = [journal EXCEPT ![s] = [journal[s] EXCEPT ![i] = n]]
  BY DEF MarkMessageRead, TypeOK
<1> QED BY <1>3, <1>4 DEF RewriteStep, Rewritten, MarkMessageRead

LEMMA AcknowledgeStep ==
  ASSUME TypeOK, NEW a \in Actors, command[a] \in Sessions,
         NEW i \in 1..Len(journal[command[a]]), AcknowledgeMessage(a, i)
  PROVE  RewriteStep
<1> DEFINE s == command[a]
           n == Acknowledged(journal[s][i])
<1>1. journal[s] \in Seq(Message) /\ journal[s][i] \in Message
  BY ElementOfSeq DEF TypeOK
<1>2. n \in Message /\ Turned(journal[s][i], n)
  BY <1>1, TurnedAcknowledged DEF Turned, AcknowledgeMessage
<1>3. Rewritten(journal[s], [journal[s] EXCEPT ![i] = n])
  BY <1>1, <1>2, RewrittenAt
<1>4. journal' = [journal EXCEPT ![s] = [journal[s] EXCEPT ![i] = n]]
  BY DEF AcknowledgeMessage, TypeOK
<1> QED BY <1>3, <1>4 DEF RewriteStep, Rewritten, AcknowledgeMessage

LEMMA InboxStep ==
  ASSUME TypeOK, NEW a \in Actors, command[a] \in Sessions, GetInbox(a)
  PROVE  RewriteStep
<1> DEFINE s == command[a]
           Shown(m) == IF m.to = a THEN [m EXCEPT !.read = TRUE] ELSE m
           f == [i \in 1..Len(journal[s]) |-> Shown(journal[s][i])]
<1>1. journal[s] \in Seq(Message)
      /\ \A i \in 1..Len(journal[s]) : journal[s][i] \in Message
  BY ElementOfSeq DEF TypeOK
<1>2. \A i \in 1..Len(journal[s]) : Turned(journal[s][i], f[i])
  BY <1>1, TurnedRead, TurnedSame
<1>3. Rewritten(journal[s], f)
  BY <1>1, <1>2, RewrittenAll
<1>4. journal' = [journal EXCEPT ![s] = f]
  BY DEF GetInbox, TypeOK
<1> QED BY <1>3, <1>4 DEF RewriteStep, Rewritten, GetInbox

\* Expiry of what is queued for one run: nothing queued for it is left.
LEMMA ExpireRunStep ==
  ASSUME TypeOK, NEW r \in Runs, sess[r] \in Sessions, recent' = recent,
         ExpireQueuedMessages(sess[r], {r})
  PROVE  /\ RewriteStep
         /\ \A i \in 1..Len(journal'[sess[r]]) :
              journal'[sess[r]][i].to = r => journal'[sess[r]][i].delivery # "queued"
<1> DEFINE s == sess[r]
           Expired(m) == IF m.delivery = "queued" /\ m.to \in {r}
                         THEN [m EXCEPT !.delivery = "expired"] ELSE m
           f == [i \in 1..Len(journal[s]) |-> Expired(journal[s][i])]
<1>1. journal[s] \in Seq(Message)
      /\ \A i \in 1..Len(journal[s]) : journal[s][i] \in Message
  BY ElementOfSeq DEF TypeOK
<1>2. \A i \in 1..Len(journal[s]) : Turned(journal[s][i], f[i])
  BY <1>1, TurnedExpired, TurnedSame
<1>3. Rewritten(journal[s], f)
  BY <1>1, <1>2, RewrittenAll
<1>4. journal' = [journal EXCEPT ![s] = f]
  BY DEF ExpireQueuedMessages, TypeOK
<1>5. \A i \in 1..Len(f) : f[i].to = r => f[i].delivery # "queued"
  <2> SUFFICES ASSUME NEW i \in 1..Len(journal[s]), f[i].to = r
               PROVE  f[i].delivery # "queued"
    BY <1>3 DEF Rewritten
  <2>1. f[i] = Expired(journal[s][i]) /\ journal[s][i] \in Message
    BY <1>1
  <2> QED BY <2>1 DEF Message
<1>6. journal'[s] = f
  BY <1>4 DEF TypeOK
<1>7. RewriteStep
  BY <1>3, <1>4 DEF RewriteStep, Rewritten
<1> QED BY <1>5, <1>6, <1>7

LEMMA ExpireTaskStep ==
  ASSUME TypeOK, NEW s \in Sessions, recent' = recent,
         ExpireQueuedMessages(s, Actors)
  PROVE  RewriteStep
<1> DEFINE Expired(m) == IF m.delivery = "queued" /\ m.to \in Actors
                         THEN [m EXCEPT !.delivery = "expired"] ELSE m
           f == [i \in 1..Len(journal[s]) |-> Expired(journal[s][i])]
<1>1. journal[s] \in Seq(Message)
      /\ \A i \in 1..Len(journal[s]) : journal[s][i] \in Message
  BY ElementOfSeq DEF TypeOK
<1>2. \A i \in 1..Len(journal[s]) : Turned(journal[s][i], f[i])
  BY <1>1, TurnedExpired, TurnedSame
<1>3. Rewritten(journal[s], f)
  BY <1>1, <1>2, RewrittenAll
<1>4. journal' = [journal EXCEPT ![s] = f]
  BY DEF ExpireQueuedMessages, TypeOK
<1> QED BY <1>3, <1>4 DEF RewriteStep, Rewritten

\* A new message.
LEMMA SendStep ==
  ASSUME TypeOK, NEW a \in Actors, command[a] \in Sessions, Send(a)
  PROVE  AppendStep
<1>1. PICK to \in Actors, op \in Ops : SendMessage(a, to, op)
  BY DEF Send
<1> DEFINE msgs == journal[command[a]]
           m == [from |-> a, to |-> to, thread |-> Len(msgs) + 1, parent |-> 0,
                 ack |-> FALSE, op |-> op, delivery |-> "queued", read |-> FALSE]
<1>2. msgs \in Seq(Message) /\ Len(msgs) \in Nat
  BY LenProperties DEF TypeOK
<1>3. AppendMessage(a, op, msgs, m) /\ Guarded(a, to)
  BY <1>1 DEF SendMessage
<1>4. m \in Message
  <2>1. Len(msgs) < MessageLimit
    BY <1>3 DEF AppendMessage
  <2>2. Len(msgs) + 1 \in 1..MessageLimit
    BY <1>2, <2>1, ThreadsAssumption
  <2> QED BY <2>2, ThreadsAssumption DEF Message
<1>5. Rewritten(msgs, msgs)
  BY <1>2, ElementOfSeq, TurnedSame DEF Rewritten
<1> HIDE DEF m
<1>6. m.from = a /\ m.op = op /\ m.delivery = "queued" /\ m.to = to
  BY DEF m
<1>7. Fits(msgs, m)
  <2>1. m.parent = 0 /\ m.thread = Len(msgs) + 1
    BY DEF m
  <2>2. Cardinality(Threads(msgs)) < ThreadLimit
    BY <1>1 DEF SendMessage
  <2> QED BY <2>1, <2>2 DEF Fits
<1> QED BY <1>2, <1>3, <1>4, <1>5, <1>6, <1>7 DEF AppendStep

\* A reply.
LEMMA ReplyStep ==
  ASSUME TypeOK, NEW a \in Actors, command[a] \in Sessions,
         NEW i \in 1..Len(journal[command[a]]), NEW ack \in BOOLEAN, NEW op \in Ops,
         ReplyMessage(a, i, ack, op)
  PROVE  AppendStep
<1> DEFINE old == journal[command[a]]
           parent == old[i]
           to == IF parent.from = a THEN parent.to ELSE parent.from
           msgs == IF ack THEN [old EXCEPT ![i] = Acknowledged(@)] ELSE old
           m == [from |-> a, to |-> to, thread |-> parent.thread, parent |-> i,
                 ack |-> ack, op |-> op, delivery |-> "queued", read |-> FALSE]
<1>1. old \in Seq(Message) /\ Len(old) \in Nat /\ parent \in Message
  BY LenProperties, ElementOfSeq DEF TypeOK
<1>2. AppendMessage(a, op, msgs, m) /\ Guarded(a, to)
  BY DEF ReplyMessage
<1>3. Rewritten(old, msgs)
  <2>1. CASE ack
    <3>1. parent.delivery # "expired"
      BY <2>1 DEF ReplyMessage
    <3>2. Acknowledged(parent) \in Message /\ Turned(parent, Acknowledged(parent))
      BY <1>1, <3>1, TurnedAcknowledged DEF Turned
    <3> QED BY <1>1, <2>1, <3>2, RewrittenAt
  <2>2. CASE ~ack
    BY <1>1, <2>2, ElementOfSeq, TurnedSame DEF Rewritten
  <2> QED BY <2>1, <2>2
<1>4. m \in Message
  <2>1. Len(msgs) < MessageLimit
    BY <1>2 DEF AppendMessage
  <2>2. i \in 0..MessageLimit
    BY <1>1, <1>3, <2>1, ThreadsAssumption DEF Rewritten
  <2>3. to \in Actors /\ parent.thread \in 1..MessageLimit
    BY <1>1 DEF Message
  <2> QED BY <2>2, <2>3 DEF Message
<1> HIDE DEF m, msgs
<1>5. m.from = a /\ m.op = op /\ m.delivery = "queued" /\ m.to = to
  BY DEF m
<1>6. msgs \in Seq(Message)
  BY <1>3 DEF Rewritten
<1>7. Fits(msgs, m)
  <2>1. m.parent = i /\ m.thread = parent.thread /\ m.ack = ack
    BY DEF m
  <2>2. a \in {parent.from, parent.to} /\ (ack => a = parent.to)
    BY DEF ReplyMessage
  <2>3. i \in 1..Len(msgs) /\ Turned(parent, msgs[i])
    BY <1>3 DEF Rewritten
  <2>4. /\ msgs[i].thread = parent.thread
        /\ msgs[i].from = parent.from /\ msgs[i].to = parent.to
    BY <1>1, <2>3, TurnedKeeps
  <2>5. ack => msgs[i].delivery = "acknowledged"
    BY <1>1 DEF msgs, Acknowledged, Message
  <2>6. {a, to} = {parent.from, parent.to}
    BY <2>2
  <2> QED BY <1>5, <2>1, <2>2, <2>3, <2>4, <2>5, <2>6 DEF Fits
<1> QED BY <1>2, <1>3, <1>4, <1>5, <1>6, <1>7 DEF AppendStep

-----------------------------------------------------------------------------
(* Types, and what launchers, the daemon and finishes know of tasks.       *)

RunInv ==
  /\ \A r \in Runs :
       /\ stage[r] = "idle" <=> sess[r] = 0
       /\ daemon[r] # "idle" => stage[r] # "idle"
       /\ lease[r] # "none" => sess[r] = session
  /\ \A f \in Finishers : finisher[f].step # "idle" => finisher[f].session # 0

\* What is left when the journals are not looked at.
WorldType ==
  /\ session \in Sessions /\ active \in BOOLEAN
  /\ lease \in [Runs -> {"none", "live", "orphaned"}]
  /\ sess \in [Runs -> 0..MaxSession]
  /\ stage \in [Runs -> {"idle", "inserted", "running", "ending", "expiring", "gone"}]
  /\ daemon \in [Runs -> {"idle", "ended", "revoked", "done"}]
  /\ token \subseteq Runs
  /\ command \in [Actors -> 0..MaxSession]
  /\ finisher \in [Finishers -> Finisher]
  /\ abandoned \subseteq Runs
  /\ crashes \in 0..MaxCrashes

JournalType ==
  journal \in [Sessions -> Seq(Message)] /\ recent \in [Sessions -> Seq(Operation)]

LEMMA TypeParts == TypeOK <=> WorldType /\ JournalType
BY DEF TypeOK, WorldType, JournalType

LEMMA NewestType ==
  ASSUME NEW ops \in Seq(Operation)
  PROVE  /\ Newest(ops) \in Seq(Operation)
         /\ Len(ops) <= MessageLimit => Newest(ops) = ops
<1>1. Len(ops) \in Nat /\ MessageLimit \in Nat
  BY LenProperties, ThreadsAssumption
<1>2. CASE Len(ops) > MessageLimit
  <2>1. \A i \in (Len(ops) - MessageLimit + 1)..Len(ops) : ops[i] \in Operation
    BY <1>1, <1>2, ElementOfSeq
  <2>2. SubSeq(ops, Len(ops) - MessageLimit + 1, Len(ops)) \in Seq(Operation)
    BY <1>1, <2>1, SubSeqProperties
  <2> QED BY <1>1, <1>2, <2>2 DEF Newest
<1>3. CASE ~(Len(ops) > MessageLimit)
  BY <1>3 DEF Newest
<1> QED BY <1>2, <1>3

LEMMA RewriteType ==
  ASSUME JournalType, RewriteStep
  PROVE  JournalType'
BY DEF JournalType, RewriteStep

LEMMA AppendType ==
  ASSUME JournalType, AppendStep
  PROVE  JournalType'
<1>1. PICK a \in Actors, op \in Ops, msgs \in Seq(Message), m \in Message :
        AppendMessage(a, op, msgs, m) /\ command[a] \in Sessions
  BY DEF AppendStep
<1> DEFINE s == command[a]
           o == [actor |-> a, op |-> op, message |-> Len(msgs) + 1]
<1>2. journal' \in [Sessions -> Seq(Message)]
  <2>1. Append(msgs, m) \in Seq(Message)
    OBVIOUS
  <2> QED BY <1>1, <2>1 DEF AppendMessage, JournalType
<1>3. recent' \in [Sessions -> Seq(Operation)]
  <2>1. CASE op = NoOp
    BY <1>1, <2>1 DEF AppendMessage, JournalType
  <2>2. CASE op # NoOp
    <3>1. Len(msgs) \in Nat /\ Len(msgs) < MessageLimit
      BY <1>1, LenProperties DEF AppendMessage
    <3>2. Len(msgs) + 1 \in 1..MessageLimit
      BY <3>1, ThreadsAssumption
    <3>3. o \in Operation
      BY <2>2, <3>2 DEF Operation
    <3>4. recent[s] \in Seq(Operation)
      BY <1>1 DEF JournalType
    <3>5. Append(recent[s], o) \in Seq(Operation)
      BY <3>3, <3>4
    <3>6. Newest(Append(recent[s], o)) \in Seq(Operation)
      BY <3>5, NewestType
    <3>7. recent' = [recent EXCEPT ![s] = Newest(Append(recent[s], o))]
      BY <1>1, <2>2 DEF AppendMessage, JournalType
    <3> QED BY <3>6, <3>7 DEF JournalType
  <2> QED BY <2>1, <2>2
<1> QED BY <1>2, <1>3 DEF JournalType

\* A command starts, or ends without a change.
LEMMA CommandStep ==
  ASSUME TypeOK, RunInv, NEW a \in Actors,
         Resolve(a) \/ Abort(a) \/ Send(a) \/ OnMessage(a) \/ GetInbox(a)
  PROVE  /\ UNCHANGED <<journal, recent>> \/ RewriteStep \/ AppendStep
         /\ UNCHANGED <<world, finisher>>
         /\ command' \in [Actors -> 0..MaxSession]
<1>1. command[a] # 0 => command[a] \in Sessions
  BY ThreadsAssumption DEF TypeOK, Sessions
<1>0. 0 \in 0..MaxSession /\ session \in 0..MaxSession
  BY ThreadsAssumption DEF TypeOK, Sessions
<1>2. CASE Resolve(a) \/ Abort(a)
  <2>1. UNCHANGED <<journal, recent>> /\ UNCHANGED <<world, finisher>>
    BY <1>2 DEF Resolve, Abort
  <2>2. command' \in [Actors -> 0..MaxSession]
    BY <1>0, <1>2 DEF Resolve, Abort, TypeOK
  <2> QED BY <2>1, <2>2
<1>3. CASE Send(a)
  <2>1. AppendStep
    BY <1>1, <1>3, SendStep DEF Send
  <2> QED BY <1>3, <2>1, ThreadsAssumption DEF Send, SendMessage, AppendMessage, TypeOK
<1>4. CASE OnMessage(a)
  <2>1. command[a] \in Sessions
    BY <1>1, <1>4 DEF OnMessage
  <2>2. PICK i \in 1..Len(journal[command[a]]) :
          \/ MarkMessageRead(a, i) \/ AcknowledgeMessage(a, i)
          \/ \E ack \in BOOLEAN, op \in Ops : ReplyMessage(a, i, ack, op)
    BY <1>4 DEF OnMessage
  <2>3. CASE MarkMessageRead(a, i)
    <3>1. RewriteStep
      BY <2>1, <2>3, ReadStep
    <3>2. command' \in [Actors -> 0..MaxSession] /\ UNCHANGED <<world, finisher>>
      BY <1>0, <2>3 DEF MarkMessageRead, TypeOK
    <3> QED BY <3>1, <3>2
  <2>4. CASE AcknowledgeMessage(a, i)
    <3>1. RewriteStep
      BY <2>1, <2>4, AcknowledgeStep
    <3>2. command' \in [Actors -> 0..MaxSession] /\ UNCHANGED <<world, finisher>>
      BY <1>0, <2>4 DEF AcknowledgeMessage, TypeOK
    <3> QED BY <3>1, <3>2
  <2>5. CASE \E ack \in BOOLEAN, op \in Ops : ReplyMessage(a, i, ack, op)
    <3>1. AppendStep
      BY <2>1, <2>5, ReplyStep
    <3> QED BY <2>5, <3>1, ThreadsAssumption DEF ReplyMessage, AppendMessage, TypeOK
  <2> QED BY <2>2, <2>3, <2>4, <2>5
<1>5. CASE GetInbox(a)
  <2>1. RewriteStep
    BY <1>1, <1>5, InboxStep DEF GetInbox
  <2> QED BY <1>5, <2>1, ThreadsAssumption DEF GetInbox, TypeOK
<1> QED BY <1>2, <1>3, <1>4, <1>5

\* The steps of launchers, the daemon, reconciliation and recovery that leave the
\* journals alone.
RunStep(r) ==
  \/ Launch(r) \/ Spawn(r) \/ Revoke(r) \/ EndRun(r) \/ EndRunFails(r) \/ Crash(r)
  \/ DaemonEnd(r) \/ DaemonRevoke(r) \/ DaemonCrash(r)
  \/ MarkOrphaned(r) \/ RecoverOrphanedRun(r)

LEMMA RunStepType ==
  ASSUME WorldType, RunInv, NEW r \in Runs, RunStep(r)
  PROVE  WorldType' /\ RunInv' /\ UNCHANGED <<journal, recent>>
<1> USE ThreadsAssumption DEF WorldType, RunInv, Sessions
<1>1. CASE Launch(r)
  BY <1>1 DEF Launch
<1>2. CASE Spawn(r) \/ Revoke(r)
  BY <1>2 DEF Spawn, Revoke
<1>3. CASE EndRun(r)
  BY <1>3 DEF EndRun
<1>4. CASE EndRunFails(r)
  BY <1>4 DEF EndRunFails
<1>5. CASE Crash(r)
  BY <1>5 DEF Crash
<1>6. CASE DaemonEnd(r)
  BY <1>6 DEF DaemonEnd
<1>7. CASE DaemonRevoke(r) \/ DaemonCrash(r)
  BY <1>7 DEF DaemonRevoke, DaemonCrash
<1>8. CASE MarkOrphaned(r) \/ RecoverOrphanedRun(r)
  BY <1>8 DEF MarkOrphaned, RecoverOrphanedRun
<1> QED BY <1>1, <1>2, <1>3, <1>4, <1>5, <1>6, <1>7, <1>8 DEF RunStep

\* The steps that expire what is queued for a run.
LEMMA ExpiryStep ==
  ASSUME TypeOK, RunInv, NEW r \in Runs, ExpireFor(r) \/ DaemonExpire(r)
  PROVE  /\ sess[r] \in Sessions
         /\ RewriteStep
         /\ \A i \in 1..Len(journal'[sess[r]]) :
              journal'[sess[r]][i].to = r => journal'[sess[r]][i].delivery # "queued"
         /\ WorldType' /\ RunInv'
<1>1. sess[r] \in Sessions
  BY ThreadsAssumption DEF TypeOK, RunInv, ExpireFor, DaemonExpire, Sessions
<1>2. /\ RewriteStep
      /\ \A i \in 1..Len(journal'[sess[r]]) :
           journal'[sess[r]][i].to = r => journal'[sess[r]][i].delivery # "queued"
  <2>1. ExpireQueuedMessages(sess[r], {r}) /\ recent' = recent
    BY DEF ExpireFor, DaemonExpire
  <2> QED BY <1>1, <2>1, ExpireRunStep
<1>3. WorldType' /\ RunInv'
  <2>1. CASE ExpireFor(r)
    BY <2>1, TypeParts DEF ExpireFor, WorldType, RunInv
  <2>2. CASE DaemonExpire(r)
    BY <2>2, TypeParts DEF DaemonExpire, WorldType, RunInv
  <2> QED BY <2>1, <2>2
<1> QED BY <1>1, <1>2, <1>3

\* A finish, and the start of the next task.
LEMMA FinishStep ==
  ASSUME TypeOK, RunInv, NEW f \in Finishers,
         BeginFinish(f) \/ CloseTask(f) \/ ExpireTask(f)
  PROVE  /\ UNCHANGED <<journal, recent>> \/ RewriteStep
         /\ WorldType' /\ RunInv'
         /\ UNCHANGED <<session, lease, sess, stage, daemon, abandoned>>
<1>0. WorldType
  BY TypeParts
<1> USE <1>0, ThreadsAssumption DEF WorldType, RunInv, Finisher, Sessions
<1>1. CASE BeginFinish(f)
  BY <1>1 DEF BeginFinish, world
<1>2. CASE CloseTask(f)
  <2>1. \/ finisher' = [finisher EXCEPT ![f] = [@ EXCEPT !.step = "expire"]]
        \/ finisher' = [finisher EXCEPT ![f] = [step |-> "idle", session |-> 0]]
    BY <1>2 DEF CloseTask
  <2>2. /\ finisher' \in [Finishers -> Finisher]
        /\ \A g \in Finishers :
             finisher'[g].step # "idle" => finisher'[g].session # 0
    <3>1. CASE finisher' = [finisher EXCEPT ![f] = [@ EXCEPT !.step = "expire"]]
      BY <1>2, <3>1 DEF CloseTask
    <3>2. CASE finisher' = [finisher EXCEPT ![f] = [step |-> "idle", session |-> 0]]
      BY <3>2
    <3> QED BY <2>1, <3>1, <3>2
  <2> QED BY <1>2, <2>2 DEF CloseTask
<1>3. CASE ExpireTask(f)
  <2>1. finisher[f].session \in Sessions
    BY <1>3 DEF ExpireTask
  <2>2. RewriteStep
    BY <1>3, <2>1, ExpireTaskStep DEF ExpireTask
  <2> QED BY <1>3, <2>2 DEF ExpireTask, world
<1> QED BY <1>1, <1>2, <1>3

LEMMA StartStep ==
  ASSUME TypeOK, RunInv, StartTask
  PROVE  /\ UNCHANGED <<journal, recent, lease, sess, stage, daemon, abandoned>>
         /\ WorldType' /\ RunInv'
BY ThreadsAssumption
DEF TypeOK, RunInv, WorldType, Sessions, Leased, StartTask

\* Every step leaves the journals, rewrites one or appends to one, and leaves the
\* types.
LEMMA TypeStep ==
  ASSUME TypeOK, RunInv, [Next]_vars
  PROVE  /\ TypeOK' /\ RunInv'
         /\ UNCHANGED <<journal, recent>> \/ RewriteStep \/ AppendStep
<1>0. WorldType /\ JournalType
  BY TypeParts
<1> SUFFICES /\ WorldType' /\ RunInv'
             /\ UNCHANGED <<journal, recent>> \/ RewriteStep \/ AppendStep
  <2>1. JournalType /\ UNCHANGED <<journal, recent>> => JournalType'
    BY DEF JournalType
  <2>2. (TypeOK <=> WorldType /\ JournalType)'
    BY TypeParts, PTL
  <2> QED BY <1>0, <2>1, <2>2, RewriteType, AppendType
<1>1. ASSUME NEW a \in Actors,
             Resolve(a) \/ Abort(a) \/ Send(a) \/ OnMessage(a) \/ GetInbox(a)
      PROVE  /\ WorldType' /\ RunInv'
             /\ UNCHANGED <<journal, recent>> \/ RewriteStep \/ AppendStep
  <2>1. /\ UNCHANGED <<journal, recent>> \/ RewriteStep \/ AppendStep
        /\ UNCHANGED <<world, finisher>> /\ command' \in [Actors -> 0..MaxSession]
    BY <1>1, CommandStep
  <2> QED BY <1>0, <2>1 DEF world, WorldType, RunInv
<1>2. ASSUME NEW r \in Runs, RunStep(r)
      PROVE  WorldType' /\ RunInv' /\ UNCHANGED <<journal, recent>>
  BY <1>0, <1>2, RunStepType
<1>3. ASSUME NEW r \in Runs, ExpireFor(r) \/ DaemonExpire(r)
      PROVE  WorldType' /\ RunInv' /\ RewriteStep
  BY <1>3, ExpiryStep
<1>4. ASSUME NEW f \in Finishers, BeginFinish(f) \/ CloseTask(f) \/ ExpireTask(f)
      PROVE  WorldType' /\ RunInv' /\ (UNCHANGED <<journal, recent>> \/ RewriteStep)
  BY <1>4, FinishStep
<1>5. CASE StartTask
  BY <1>5, StartStep
<1>6. CASE UNCHANGED vars
  BY <1>0, <1>6 DEF vars, WorldType, RunInv
<1> QED
  BY <1>1, <1>2, <1>3, <1>4, <1>5, <1>6 DEF Next, RunStep

-----------------------------------------------------------------------------
(* The ledger of a journal remembers every operation in it: a journal holds *)
(* no more messages than the ledger holds operations.                       *)

LedgerInv ==
  \A s \in Sessions :
    /\ Len(journal[s]) <= MessageLimit
    /\ Len(recent[s]) <= Len(journal[s])
    /\ \A i \in 1..Len(journal[s]) :
         journal[s][i].op # NoOp => Processed(s, journal[s][i].from, journal[s][i].op)

LEMMA RewriteLedger ==
  ASSUME TypeOK, LedgerInv, SentOnce, RewriteStep
  PROVE  LedgerInv' /\ SentOnce'
<1>1. PICK s \in Sessions, next \in Seq(Message) :
        Rewritten(journal[s], next) /\ journal' = [journal EXCEPT ![s] = next]
  BY DEF RewriteStep
<1>2. recent' = recent
  BY DEF RewriteStep
<1>3. \A u \in Sessions :
        /\ Len(journal'[u]) = Len(journal[u])
        /\ \A i \in 1..Len(journal[u]) : /\ journal'[u][i].op = journal[u][i].op
                                         /\ journal'[u][i].from = journal[u][i].from
  <2>1. \A i \in 1..Len(journal[s]) : journal[s][i] \in Message
    BY ElementOfSeq DEF TypeOK
  <2>2. \A i \in 1..Len(journal[s]) : /\ next[i].op = journal[s][i].op
                                      /\ next[i].from = journal[s][i].from
    BY ZenonT(60), <1>1, <2>1 DEF Rewritten, Turned, Message
  <2> QED BY <1>1, <2>2 DEF TypeOK, Rewritten
<1>4. \A u \in Sessions : \A b, x : Processed(u, b, x)' <=> Processed(u, b, x)
  BY <1>2 DEF Processed
<1>5. LedgerInv'
  BY <1>2, <1>3, <1>4 DEF LedgerInv
<1>6. SentOnce'
  BY <1>3 DEF SentOnce
<1> QED BY <1>5, <1>6

\* The ledger has room for the operation of a new message.
LEMMA LedgerGrows ==
  ASSUME TypeOK, LedgerInv, NEW a \in Actors, NEW op \in Ops, NEW msgs \in Seq(Message),
         NEW m \in Message, NEW s \in Sessions, s = command[a],
         AppendMessage(a, op, msgs, m), Rewritten(journal[s], msgs)
  PROVE  LET o == [actor |-> a, op |-> op, message |-> Len(msgs) + 1] IN
         /\ recent'[s] = IF op = NoOp THEN recent[s] ELSE Append(recent[s], o)
         /\ \A u \in Sessions \ {s} : recent'[u] = recent[u]
<1> DEFINE o == [actor |-> a, op |-> op, message |-> Len(msgs) + 1]
<1>1. /\ recent[s] \in Seq(Operation)
      /\ Len(recent[s]) \in Nat /\ Len(msgs) \in Nat
      /\ Len(msgs) = Len(journal[s]) /\ Len(msgs) < MessageLimit
  BY LenProperties DEF TypeOK, AppendMessage, Rewritten
<1>2. CASE op = NoOp
  BY <1>2 DEF AppendMessage
<1>3. CASE op # NoOp
  <2>1. o \in Operation
    BY <1>1, <1>3, ThreadsAssumption DEF Operation
  <2>2. Append(recent[s], o) \in Seq(Operation)
        /\ Len(Append(recent[s], o)) = Len(recent[s]) + 1
    BY <1>1, <2>1
  <2>3. Len(recent[s]) + 1 <= MessageLimit
    BY <1>1, ThreadsAssumption DEF LedgerInv
  <2>4. Newest(Append(recent[s], o)) = Append(recent[s], o)
    BY <2>2, <2>3, NewestType
  <2>5. recent' = [recent EXCEPT ![s] = Newest(Append(recent[s], o))]
    BY <1>3 DEF AppendMessage, TypeOK
  <2> QED BY <1>3, <2>4, <2>5 DEF TypeOK
<1> QED BY <1>2, <1>3

LEMMA AppendLedger ==
  ASSUME TypeOK, LedgerInv, SentOnce, AppendStep
  PROVE  LedgerInv' /\ SentOnce'
<1>1. PICK a \in Actors, op \in Ops, msgs \in Seq(Message), m \in Message,
           s \in Sessions :
        /\ AppendMessage(a, op, msgs, m) /\ s = command[a]
        /\ Rewritten(journal[s], msgs)
        /\ m.from = a /\ m.op = op
  BY DEF AppendStep
<1> DEFINE o == [actor |-> a, op |-> op, message |-> Len(msgs) + 1]
           next == Append(msgs, m)
<1>2. /\ journal[s] \in Seq(Message) /\ recent[s] \in Seq(Operation)
      /\ Len(journal[s]) \in Nat /\ Len(recent[s]) \in Nat /\ Len(msgs) \in Nat
      /\ Len(msgs) = Len(journal[s]) /\ Len(msgs) < MessageLimit
  BY <1>1, LenProperties DEF TypeOK, AppendMessage, Rewritten
<1>3. /\ Len(next) = Len(msgs) + 1 /\ next[Len(msgs) + 1] = m
      /\ \A i \in 1..Len(msgs) : next[i] = msgs[i]
  BY <1>2
<1>4. \A i \in 1..Len(msgs) : /\ msgs[i].op = journal[s][i].op
                              /\ msgs[i].from = journal[s][i].from
  <2>1. \A i \in 1..Len(journal[s]) : journal[s][i] \in Message
    BY <1>2, ElementOfSeq
  <2>2. \A i \in 1..Len(journal[s]) : Turned(journal[s][i], msgs[i])
    BY <1>1 DEF Rewritten
  <2>3. \A i \in 1..Len(journal[s]) : /\ msgs[i].op = journal[s][i].op
                                      /\ msgs[i].from = journal[s][i].from
    BY ZenonT(60), <2>1, <2>2 DEF Turned, Message
  <2> QED BY <1>2, <2>3
<1>5. /\ journal'[s] = next
      /\ \A u \in Sessions \ {s} : journal'[u] = journal[u]
  BY <1>1 DEF AppendMessage, TypeOK
<1>6. /\ recent'[s] = IF op = NoOp THEN recent[s] ELSE Append(recent[s], o)
      /\ \A u \in Sessions \ {s} : recent'[u] = recent[u]
  BY <1>1, LedgerGrows
<1>7. \A b, x : Processed(s, b, x) => Processed(s, b, x)'
  <2> SUFFICES ASSUME NEW b, NEW x, Processed(s, b, x) PROVE Processed(s, b, x)'
    OBVIOUS
  <2>1. PICK k \in 1..Len(recent[s]) : recent[s][k].actor = b /\ recent[s][k].op = x
    BY DEF Processed
  <2>2. k \in 1..Len(recent'[s]) /\ recent'[s][k] = recent[s][k]
    BY <1>2, <1>6
  <2>3. x # NoOp
    BY DEF Processed
  <2> QED BY <2>1, <2>2, <2>3 DEF Processed
<1>8. op # NoOp => Processed(s, a, op)' /\ ~Processed(s, a, op)
  <2> SUFFICES ASSUME op # NoOp
               PROVE  Processed(s, a, op)' /\ ~Processed(s, a, op)
    OBVIOUS
  <2>1. recent'[s] = Append(recent[s], o)
    BY <1>6
  <2>2. /\ Len(recent'[s]) = Len(recent[s]) + 1
        /\ recent'[s][Len(recent[s]) + 1] = o
    BY <1>2, <2>1
  <2>3. Len(recent[s]) + 1 \in 1..Len(recent'[s])
    BY <1>2, <2>2
  <2>4. o.actor = a /\ o.op = op
    OBVIOUS
  <2>5. Processed(s, a, op)'
    BY <2>2, <2>3, <2>4 DEF Processed
  <2> QED BY <1>1, <2>5 DEF AppendMessage
<1>9. LedgerInv'
  <2> SUFFICES ASSUME NEW u \in Sessions
               PROVE  /\ Len(journal'[u]) <= MessageLimit
                      /\ Len(recent'[u]) <= Len(journal'[u])
                      /\ \A i \in 1..Len(journal'[u]) : journal'[u][i].op # NoOp =>
                           \E k \in 1..Len(recent'[u]) :
                             /\ recent'[u][k].actor = journal'[u][i].from
                             /\ recent'[u][k].op = journal'[u][i].op
    BY DEF LedgerInv, Processed
  <2>1. CASE u # s
    <3>1. journal'[u] = journal[u] /\ recent'[u] = recent[u]
      BY <1>5, <1>6, <2>1
    <3> QED BY <3>1 DEF LedgerInv, Processed
  <2>2. CASE u = s
    <3>1. Len(journal'[s]) <= MessageLimit
      BY <1>2, <1>3, <1>5, ThreadsAssumption
    <3>2. Len(recent'[s]) <= Len(journal'[s])
      <4>1. Len(recent'[s]) <= Len(recent[s]) + 1
        BY <1>2, <1>6
      <4>2. Len(recent[s]) <= Len(journal[s])
        BY DEF LedgerInv
      <4>3. Len(recent'[s]) \in Nat
        BY <1>2, <1>6
      <4> QED BY <1>2, <1>3, <1>5, <4>1, <4>2, <4>3
    <3>3. ASSUME NEW i \in 1..Len(journal'[s]), journal'[s][i].op # NoOp
          PROVE  \E k \in 1..Len(recent'[s]) :
                   /\ recent'[s][k].actor = journal'[s][i].from
                   /\ recent'[s][k].op = journal'[s][i].op
      <4>1. CASE i = Len(msgs) + 1
        <5>1. journal'[s][i].op = op /\ journal'[s][i].from = a
          BY <1>1, <1>3, <1>5, <4>1
        <5> QED BY <1>8, <3>3, <5>1 DEF Processed
      <4>2. CASE i # Len(msgs) + 1
        <5>1. i \in 1..Len(journal[s]) /\ journal'[s][i].op = journal[s][i].op
              /\ journal'[s][i].from = journal[s][i].from
          BY <1>2, <1>3, <1>4, <1>5, <4>2
        <5>2. PICK k \in 1..Len(recent[s]) :
                recent[s][k].actor = journal[s][i].from
                /\ recent[s][k].op = journal[s][i].op
          BY <3>3, <5>1 DEF LedgerInv, Processed
        <5>3. k \in 1..Len(recent'[s]) /\ recent'[s][k] = recent[s][k]
          BY <1>2, <1>6
        <5> QED BY <5>1, <5>2, <5>3
      <4> QED BY <4>1, <4>2
    <3> QED BY <2>2, <3>1, <3>2, <3>3
  <2> QED BY <2>1, <2>2
<1>10. SentOnce'
  <2> SUFFICES ASSUME NEW u \in Sessions,
                      NEW i \in 1..Len(journal'[u]), NEW j \in 1..Len(journal'[u]),
                      journal'[u][i].op # NoOp,
                      journal'[u][i].op = journal'[u][j].op,
                      journal'[u][i].from = journal'[u][j].from
               PROVE  i = j
    BY DEF SentOnce
  <2>1. CASE u # s
    BY <1>5, <2>1 DEF SentOnce
  <2>2. CASE u = s
    <3>1. ASSUME NEW k \in 1..Len(journal'[s]), k # Len(msgs) + 1
          PROVE  /\ k \in 1..Len(journal[s])
                 /\ journal'[s][k].op = journal[s][k].op
                 /\ journal'[s][k].from = journal[s][k].from
      BY <1>2, <1>3, <1>4, <1>5, <3>1
    <3>2. ASSUME NEW k \in 1..Len(journal'[s]), k # Len(msgs) + 1,
                 journal'[s][k].op # NoOp
          PROVE  ~(journal'[s][k].op = op /\ journal'[s][k].from = a)
      BY <1>8, <3>1, <3>2 DEF LedgerInv
    <3>3. journal'[s][Len(msgs) + 1].op = op /\ journal'[s][Len(msgs) + 1].from = a
      BY <1>1, <1>3, <1>5
    <3>4. CASE i # Len(msgs) + 1 /\ j # Len(msgs) + 1
      BY SMTT(60), <2>2, <3>1, <3>4 DEF SentOnce
    <3>5. CASE i = Len(msgs) + 1 \/ j = Len(msgs) + 1
      BY <2>2, <3>2, <3>3, <3>5
    <3> QED BY <3>4, <3>5
  <2> QED BY <2>1, <2>2
<1> QED BY <1>9, <1>10

-----------------------------------------------------------------------------
(* Messages are addressed to runs of their own task, and what is queued for *)
(* a run has somebody who will answer for it.                               *)

Cared(r) ==
  \/ lease[r] # "none"
  \/ stage[r] = "expiring"
  \/ daemon[r] \in {"ended", "revoked"}
  \/ r \in abandoned

CareInv ==
  \A s \in Sessions : \A i \in 1..Len(journal[s]) :
    LET m == journal[s][i] IN
    m.to # Operator =>
      /\ m.to \in Runs /\ sess[m.to] = s
      /\ m.delivery = "queued" => Cared(m.to)

LEMMA RunStepCare ==
  ASSUME WorldType, RunInv, NEW r \in Runs, RunStep(r), NEW q \in Runs
  PROVE  (Cared(q) => Cared(q)') /\ (sess[q] # 0 => sess'[q] = sess[q])
<1> USE DEF WorldType, Cared
<1>1. CASE Launch(r)
  BY <1>1 DEF Launch, RunInv
<1>2. CASE Spawn(r) \/ Revoke(r)
  BY <1>2 DEF Spawn, Revoke
<1>3. CASE EndRun(r)
  BY <1>3 DEF EndRun
<1>4. CASE EndRunFails(r)
  BY <1>4 DEF EndRunFails
<1>5. CASE Crash(r)
  BY <1>5 DEF Crash
<1>6. CASE DaemonEnd(r)
  BY <1>6 DEF DaemonEnd
<1>7. CASE DaemonRevoke(r) \/ DaemonCrash(r)
  BY <1>7 DEF DaemonRevoke, DaemonCrash
<1>8. CASE MarkOrphaned(r) \/ RecoverOrphanedRun(r)
  BY <1>8 DEF MarkOrphaned, RecoverOrphanedRun
<1> QED BY <1>1, <1>2, <1>3, <1>4, <1>5, <1>6, <1>7, <1>8 DEF RunStep

\* Journals are rewritten or left, and whoever was cared for still is, but for a run
\* for which nothing is queued any longer.
LEMMA KeptCare ==
  ASSUME TypeOK, CareInv, UNCHANGED <<journal, recent>> \/ RewriteStep,
         \A q \in Runs : sess[q] # 0 => sess'[q] = sess[q],
         \A q \in Runs :
           \/ Cared(q) => Cared(q)'
           \/ \A i \in 1..Len(journal'[sess[q]]) :
                journal'[sess[q]][i].to = q => journal'[sess[q]][i].delivery # "queued"
  PROVE  CareInv'
<1>1. \A u \in Sessions :
        /\ Len(journal'[u]) = Len(journal[u])
        /\ \A i \in 1..Len(journal[u]) :
             /\ journal'[u][i].to = journal[u][i].to
             /\ journal'[u][i].delivery = "queued" => journal[u][i].delivery = "queued"
  <2>1. CASE UNCHANGED <<journal, recent>>
    BY <2>1
  <2>2. CASE RewriteStep
    <3>1. PICK s \in Sessions, next \in Seq(Message) :
            Rewritten(journal[s], next) /\ journal' = [journal EXCEPT ![s] = next]
      BY <2>2 DEF RewriteStep
    <3>2. \A i \in 1..Len(journal[s]) : journal[s][i] \in Message
      BY ElementOfSeq DEF TypeOK
    <3>3. \A i \in 1..Len(journal[s]) :
            /\ next[i].to = journal[s][i].to
            /\ next[i].delivery = "queued" => journal[s][i].delivery = "queued"
      BY <3>1, <3>2, TurnedKeeps DEF Rewritten
    <3> QED BY <3>1, <3>3 DEF TypeOK, Rewritten
  <2> QED BY <2>1, <2>2
<1> SUFFICES ASSUME NEW s \in Sessions, NEW i \in 1..Len(journal'[s]),
                    journal'[s][i].to # Operator
             PROVE  /\ journal'[s][i].to \in Runs /\ sess'[journal'[s][i].to] = s
                    /\ journal'[s][i].delivery = "queued" =>
                         \/ lease'[journal'[s][i].to] # "none"
                         \/ stage'[journal'[s][i].to] = "expiring"
                         \/ daemon'[journal'[s][i].to] \in {"ended", "revoked"}
                         \/ journal'[s][i].to \in abandoned'
  BY DEF CareInv, Cared
<1>2. PICK q \in Runs : q = journal[s][i].to /\ sess[q] = s
                        /\ (journal[s][i].delivery = "queued" => Cared(q))
  BY <1>1 DEF CareInv
<1>3. journal'[s][i].to = q /\ sess'[q] = s
  BY <1>1, <1>2, ThreadsAssumption DEF Sessions
<1>4. journal'[s][i].delivery = "queued" => Cared(q)'
  BY <1>1, <1>2, <1>3
<1> QED BY <1>3, <1>4 DEF Cared

\* A new message is for a run of the current task whose lease is live.
LEMMA AppendCare ==
  ASSUME TypeOK, RunInv, CareInv, AppendStep
  PROVE  CareInv'
<1>1. PICK a \in Actors, op \in Ops, msgs \in Seq(Message), m \in Message,
           s \in Sessions :
        /\ AppendMessage(a, op, msgs, m) /\ s = command[a]
        /\ Rewritten(journal[s], msgs) /\ Guarded(a, m.to)
  BY DEF AppendStep
<1>2. UNCHANGED <<lease, stage, daemon, abandoned, sess>>
  BY <1>1 DEF AppendMessage, world
<1>3. /\ journal[s] \in Seq(Message) /\ Len(msgs) \in Nat
      /\ Len(msgs) = Len(journal[s])
      /\ \A i \in 1..Len(journal[s]) : journal[s][i] \in Message
  BY <1>1, LenProperties, ElementOfSeq DEF TypeOK, Rewritten
<1>4. \A i \in 1..Len(msgs) :
        /\ msgs[i].to = journal[s][i].to
        /\ msgs[i].delivery = "queued" => journal[s][i].delivery = "queued"
  BY <1>1, <1>3, TurnedKeeps DEF Rewritten
<1>5. /\ journal'[s] = Append(msgs, m)
      /\ \A u \in Sessions \ {s} : journal'[u] = journal[u]
  BY <1>1 DEF AppendMessage, TypeOK
<1>6. m.to # Operator => m.to \in Runs /\ sess[m.to] = s /\ Cared(m.to)
  BY <1>1 DEF Guarded, Living, RunInv, Cared
<1>7. \A u \in Sessions : \A i \in 1..Len(journal'[u]) :
        journal'[u][i].to # Operator =>
          /\ journal'[u][i].to \in Runs /\ sess[journal'[u][i].to] = u
          /\ journal'[u][i].delivery = "queued" => Cared(journal'[u][i].to)
  <2> SUFFICES ASSUME NEW u \in Sessions, NEW i \in 1..Len(journal'[u]),
                      journal'[u][i].to # Operator
               PROVE  /\ journal'[u][i].to \in Runs /\ sess[journal'[u][i].to] = u
                      /\ journal'[u][i].delivery = "queued" => Cared(journal'[u][i].to)
    OBVIOUS
  <2>1. CASE u # s
    BY <1>5, <2>1 DEF CareInv
  <2>2. CASE u = s /\ i = Len(msgs) + 1
    <3>1. journal'[u][i] = m
      BY <1>3, <1>5, <2>2
    <3> QED BY <1>6, <2>2, <3>1
  <2>3. CASE u = s /\ i # Len(msgs) + 1
    <3>1. i \in 1..Len(msgs) /\ journal'[u][i] = msgs[i]
      BY SMTT(60), <1>3, <1>5, <2>3
    <3>2. /\ journal[s][i].to = journal'[u][i].to
          /\ journal'[u][i].delivery = "queued" => journal[s][i].delivery = "queued"
      BY <1>4, <3>1
    <3> QED BY <1>3, <2>3, <3>1, <3>2 DEF CareInv
  <2> QED BY <2>1, <2>2, <2>3
<1> QED BY <1>2, <1>7 DEF CareInv, Cared

LEMMA CareStep ==
  ASSUME TypeOK, RunInv, CareInv, [Next]_vars
  PROVE  CareInv'
<1>0. WorldType
  BY TypeParts
<1>1. ASSUME NEW a \in Actors,
             Resolve(a) \/ Abort(a) \/ Send(a) \/ OnMessage(a) \/ GetInbox(a)
      PROVE  CareInv'
  <2>1. /\ UNCHANGED <<journal, recent>> \/ RewriteStep \/ AppendStep
        /\ UNCHANGED <<lease, stage, daemon, abandoned, sess>>
    BY <1>1, CommandStep DEF world
  <2>2. CASE AppendStep
    BY <2>2, AppendCare
  <2>3. CASE UNCHANGED <<journal, recent>> \/ RewriteStep
    <3>1. \A q \in Runs : (Cared(q) => Cared(q)') /\ sess'[q] = sess[q]
      BY <2>1 DEF Cared
    <3> QED BY <2>3, <3>1, KeptCare
  <2> QED BY <2>1, <2>2, <2>3
<1>2. ASSUME NEW r \in Runs, RunStep(r)
      PROVE  CareInv'
  <2>1. \A q \in Runs : (Cared(q) => Cared(q)') /\ (sess[q] # 0 => sess'[q] = sess[q])
    BY <1>0, <1>2, RunStepCare
  <2>2. UNCHANGED <<journal, recent>>
    BY <1>0, <1>2, RunStepType
  <2> QED BY <2>1, <2>2, KeptCare
<1>3. ASSUME NEW r \in Runs, ExpireFor(r) \/ DaemonExpire(r)
      PROVE  CareInv'
  <2>1. /\ RewriteStep
        /\ \A i \in 1..Len(journal'[sess[r]]) :
             journal'[sess[r]][i].to = r => journal'[sess[r]][i].delivery # "queued"
    BY <1>3, ExpiryStep
  <2>2. \A q \in Runs : sess'[q] = sess[q] /\ (q # r => (Cared(q) => Cared(q)'))
    BY <1>0, <1>3 DEF ExpireFor, DaemonExpire, Cared, WorldType
  <2> QED BY <2>1, <2>2, KeptCare
<1>4. ASSUME NEW f \in Finishers, BeginFinish(f) \/ CloseTask(f) \/ ExpireTask(f)
      PROVE  CareInv'
  <2>1. /\ UNCHANGED <<journal, recent>> \/ RewriteStep
        /\ UNCHANGED <<session, lease, sess, stage, daemon, abandoned>>
    BY <1>4, FinishStep
  <2>2. \A q \in Runs : (Cared(q) => Cared(q)') /\ sess'[q] = sess[q]
    BY <2>1 DEF Cared
  <2> QED BY <2>1, <2>2, KeptCare
<1>5. CASE StartTask \/ UNCHANGED vars
  <2>1. UNCHANGED <<journal, recent, lease, sess, stage, daemon, abandoned>>
    BY <1>5, StartStep DEF vars
  <2>2. \A q \in Runs : (Cared(q) => Cared(q)') /\ sess'[q] = sess[q]
    BY <2>1 DEF Cared
  <2> QED BY <2>1, <2>2, KeptCare
<1> QED
  BY <1>1, <1>2, <1>3, <1>4, <1>5 DEF Next, RunStep

LEMMA ForwardStep ==
  ASSUME TypeOK, UNCHANGED <<journal, recent>> \/ RewriteStep \/ AppendStep,
         NEW s \in Sessions
  PROVE  /\ Len(journal'[s]) >= Len(journal[s])
         /\ \A i \in 1..Len(journal[s]) : Turned(journal[s][i], journal'[s][i])
<1>1. /\ journal[s] \in Seq(Message) /\ Len(journal[s]) \in Nat
      /\ \A i \in 1..Len(journal[s]) : Turned(journal[s][i], journal[s][i])
  BY LenProperties, ElementOfSeq, TurnedSame DEF TypeOK
<1>2. CASE UNCHANGED <<journal, recent>>
  BY <1>1, <1>2
<1>3. CASE RewriteStep
  <2>1. PICK u \in Sessions, next \in Seq(Message) :
          Rewritten(journal[u], next) /\ journal' = [journal EXCEPT ![u] = next]
    BY <1>3 DEF RewriteStep
  <2>2. journal'[s] = IF u = s THEN next ELSE journal[s]
    BY <2>1 DEF TypeOK
  <2> QED BY <1>1, <2>1, <2>2 DEF Rewritten
<1>4. CASE AppendStep
  <2>1. PICK a \in Actors, op \in Ops, msgs \in Seq(Message), m \in Message,
             u \in Sessions :
          /\ AppendMessage(a, op, msgs, m) /\ u = command[a]
          /\ Rewritten(journal[u], msgs)
    BY <1>4 DEF AppendStep
  <2>2. journal'[s] = IF u = s THEN Append(msgs, m) ELSE journal[s]
    BY <2>1 DEF AppendMessage, TypeOK
  <2>3. CASE u = s
    <3>1. Len(msgs) = Len(journal[s]) /\ Len(Append(msgs, m)) = Len(msgs) + 1
          /\ \A i \in 1..Len(msgs) : Append(msgs, m)[i] = msgs[i]
      BY <1>1, <2>1, <2>3 DEF Rewritten
    <3> QED BY <1>1, <2>1, <2>2, <2>3, <3>1 DEF Rewritten
  <2>4. CASE u # s
    BY <1>1, <2>2, <2>4
  <2> QED BY <2>3, <2>4
<1> QED BY <1>2, <1>3, <1>4

-----------------------------------------------------------------------------
(* Every journal is one that the schema of the next command accepts.       *)

\* What Readable says of the messages of one journal.
ReadableMessages(msgs) ==
  /\ Len(msgs) <= MessageLimit
  /\ Cardinality({i \in 1..Len(msgs) : msgs[i].parent = 0}) <= ThreadLimit
  /\ \A i \in 1..Len(msgs) :
       LET m == msgs[i]  p == msgs[m.parent] IN
       IF m.parent = 0 THEN m.thread = i
       ELSE /\ m.parent < i /\ p.thread = m.thread
            /\ {m.from, m.to} = {p.from, p.to}
            /\ m.ack => m.from = p.to /\ p.delivery = "acknowledged"

EachReadable ==
  \A s \in Sessions :
    /\ ReadableMessages(journal[s])
    /\ \A i \in 1..Len(recent[s]) : recent[s][i].message <= Len(journal[s])

LEMMA ReadableParts == Readable <=> EachReadable
BY DEF Readable, EachReadable, ReadableMessages

LEMMA ReadableRewritten ==
  ASSUME NEW msgs \in Seq(Message), NEW next \in Seq(Message),
         Rewritten(msgs, next), ReadableMessages(msgs)
  PROVE  ReadableMessages(next)
<1>1. \A i \in 1..Len(msgs) : msgs[i] \in Message
  BY ElementOfSeq
<1>2. /\ Len(next) = Len(msgs) /\ Len(msgs) \in Nat
      /\ \A i \in 1..Len(msgs) :
           /\ next[i].from = msgs[i].from /\ next[i].to = msgs[i].to
           /\ next[i].thread = msgs[i].thread /\ next[i].parent = msgs[i].parent
           /\ next[i].ack = msgs[i].ack
           /\ msgs[i].delivery = "acknowledged" => next[i].delivery = "acknowledged"
  BY <1>1, LenProperties, TurnedKeeps DEF Rewritten
<1>3. {i \in 1..Len(next) : next[i].parent = 0} = {i \in 1..Len(msgs) : msgs[i].parent = 0}
  BY <1>2
<1>4. ASSUME NEW i \in 1..Len(msgs), msgs[i].parent = 0
      PROVE  next[i].parent = 0 /\ next[i].thread = i
  BY <1>2, <1>4 DEF ReadableMessages
<1>5. ASSUME NEW i \in 1..Len(msgs), msgs[i].parent # 0
      PROVE  LET m == next[i]  p == next[m.parent] IN
             /\ m.parent # 0 /\ m.parent < i /\ p.thread = m.thread
             /\ {m.from, m.to} = {p.from, p.to}
             /\ m.ack => m.from = p.to /\ p.delivery = "acknowledged"
  <2>1. msgs[i].parent \in 0..MessageLimit
    BY <1>1 DEF Message
  <2> DEFINE q == msgs[i].parent
  <2>2. /\ q < i /\ msgs[q].thread = msgs[i].thread
        /\ {msgs[i].from, msgs[i].to} = {msgs[q].from, msgs[q].to}
        /\ msgs[i].ack => msgs[i].from = msgs[q].to /\ msgs[q].delivery = "acknowledged"
    BY <1>5 DEF ReadableMessages
  <2>3. q \in 1..Len(msgs)
    BY <1>2, <1>5, <2>1, <2>2, ThreadsAssumption
  <2>4. next[i].parent = q
    BY <1>2
  <2> HIDE DEF q
  <2>5. /\ next[q].thread = next[i].thread
        /\ {next[i].from, next[i].to} = {next[q].from, next[q].to}
        /\ next[i].ack => next[i].from = next[q].to /\ next[q].delivery = "acknowledged"
    BY <1>2, <2>2, <2>3
  <2> QED BY <1>5, <2>2, <2>4, <2>5 DEF q
<1> QED BY <1>2, <1>3, <1>4, <1>5 DEF ReadableMessages

\* The journal has room, and the new message begins a thread or answers.
LEMMA ReadableAppended ==
  ASSUME NEW msgs \in Seq(Message), NEW m \in Message, ReadableMessages(msgs),
         Len(msgs) < MessageLimit, Fits(msgs, m)
  PROVE  ReadableMessages(Append(msgs, m))
<1> DEFINE n == Len(msgs) + 1
           next == Append(msgs, m)
           Roots == {i \in 1..Len(msgs) : msgs[i].parent = 0}
<1>1. /\ Len(msgs) \in Nat /\ Len(next) = n /\ next[n] = m
      /\ \A i \in 1..Len(msgs) : next[i] = msgs[i]
  BY LenProperties
<1>2. \A i \in 1..Len(msgs) : msgs[i].parent \in Nat
  <2>1. \A i \in 1..Len(msgs) : msgs[i] \in Message
    BY ElementOfSeq
  <2> QED BY <2>1, ThreadsAssumption DEF Message
<1> HIDE DEF next
<1>3. IsFiniteSet(Roots)
  <2>1. IsFiniteSet(1..Len(msgs))
    BY <1>1, FS_Interval
  <2>2. Roots \in SUBSET (1..Len(msgs))
    OBVIOUS
  <2> QED BY <2>1, <2>2, FS_Subset
<1>4. Cardinality({i \in 1..n : next[i].parent = 0}) <= ThreadLimit
  <2>1. CASE m.parent # 0
    <3>1. {i \in 1..n : next[i].parent = 0} = Roots
      BY <1>1, <2>1
    <3> QED BY <3>1 DEF ReadableMessages
  <2>2. CASE m.parent = 0
    <3>1. {i \in 1..n : next[i].parent = 0} = Roots \cup {n} /\ n \notin Roots
      BY <1>1, <2>2
    <3>2. Cardinality(Threads(msgs)) < ThreadLimit
      BY <2>2 DEF Fits
    <3>3. Roots \subseteq Threads(msgs)
      BY DEF ReadableMessages, Threads
    <3>4. IsFiniteSet(Threads(msgs))
      <4>1. \A i \in 1..Len(msgs) : msgs[i] \in Message
        BY ElementOfSeq
      <4>2. Threads(msgs) \in SUBSET (1..MessageLimit)
        BY <4>1 DEF Threads, Message
      <4>3. IsFiniteSet(1..MessageLimit)
        BY FS_Interval, ThreadsAssumption
      <4> QED BY <4>2, <4>3, FS_Subset
    <3>5. Cardinality(Roots) <= Cardinality(Threads(msgs))
      BY <3>3, <3>4, FS_Subset
    <3>6. Cardinality(Roots) \in Nat /\ Cardinality(Threads(msgs)) \in Nat
      BY <1>3, <3>4, FS_CardinalityType
    <3>7. Cardinality(Roots \cup {n}) = Cardinality(Roots) + 1
      BY <1>3, <3>1, FS_AddElement
    <3>8. Cardinality(Roots) + 1 <= ThreadLimit
      BY <3>2, <3>5, <3>6, ThreadsAssumption
    <3> QED BY <3>1, <3>7, <3>8
  <2> QED BY <2>1, <2>2
<1>5. ASSUME NEW i \in 1..Len(msgs)
      PROVE  LET k == next[i]  p == next[k.parent] IN
             IF k.parent = 0 THEN k.thread = i
             ELSE /\ k.parent < i /\ p.thread = k.thread
                  /\ {k.from, k.to} = {p.from, p.to}
                  /\ k.ack => k.from = p.to /\ p.delivery = "acknowledged"
  <2>1. next[i] = msgs[i]
    BY <1>1
  <2>2. CASE msgs[i].parent = 0
    BY <2>1, <2>2 DEF ReadableMessages
  <2>3. CASE msgs[i].parent # 0
    <3>1. msgs[i].parent < i
      BY <2>3 DEF ReadableMessages
    <3>2. msgs[i].parent \in 1..Len(msgs)
      BY <1>1, <1>2, <2>3, <3>1
    <3>3. next[msgs[i].parent] = msgs[msgs[i].parent]
      BY <1>1, <3>2
    <3>4. LET k == msgs[i]  p == msgs[k.parent] IN
          /\ k.parent < i /\ p.thread = k.thread
          /\ {k.from, k.to} = {p.from, p.to}
          /\ k.ack => k.from = p.to /\ p.delivery = "acknowledged"
      BY <2>3 DEF ReadableMessages
    <3> QED BY <2>1, <2>3, <3>3, <3>4
  <2> QED BY <2>2, <2>3
<1>6. LET p == next[m.parent] IN
      IF m.parent = 0 THEN m.thread = n
      ELSE /\ m.parent < n /\ p.thread = m.thread
           /\ {m.from, m.to} = {p.from, p.to}
           /\ m.ack => m.from = p.to /\ p.delivery = "acknowledged"
  <2>1. CASE m.parent = 0
    BY <1>1, <2>1 DEF Fits
  <2>2. CASE m.parent # 0
    <3>1. m.parent \in 1..Len(msgs)
      BY <2>2 DEF Fits
    <3>2. next[m.parent] = msgs[m.parent] /\ m.parent < n
      BY <1>1, <3>1
    <3> QED BY <2>2, <3>2 DEF Fits
  <2> QED BY <2>1, <2>2
<1>7. \A i \in 1..n :
        LET k == next[i]  p == next[k.parent] IN
        IF k.parent = 0 THEN k.thread = i
        ELSE /\ k.parent < i /\ p.thread = k.thread
             /\ {k.from, k.to} = {p.from, p.to}
             /\ k.ack => k.from = p.to /\ p.delivery = "acknowledged"
  <2>1. \A i \in 1..n : i \in 1..Len(msgs) \/ (i = n /\ next[i] = m)
    BY <1>1
  <2> QED BY <1>5, <1>6, <2>1
<1>8. n <= MessageLimit
  BY <1>1, ThreadsAssumption
<1> QED BY <1>1, <1>4, <1>7, <1>8 DEF ReadableMessages, next

LEMMA RewriteReadable ==
  ASSUME TypeOK, Readable, RewriteStep
  PROVE  Readable'
<1>1. PICK s \in Sessions, next \in Seq(Message) :
        Rewritten(journal[s], next) /\ journal' = [journal EXCEPT ![s] = next]
  BY DEF RewriteStep
<1>2. ASSUME NEW u \in Sessions
      PROVE  /\ ReadableMessages(journal'[u])
             /\ \A i \in 1..Len(recent'[u]) : recent'[u][i].message <= Len(journal'[u])
  <2>0. /\ ReadableMessages(journal[u])
        /\ \A i \in 1..Len(recent[u]) : recent[u][i].message <= Len(journal[u])
    BY ReadableParts DEF EachReadable
  <2>1. recent' = recent /\ Len(next) = Len(journal[s])
    BY <1>1 DEF RewriteStep, Rewritten
  <2>2. CASE u # s
    BY <1>1, <2>0, <2>1, <2>2 DEF TypeOK
  <2>3. CASE u = s
    <3>1. journal'[u] = next /\ journal[s] \in Seq(Message)
      BY <1>1, <2>3 DEF TypeOK
    <3>2. ReadableMessages(next)
      BY <1>1, <2>0, <2>3, <3>1, ReadableRewritten
    <3> QED BY <2>0, <2>1, <2>3, <3>1, <3>2
  <2> QED BY <2>2, <2>3
<1>3. EachReadable'
  BY <1>2 DEF EachReadable, ReadableMessages
<1> QED BY <1>3, ReadableParts, PTL

LEMMA AppendReadable ==
  ASSUME TypeOK, LedgerInv, Readable, AppendStep
  PROVE  Readable'
<1>1. PICK a \in Actors, op \in Ops, msgs \in Seq(Message), m \in Message,
           s \in Sessions :
        /\ AppendMessage(a, op, msgs, m) /\ s = command[a]
        /\ Rewritten(journal[s], msgs) /\ Fits(msgs, m)
  BY DEF AppendStep
<1> DEFINE o == [actor |-> a, op |-> op, message |-> Len(msgs) + 1]
           next == Append(msgs, m)
<1>2. /\ journal'[s] = next
      /\ \A u \in Sessions \ {s} : journal'[u] = journal[u]
  BY <1>1 DEF AppendMessage, TypeOK
<1>3. /\ recent'[s] = IF op = NoOp THEN recent[s] ELSE Append(recent[s], o)
      /\ \A u \in Sessions \ {s} : recent'[u] = recent[u]
  BY <1>1, LedgerGrows
<1>4. ASSUME NEW u \in Sessions
      PROVE  /\ ReadableMessages(journal'[u])
             /\ \A i \in 1..Len(recent'[u]) : recent'[u][i].message <= Len(journal'[u])
  <2>0. /\ ReadableMessages(journal[u])
        /\ \A i \in 1..Len(recent[u]) : recent[u][i].message <= Len(journal[u])
    BY ReadableParts DEF EachReadable
  <2>1. CASE u # s
    BY <1>2, <1>3, <2>0, <2>1
  <2>2. CASE u = s
    <3>1. /\ journal[s] \in Seq(Message) /\ recent[s] \in Seq(Operation)
          /\ Len(msgs) = Len(journal[s]) /\ Len(msgs) \in Nat /\ Len(msgs) < MessageLimit
      BY <1>1, LenProperties DEF TypeOK, Rewritten, AppendMessage
    <3>2. ReadableMessages(msgs)
      BY <1>1, <2>0, <2>2, <3>1, ReadableRewritten
    <3>3. ReadableMessages(next)
      BY <1>1, <3>1, <3>2, ReadableAppended
    <3>4. Len(next) = Len(msgs) + 1
      BY <3>1
    <3>5. \A i \in 1..Len(recent[s]) : recent[s][i].message <= Len(msgs) + 1
      <4>0. \A i \in 1..Len(recent[s]) : recent[s][i] \in Operation
        BY <3>1, ElementOfSeq
      <4>1. \A i \in 1..Len(recent[s]) : recent[s][i].message \in 1..MessageLimit
        BY <4>0 DEF Operation
      <4> QED BY <2>0, <2>2, <3>1, <4>1
    <3>6. \A i \in 1..Len(recent'[s]) : recent'[s][i].message <= Len(msgs) + 1
      <4>1. CASE op = NoOp
        BY <1>3, <3>5, <4>1
      <4>2. CASE op # NoOp
        <5>1. /\ Len(recent[s]) \in Nat
              /\ Len(recent'[s]) = Len(recent[s]) + 1
              /\ recent'[s][Len(recent[s]) + 1] = o
              /\ \A i \in 1..Len(recent[s]) : recent'[s][i] = recent[s][i]
          BY <1>3, <3>1, <4>2, LenProperties
        <5>2. o.message <= Len(msgs) + 1
          BY <3>1
        <5> HIDE DEF o
        <5>3. \A i \in 1..Len(recent'[s]) :
                i \in 1..Len(recent[s]) \/ i = Len(recent[s]) + 1
          BY <5>1
        <5>4. \A i \in 1..Len(recent'[s]) :
                \/ i \in 1..Len(recent[s]) /\ recent'[s][i] = recent[s][i]
                \/ recent'[s][i] = o
          BY <5>1, <5>3
        <5> QED BY <3>5, <5>2, <5>4
      <4> QED BY <4>1, <4>2
    <3> QED BY <1>2, <2>2, <3>3, <3>4, <3>6
  <2> QED BY <2>1, <2>2
<1>5. EachReadable'
  BY <1>4 DEF EachReadable, ReadableMessages
<1> QED BY <1>5, ReadableParts, PTL

-----------------------------------------------------------------------------
(* One finish at a time closes its own task, and then expires its messages. *)

OneFinish == \A f, g \in Finishers : f = g

FinishInv ==
  \A f \in Finishers :
    /\ finisher[f].step = "checkpoint" => active /\ finisher[f].session = session
    /\ finisher[f].step = "expire" /\ ~active => finisher[f].session = session

Quiet(s) == \A i \in 1..Len(journal[s]) : journal[s][i].delivery # "queued"

\* What is not queued does not become so.
LEMMA QuietKept ==
  ASSUME TypeOK, UNCHANGED <<journal, recent>> \/ RewriteStep, NEW s \in Sessions, Quiet(s)
  PROVE  Quiet(s)'
<1>1. CASE UNCHANGED <<journal, recent>>
  BY <1>1 DEF Quiet
<1>2. CASE RewriteStep
  <2>1. PICK u \in Sessions, next \in Seq(Message) :
          Rewritten(journal[u], next) /\ journal' = [journal EXCEPT ![u] = next]
    BY <1>2 DEF RewriteStep
  <2>2. CASE u # s
    BY <2>1, <2>2 DEF TypeOK, Quiet
  <2>3. CASE u = s
    <3>1. \A i \in 1..Len(journal[s]) : journal[s][i] \in Message
      BY ElementOfSeq DEF TypeOK
    <3>2. Len(next) = Len(journal[s]) /\ journal'[s] = next
      BY <2>1, <2>3 DEF Rewritten, TypeOK
    <3>3. \A i \in 1..Len(journal[s]) : next[i].delivery = "queued" =>
            journal[s][i].delivery = "queued"
      BY <2>1, <2>3, <3>1, TurnedKeeps DEF Rewritten
    <3> QED BY <3>2, <3>3 DEF Quiet
  <2> QED BY <2>2, <2>3
<1> QED BY <1>1, <1>2

LEMMA ExpireTaskQuiet ==
  ASSUME TypeOK, NEW s \in Sessions, ExpireQueuedMessages(s, Actors)
  PROVE  Quiet(s)'
<1> DEFINE Expired(m) == IF m.delivery = "queued" /\ m.to \in Actors
                         THEN [m EXCEPT !.delivery = "expired"] ELSE m
           f == [i \in 1..Len(journal[s]) |-> Expired(journal[s][i])]
<1>1. journal[s] \in Seq(Message) /\ Len(journal[s]) \in Nat
      /\ \A i \in 1..Len(journal[s]) : journal[s][i] \in Message
  BY ElementOfSeq, LenProperties DEF TypeOK
<1>2. journal'[s] = f
  BY DEF ExpireQueuedMessages, TypeOK
<1>3. \A i \in 1..Len(journal[s]) : f[i].delivery # "queued"
  <2> SUFFICES ASSUME NEW i \in 1..Len(journal[s]) PROVE f[i].delivery # "queued"
    OBVIOUS
  <2>1. f[i] = Expired(journal[s][i]) /\ journal[s][i] \in Message
    BY <1>1
  <2> QED BY <2>1 DEF Message
<1>4. Len(f) = Len(journal[s])
  BY <1>1
<1> QED BY <1>2, <1>3, <1>4 DEF Quiet

\* Messages are sent while the task is active.
LEMMA AppendActive ==
  ASSUME AppendStep
  PROVE  active
BY DEF AppendStep, Guarded

LEMMA QuietStep ==
  ASSUME OneFinish, TypeOK, RunInv, FinishInv, ClosedTaskIsQuiet, [Next]_vars
  PROVE  FinishInv' /\ ClosedTaskIsQuiet'
<1>0. WorldType /\ session \in Sessions
  BY TypeParts DEF TypeOK
<1>1. ASSUME UNCHANGED <<session, active, finisher>>,
             UNCHANGED <<journal, recent>> \/ RewriteStep \/ AppendStep
      PROVE  FinishInv' /\ ClosedTaskIsQuiet'
  <2>1. FinishInv'
    BY <1>1 DEF FinishInv
  <2>2. CASE active
    <3>1. active'
      BY <1>1, <2>2
    <3> QED BY <2>1, <3>1 DEF ClosedTaskIsQuiet
  <2>3. CASE ~active
    <3>1. UNCHANGED <<journal, recent>> \/ RewriteStep
      BY <1>1, <2>3, AppendActive
    <3>2. Quiet(session) => Quiet(session)'
      BY <1>0, <1>1, <3>1, QuietKept DEF Quiet
    <3> QED BY <1>1, <2>1, <3>2 DEF ClosedTaskIsQuiet, Quiet
  <2> QED BY <2>1, <2>2, <2>3
<1>2. ASSUME NEW a \in Actors,
             Resolve(a) \/ Abort(a) \/ Send(a) \/ OnMessage(a) \/ GetInbox(a)
      PROVE  FinishInv' /\ ClosedTaskIsQuiet'
  BY <1>1, <1>2, CommandStep DEF world
<1>3. ASSUME NEW r \in Runs, RunStep(r)
      PROVE  FinishInv' /\ ClosedTaskIsQuiet'
  <2>1. UNCHANGED <<journal, recent>>
    BY <1>0, <1>3, RunStepType
  <2>2. UNCHANGED <<session, active, finisher>>
    BY <1>3 DEF RunStep, Launch, Spawn, Revoke, EndRun, EndRunFails, Crash, DaemonEnd,
                DaemonRevoke, DaemonCrash, MarkOrphaned, RecoverOrphanedRun
  <2> QED BY <1>1, <2>1, <2>2
<1>4. ASSUME NEW r \in Runs, ExpireFor(r) \/ DaemonExpire(r)
      PROVE  FinishInv' /\ ClosedTaskIsQuiet'
  <2>1. RewriteStep
    BY <1>4, ExpiryStep
  <2>2. UNCHANGED <<session, active, finisher>>
    BY <1>4 DEF ExpireFor, DaemonExpire
  <2> QED BY <1>1, <2>1, <2>2
<1>5. ASSUME NEW f \in Finishers, BeginFinish(f)
      PROVE  FinishInv' /\ ClosedTaskIsQuiet'
  <2>1. /\ active /\ active' = active /\ session' = session
        /\ finisher' = [finisher EXCEPT ![f] = [step |-> "checkpoint", session |-> session]]
    BY <1>5 DEF BeginFinish, world
  <2>2. finisher'[f] = [step |-> "checkpoint", session |-> session]
    BY <1>0, <2>1 DEF WorldType
  <2>3. \A g \in Finishers : g = f
    BY DEF OneFinish
  <2> QED BY <2>1, <2>2, <2>3 DEF FinishInv, ClosedTaskIsQuiet
<1>6. ASSUME NEW f \in Finishers, CloseTask(f)
      PROVE  FinishInv' /\ ClosedTaskIsQuiet'
  <2>1. finisher[f] \in Finisher /\ session' = session /\ active
        /\ finisher[f].session = session /\ finisher[f].step = "checkpoint"
    BY <1>0, <1>6 DEF CloseTask, FinishInv, WorldType
  <2>2. \A g \in Finishers : g = f
    BY DEF OneFinish
  <2>3. CASE active' = FALSE /\ finisher' = [finisher EXCEPT ![f].step = "expire"]
    <3>1. finisher'[f].step = "expire" /\ finisher'[f].session = session
      BY <1>0, <2>1, <2>3 DEF WorldType, Finisher
    <3> QED BY <2>1, <2>2, <2>3, <3>1 DEF FinishInv, ClosedTaskIsQuiet
  <2>4. CASE active' = active
             /\ finisher' = [finisher EXCEPT ![f] = [step |-> "idle", session |-> 0]]
    <3>1. finisher'[f].step = "idle"
      BY <1>0, <2>4 DEF WorldType
    <3> QED BY <2>1, <2>2, <2>4, <3>1 DEF FinishInv, ClosedTaskIsQuiet
  <2> QED BY <1>6, <2>3, <2>4 DEF CloseTask
<1>7. ASSUME NEW f \in Finishers, ExpireTask(f)
      PROVE  FinishInv' /\ ClosedTaskIsQuiet'
  <2>1. /\ session' = session /\ active' = active
        /\ finisher' = [finisher EXCEPT ![f] = [step |-> "idle", session |-> 0]]
        /\ finisher[f].step = "expire"
    BY <1>7 DEF ExpireTask, world
  <2>2. finisher'[f].step = "idle"
    BY <1>0, <2>1 DEF WorldType
  <2>3. \A g \in Finishers : g = f
    BY DEF OneFinish
  <2>4. FinishInv'
    BY <2>2, <2>3 DEF FinishInv
  <2>5. CASE active
    BY <2>1, <2>4, <2>5 DEF ClosedTaskIsQuiet
  <2>6. CASE ~active
    <3>1. finisher[f].session = session
      BY <2>1, <2>6 DEF FinishInv
    <3>2. Quiet(session)'
      <4>1. ExpireQueuedMessages(session, Actors)
        BY <1>7, <3>1 DEF ExpireTask
      <4>2. PICK s \in Sessions : s = session
        BY <1>0
      <4>3. Quiet(s)'
        BY <4>1, <4>2, ExpireTaskQuiet
      <4> QED BY <2>1, <4>2, <4>3 DEF Quiet
    <3> QED BY <2>1, <2>4, <3>2 DEF ClosedTaskIsQuiet, Quiet
  <2> QED BY <2>5, <2>6
<1>8. CASE StartTask
  <2>1. active' /\ finisher' = finisher /\ session' # session /\ ~active
    BY <1>0, <1>8 DEF StartTask, Sessions
  <2>2. \A f \in Finishers : finisher[f].step # "checkpoint"
    BY <2>1 DEF FinishInv
  <2> QED BY <2>1, <2>2 DEF FinishInv, ClosedTaskIsQuiet
<1>9. CASE UNCHANGED vars
  BY <1>9, <1>1 DEF vars
<1> QED
  BY <1>2, <1>3, <1>4, <1>5, <1>6, <1>7, <1>8, <1>9 DEF Next, RunStep

-----------------------------------------------------------------------------
(* The theorems.                                                           *)

ThreadsInv == TypeOK /\ RunInv /\ LedgerInv /\ SentOnce /\ CareInv

\* Journals, ledgers, leases and descriptors have their types, and what the steps of
\* service.ts, sessions.ts and finish.ts rely on holds: the ledger remembers every
\* operation of its journal, and a message is addressed to a run of its own task.
THEOREM ThreadsInvariant == Spec => []ThreadsInv
<1>1. Init => ThreadsInv
  <2> SUFFICES ASSUME Init PROVE ThreadsInv
    OBVIOUS
  <2>1. TypeOK
    BY ThreadsAssumption DEF Init, TypeOK, Sessions, Finisher
  <2>2. RunInv
    BY DEF Init, RunInv
  <2>3. \A s \in Sessions : journal[s] = <<>> /\ recent[s] = <<>>
    BY DEF Init
  <2>4. LedgerInv /\ SentOnce /\ CareInv
    BY <2>3, ThreadsAssumption DEF LedgerInv, SentOnce, CareInv
  <2> QED BY <2>1, <2>2, <2>4 DEF ThreadsInv
<1>2. ThreadsInv /\ [Next]_vars => ThreadsInv'
  <2> SUFFICES ASSUME ThreadsInv, [Next]_vars PROVE ThreadsInv'
    OBVIOUS
  <2> USE DEF ThreadsInv
  <2>1. /\ TypeOK' /\ RunInv'
        /\ UNCHANGED <<journal, recent>> \/ RewriteStep \/ AppendStep
    BY TypeStep
  <2>2. LedgerInv' /\ SentOnce'
    <3>1. CASE UNCHANGED <<journal, recent>>
      BY <3>1 DEF LedgerInv, SentOnce, Processed
    <3> QED BY <2>1, <3>1, RewriteLedger, AppendLedger
  <2>3. CareInv'
    BY CareStep
  <2> QED BY <2>1, <2>2, <2>3
<1> QED BY <1>1, <1>2, PTL DEF Spec

\* Whatever the limits and however many messages lie between a request and its
\* repetition, updateThreadsJournal leaves one message for an operation id.
THEOREM SentOnceHolds == Spec => []SentOnce
BY ThreadsInvariant, PTL DEF ThreadsInv

\* A message that is queued for a run has somebody who will answer for it.
THEOREM QueuedIsCaredHolds == Spec => []QueuedIsCared
<1>1. ThreadsInv => QueuedIsCared
  BY DEF ThreadsInv, CareInv, QueuedIsCared, Cared
<1> QED BY <1>1, ThreadsInvariant, PTL

\* Every command leaves a journal that the next one can read: the limits hold, replies
\* stay between the participants of their thread, and only an acknowledged message has
\* an acknowledging reply.
THEOREM ReadableHolds == Spec => []Readable
<1>1. Init => Readable
  <2> SUFFICES ASSUME Init PROVE Readable
    OBVIOUS
  <2>1. \A s \in Sessions : journal[s] = <<>> /\ recent[s] = <<>>
    BY DEF Init
  <2>2. ReadableMessages(<<>>)
    <3>1. {i \in 1..Len(<<>>) : <<>>[i].parent = 0} = {} /\ Len(<<>>) = 0
      OBVIOUS
    <3> HIDE DEF Readable
    <3> QED BY <3>1, FS_EmptySet, ThreadsAssumption DEF ReadableMessages
  <2> QED BY <2>1, <2>2, ReadableParts DEF EachReadable
<1>2. ThreadsInv /\ Readable /\ [Next]_vars => Readable'
  <2> SUFFICES ASSUME ThreadsInv, Readable, [Next]_vars PROVE Readable'
    OBVIOUS
  <2>1. TypeOK /\ LedgerInv /\ (UNCHANGED <<journal, recent>> \/ RewriteStep \/ AppendStep)
    BY TypeStep DEF ThreadsInv
  <2>2. CASE UNCHANGED <<journal, recent>>
    BY ZenonT(60), <2>2 DEF Readable
  <2> QED BY <2>1, <2>2, RewriteReadable, AppendReadable
<1> QED BY <1>1, <1>2, ThreadsInvariant, PTL DEF Spec

\* With one invocation of finish at a time, a task that is closed has no queued message
\* once the finish is over.  (A second one may close the next task in place of its own.)
THEOREM ClosedTaskIsQuietHolds == OneFinish => (Spec => []ClosedTaskIsQuiet)
<1> SUFFICES ASSUME OneFinish PROVE Spec => []ClosedTaskIsQuiet
  OBVIOUS
<1>1. Init => FinishInv /\ ClosedTaskIsQuiet
  BY DEF Init, FinishInv, ClosedTaskIsQuiet
<1>2. ThreadsInv /\ FinishInv /\ ClosedTaskIsQuiet /\ [Next]_vars
        => FinishInv' /\ ClosedTaskIsQuiet'
  BY QuietStep DEF ThreadsInv
<1> QED BY <1>1, <1>2, ThreadsInvariant, PTL DEF Spec

\* Journals grow at their end, and acknowledging, expiring and reading are for good.
THEOREM ForwardOnlyHolds == Spec => ForwardOnly
<1> DEFINE Forward ==
      \A s \in Sessions :
        /\ Len(journal'[s]) >= Len(journal[s])
        /\ \A i \in 1..Len(journal[s]) :
             LET m == journal[s][i]  n == journal'[s][i] IN
             /\ n = [m EXCEPT !.delivery = n.delivery, !.read = n.read]
             /\ m.delivery # "queued" => n.delivery = m.delivery
             /\ m.read => n.read
<1>1. ThreadsInv /\ [Next]_vars => [Forward]_vars
  <2> SUFFICES ASSUME ThreadsInv, [Next]_vars PROVE Forward
    OBVIOUS
  <2>1. TypeOK /\ (UNCHANGED <<journal, recent>> \/ RewriteStep \/ AppendStep)
    BY TypeStep DEF ThreadsInv
  <2> QED BY ZenonT(60), <2>1, ForwardStep DEF Turned
<1> QED BY <1>1, ThreadsInvariant, PTL DEF Spec, ForwardOnly

=============================================================================
