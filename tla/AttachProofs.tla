---------------------------- MODULE AttachProofs ----------------------------
(***************************************************************************)
(* Proofs about AttachSession: the ring holds the newest output, and what  *)
(* an attached client shows of it is in order and complete, whatever the   *)
(* sizes of the ring, of its chunks and of the slices.                     *)
(***************************************************************************)
EXTENDS AttachSession, RingProofs

-----------------------------------------------------------------------------
(* The inductive invariant.                                                *)

RingInv == Newest(ring)

Counts == [op : {"output", "exit"}, next : Nat]
Slices == [op : {"slice"}, slice : Slice, final : BOOLEAN]
Verdicts == [op : {"ok", "not_running", "refused"}]
Message == Counts \cup Slices \cup Verdicts

SessionType ==
  /\ terminal \in {"running", "finalized", "final", "exited"}
  /\ request \in Request \cup {None}
  /\ channel \in Seq(Message)
  /\ phase \in {"away", "replay", "control", "resize", "ready"}
  /\ readOnly \in BOOLEAN /\ queued \in BOOLEAN
  /\ exitPending \in BOOLEAN /\ pumping \in BOOLEAN
  /\ cursor \in Nat /\ target \in Nat
  /\ end \in {"no", "exit", "user", "error", "stuck"}
  /\ shown \in Seq(Int)

\* A slice that is final tells all that there is.
Whole(m, r, t) == m.final => t # "running" /\ m.slice.next = r.next

\* A message tells how much output there was when it was sent, and messages arrive
\* in the order in which they were sent.
Counted(m) == m \in Counts \cup Slices
Total(m) == IF m \in Slices THEN m.slice.next ELSE m.next

Ordered(ch, low, high) ==
  \A i \in 1..Len(ch) : Counted(ch[i]) =>
    /\ low <= Total(ch[i]) /\ Total(ch[i]) <= high
    /\ \A j \in 1..i : Counted(ch[j]) => Total(ch[j]) <= Total(ch[i])

InOrder ==
  /\ target <= ring.next /\ Ordered(channel, target, ring.next)
  /\ phase \in {"control", "resize"} => Ordered(channel, replay.slice.next, ring.next)

\* One request at a time, and one answer to it.
Answer(m) == m \in Slices \cup Verdicts
Answers(ch) == {i \in 1..Len(ch) : Answer(ch[i])}

OneAnswer ==
  /\ \A i, j \in Answers(channel) : i = j
  /\ Answers(channel) # {} => request = None

\* The answers are of a kind.
Only(ch, kind) == \A i \in Answers(ch) : ch[i] \in kind

\* What the client waits for.
ByPhase ==
  /\ phase = "away" => channel = <<>> /\ request = None
  /\ phase # "ready" => ~pumping /\ cursor = 0 /\ shown = <<>>
  /\ phase = "ready" /\ ~pumping /\ ~Ended => request = None /\ Answers(channel) = {}
  /\ phase \in {"replay", "ready"} =>
       /\ request # None => request.op = "attach" /\ request.cursor = cursor
       /\ Only(channel, Slices)
  /\ phase \in {"control", "resize"} =>
       /\ request # None => request.op = phase
       /\ Only(channel, Verdicts)
       /\ replay \in Slices /\ Continues(replay.slice, ring, cursor)
       /\ Whole(replay, ring, terminal)

\* What is on its way.
Tells(m, r, c, t, over) ==
  /\ m \in Slices => (over \/ Continues(m.slice, r, c)) /\ Whole(m, r, t)
  /\ m \in Counts /\ m.op = "exit" => t # "running" /\ m.next = r.next
  /\ m \in Verdicts /\ m.op = "not_running" => t # "running"

AllTell(ch, r, c, t, over) == \A i \in 1..Len(ch) : Tells(ch[i], r, c, t, over)

OnItsWay == AllTell(channel, ring, cursor, terminal, Ended)

\* The client knows how much there is, or will with the next slice.
KnowsEnd ==
  exitPending /\ ~Ended =>
    /\ terminal # "running"
    /\ \/ target = ring.next
       \/ phase = "ready" /\ request # None
       \/ phase = "ready" /\ \E i \in Answers(channel) : channel[i].slice.next = ring.next

Shown == cursor <= target /\ UpTo(shown, cursor, ring)

EndInv ==
  /\ EndsWithLastByte
  /\ end = "exit" => terminal # "running"

SessionInv ==
  /\ SessionType /\ InOrder /\ OneAnswer /\ ByPhase /\ OnItsWay /\ KnowsEnd
  /\ Shown /\ EndInv


-----------------------------------------------------------------------------
(* Messages: what is sent, and what is delivered.                          *)

LEMMA MessageKinds ==
  ASSUME NEW m \in Message
  PROVE  /\ m \in Counts \/ m \in Slices \/ m \in Verdicts
         /\ m \in Counts => /\ m.op \in {"output", "exit"} /\ m.next \in Nat
                            /\ m \notin Slices /\ m \notin Verdicts
                            /\ ~Answer(m) /\ Counted(m) /\ Total(m) = m.next
         /\ m \in Slices => /\ m.op = "slice" /\ m.slice \in Slice /\ m.final \in BOOLEAN
                            /\ m \notin Counts /\ m \notin Verdicts
                            /\ Answer(m) /\ Counted(m) /\ Total(m) = m.slice.next
         /\ m \in Verdicts => /\ m.op \in {"ok", "not_running", "refused"}
                              /\ m \notin Counts /\ m \notin Slices
                              /\ Answer(m) /\ ~Counted(m)
         /\ Counted(m) => Total(m) \in Nat
<1>1. m \in Counts \/ m \in Slices \/ m \in Verdicts
  BY DEF Message
<1>2. m \in Counts => m.op \in {"output", "exit"} /\ m.next \in Nat
  BY DEF Counts
<1>3. m \in Slices => m.op = "slice" /\ m.slice \in Slice /\ m.final \in BOOLEAN
  BY DEF Slices
<1>4. m \in Slices => m.slice.next \in Nat
  BY <1>3 DEF Slice
<1>5. m \in Verdicts => m.op \in {"ok", "not_running", "refused"}
  BY DEF Verdicts
<1>6. /\ m \in Counts => m \notin Slices /\ m \notin Verdicts
      /\ m \in Slices => m \notin Counts /\ m \notin Verdicts
      /\ m \in Verdicts => m \notin Counts /\ m \notin Slices
  BY <1>2, <1>3, <1>5
<1> QED BY <1>1, <1>2, <1>3, <1>4, <1>5, <1>6 DEF Answer, Counted, Total

LEMMA Sent ==
  ASSUME NEW ch \in Seq(Message), NEW m \in Message
  PROVE  /\ Append(ch, m) \in Seq(Message) /\ Append(ch, m) # <<>> /\ Len(ch) \in Nat
         /\ \A i \in 1..Len(Append(ch, m)) :
              \/ i \in 1..Len(ch) /\ Append(ch, m)[i] = ch[i]
              \/ i = Len(ch) + 1 /\ Append(ch, m)[i] = m
         /\ \A i \in 1..Len(ch) : i \in 1..Len(Append(ch, m)) /\ Append(ch, m)[i] = ch[i]
         /\ Len(ch) + 1 \in 1..Len(Append(ch, m)) /\ Append(ch, m)[Len(ch) + 1] = m
<1>1. /\ Append(ch, m) \in Seq(Message) /\ Append(ch, m) # <<>> /\ Len(ch) \in Nat
      /\ Len(Append(ch, m)) = Len(ch) + 1
      /\ \A i \in 1..Len(ch) : Append(ch, m)[i] = ch[i]
      /\ Append(ch, m)[Len(ch) + 1] = m
  BY AppendIs
<1> QED BY <1>1

LEMMA SentAnswers ==
  ASSUME NEW ch \in Seq(Message), NEW m \in Message
  PROVE  /\ ~Answer(m) => Answers(Append(ch, m)) = Answers(ch)
         /\ Answer(m) => Answers(Append(ch, m)) = Answers(ch) \cup {Len(ch) + 1}
BY Sent DEF Answers

LEMMA SentOnly ==
  ASSUME NEW ch \in Seq(Message), NEW m \in Message, NEW kind, Only(ch, kind),
         Answer(m) => m \in kind
  PROVE  Only(Append(ch, m), kind)
BY Sent DEF Answers, Only

LEMMA SentOrdered ==
  ASSUME NEW ch \in Seq(Message), NEW m \in Message,
         NEW low \in Nat, NEW high \in Nat, NEW new \in Nat,
         Ordered(ch, low, high), low <= high, high <= new, Counted(m) => Total(m) = new
  PROVE  Ordered(Append(ch, m), low, new)
<1> DEFINE c == Append(ch, m)
<1>1. /\ Len(ch) \in Nat
      /\ \A i \in 1..Len(c) : \/ i \in 1..Len(ch) /\ c[i] = ch[i]
                              \/ i = Len(ch) + 1 /\ c[i] = m
  BY Sent
<1>2. \A i \in 1..Len(ch) : ch[i] \in Message
  OBVIOUS
<1>3. \A i \in 1..Len(ch) : Counted(ch[i]) => Total(ch[i]) \in Nat
  BY <1>2, MessageKinds
<1> HIDE DEF c
<1> SUFFICES ASSUME NEW i \in 1..Len(c), Counted(c[i])
             PROVE  /\ low <= Total(c[i]) /\ Total(c[i]) <= new
                    /\ \A j \in 1..i : Counted(c[j]) => Total(c[j]) <= Total(c[i])
  BY DEF Ordered, c
<1>4. CASE i \in 1..Len(ch) /\ c[i] = ch[i]
  <2>1. \A j \in 1..i : j \in 1..Len(c) /\ j # Len(ch) + 1
    BY <1>1, <1>4
  <2>2. \A j \in 1..i : c[j] = ch[j]
    BY <1>1, <2>1
  <2> QED BY <1>3, <1>4, <2>2 DEF Ordered
<1>5. CASE i = Len(ch) + 1 /\ c[i] = m
  <2>1. Total(c[i]) = new
    BY <1>5
  <2>2. ASSUME NEW j \in 1..i, Counted(c[j]) PROVE Total(c[j]) <= new
    <3>1. j \in 1..Len(c)
      BY <1>1
    <3>2. CASE j \in 1..Len(ch) /\ c[j] = ch[j]
      BY <1>3, <2>2, <3>2 DEF Ordered
    <3>3. CASE j = Len(ch) + 1 /\ c[j] = m
      BY <1>5, <2>1, <3>3
    <3> QED BY <1>1, <3>1, <3>2, <3>3
  <2> QED BY <2>1, <2>2
<1> QED BY <1>1, <1>4, <1>5

LEMMA SentTells ==
  ASSUME NEW ch \in Seq(Message), NEW m \in Message, NEW r, NEW c, NEW t, NEW over,
         AllTell(ch, r, c, t, over), Tells(m, r, c, t, over)
  PROVE  AllTell(Append(ch, m), r, c, t, over)
BY Sent DEF AllTell

LEMMA Delivered ==
  ASSUME NEW ch \in Seq(Message), ch # <<>>
  PROVE  /\ Tail(ch) \in Seq(Message) /\ Head(ch) = ch[1] /\ Head(ch) \in Message
         /\ Len(ch) \in Nat /\ 1 \in 1..Len(ch) /\ Len(Tail(ch)) = Len(ch) - 1
         /\ \A i \in 1..Len(Tail(ch)) : i + 1 \in 1..Len(ch) /\ Tail(ch)[i] = ch[i + 1]
<1>1. Len(ch) \in Nat /\ Len(ch) # 0
  BY LenProperties, EmptySeq
<1>2. Tail(ch) \in Seq(Message) /\ Len(Tail(ch)) = Len(ch) - 1
      /\ \A i \in 1..(Len(ch) - 1) : Tail(ch)[i] = ch[i + 1]
  BY HeadTailProperties
<1> QED BY <1>1, <1>2

LEMMA DeliveredAnswers ==
  ASSUME NEW ch \in Seq(Message), ch # <<>>, \A i, j \in Answers(ch) : i = j
  PROVE  /\ \A i \in Answers(Tail(ch)) : i + 1 \in Answers(ch) /\ Tail(ch)[i] = ch[i + 1]
         /\ \A i, j \in Answers(Tail(ch)) : i = j
         /\ Answer(Head(ch)) => 1 \in Answers(ch) /\ Answers(Tail(ch)) = {}
         /\ ~Answer(Head(ch)) => \A i \in Answers(ch) :
                                   i - 1 \in Answers(Tail(ch)) /\ Tail(ch)[i - 1] = ch[i]
<1> DEFINE t == Tail(ch)
<1>1. /\ Head(ch) = ch[1] /\ Len(ch) \in Nat /\ 1 \in 1..Len(ch) /\ Len(t) = Len(ch) - 1
      /\ \A i \in 1..Len(t) : i + 1 \in 1..Len(ch) /\ t[i] = ch[i + 1]
  BY Delivered
<1> HIDE DEF t
<1>2. \A i \in Answers(t) : i \in 1..Len(t) /\ i + 1 \in Answers(ch) /\ t[i] = ch[i + 1]
  BY <1>1 DEF Answers
<1>3. \A i, j \in Answers(t) : i = j
  <2> SUFFICES ASSUME NEW i \in Answers(t), NEW j \in Answers(t) PROVE i = j
    OBVIOUS
  <2>1. i + 1 = j + 1 /\ i \in 1..Len(t) /\ j \in 1..Len(t)
    BY <1>2
  <2> QED BY <2>1
<1>4. Answer(Head(ch)) => 1 \in Answers(ch) /\ Answers(t) = {}
  <2> SUFFICES ASSUME Answer(Head(ch)) PROVE 1 \in Answers(ch) /\ Answers(t) = {}
    OBVIOUS
  <2>1. 1 \in Answers(ch)
    BY <1>1 DEF Answers
  <2>2. ASSUME NEW i \in Answers(t) PROVE FALSE
    <3>1. i + 1 = 1 /\ i \in 1..Len(t)
      BY <1>2, <2>1
    <3> QED BY <3>1
  <2> QED BY <2>1, <2>2
<1>5. ~Answer(Head(ch)) => \A i \in Answers(ch) : i - 1 \in Answers(t) /\ t[i - 1] = ch[i]
  <2> SUFFICES ASSUME ~Answer(Head(ch)), NEW i \in Answers(ch)
               PROVE  i - 1 \in Answers(t) /\ t[i - 1] = ch[i]
    OBVIOUS
  <2>1. i \in 1..Len(ch) /\ Answer(ch[i]) /\ i # 1
    BY <1>1 DEF Answers
  <2>2. i - 1 \in 1..Len(t) /\ (i - 1) + 1 = i
    BY <1>1, <2>1
  <2>3. t[i - 1] = ch[i]
    BY <1>1, <2>2
  <2> QED BY <2>1, <2>2, <2>3 DEF Answers
<1> QED BY <1>2, <1>3, <1>4, <1>5 DEF t

LEMMA DeliveredOnly ==
  ASSUME NEW ch \in Seq(Message), ch # <<>>, NEW kind, Only(ch, kind)
  PROVE  Only(Tail(ch), kind) /\ (Answer(Head(ch)) => Head(ch) \in kind)
BY Delivered DEF Answers, Only

LEMMA DeliveredOrdered ==
  ASSUME NEW ch \in Seq(Message), ch # <<>>, NEW low, NEW high, Ordered(ch, low, high)
  PROVE  /\ Ordered(Tail(ch), low, high)
         /\ Counted(Head(ch)) => /\ low <= Total(Head(ch)) /\ Total(Head(ch)) <= high
                                 /\ Ordered(Tail(ch), Total(Head(ch)), high)
<1> DEFINE t == Tail(ch)
<1>1. /\ Head(ch) = ch[1] /\ Len(ch) \in Nat /\ 1 \in 1..Len(ch) /\ Len(t) = Len(ch) - 1
      /\ \A i \in 1..Len(t) : i + 1 \in 1..Len(ch) /\ t[i] = ch[i + 1]
  BY Delivered
<1> HIDE DEF t
<1>2. ASSUME NEW i \in 1..Len(t), Counted(t[i])
      PROVE  /\ low <= Total(t[i]) /\ Total(t[i]) <= high
             /\ \A j \in 1..i : Counted(t[j]) => Total(t[j]) <= Total(t[i])
             /\ Counted(ch[1]) => Total(ch[1]) <= Total(t[i])
  <2>1. i + 1 \in 1..Len(ch) /\ t[i] = ch[i + 1] /\ 1 \in 1..(i + 1)
    BY <1>1
  <2>2. /\ low <= Total(ch[i + 1]) /\ Total(ch[i + 1]) <= high
        /\ \A j \in 1..(i + 1) : Counted(ch[j]) => Total(ch[j]) <= Total(ch[i + 1])
    BY <1>2, <2>1 DEF Ordered
  <2>3. \A j \in 1..i : j \in 1..Len(t) /\ j + 1 \in 1..(i + 1)
    BY <1>1
  <2>4. \A j \in 1..i : t[j] = ch[j + 1]
    BY <1>1, <2>3
  <2> QED BY <2>1, <2>2, <2>3, <2>4
<1>3. Counted(ch[1]) => low <= Total(ch[1]) /\ Total(ch[1]) <= high
  BY <1>1 DEF Ordered
<1> QED BY <1>1, <1>2, <1>3 DEF Ordered, t

LEMMA DeliveredTells ==
  ASSUME NEW ch \in Seq(Message), ch # <<>>, NEW r, NEW c, NEW t, NEW over,
         AllTell(ch, r, c, t, over)
  PROVE  AllTell(Tail(ch), r, c, t, over) /\ Tells(Head(ch), r, c, t, over)
BY Delivered DEF AllTell


-----------------------------------------------------------------------------
(* What stays true when the ring goes on, and when bytes are shown.        *)

\* A message goes on telling the truth while the ring goes on, unless it is the
\* terminal's last.
LEMMA TellLater ==
  ASSUME NEW ch \in Seq(Message), NEW r, NEW n, GoesOn(r, n), NEW c \in Nat,
         NEW t, NEW over, NEW more \in BOOLEAN, over => more,
         AllTell(ch, r, c, t, over),
         \/ t = "running"
         \/ n.next = r.next
  PROVE  AllTell(ch, n, c, t, more)
<1> SUFFICES ASSUME NEW i \in 1..Len(ch) PROVE Tells(ch[i], n, c, t, more)
  BY DEF AllTell
<1> DEFINE m == ch[i]
<1>1. m \in Message /\ Tells(m, r, c, t, over)
  BY DEF AllTell
<1> HIDE DEF m
<1>2. m \in Slices => m.slice \in Slice
  BY <1>1, MessageKinds
<1>3. m \in Slices => (more \/ Continues(m.slice, n, c))
  BY <1>1, <1>2, ContinuesLater DEF Tells
<1>4. /\ m \in Slices => Whole(m, n, t)
      /\ m \in Counts /\ m.op = "exit" => t # "running" /\ m.next = n.next
      /\ m \in Verdicts /\ m.op = "not_running" => t # "running"
  BY <1>1 DEF Tells, Whole
<1> QED BY <1>3, <1>4 DEF Tells, m


-----------------------------------------------------------------------------
(* Every step keeps the invariant: the daemon's.                           *)

LEMMA RingFacts ==
  ASSUME RingInv
  PROVE  /\ ring \in Rings /\ ring.next \in Nat /\ ring.oldest \in Nat
         /\ ring.oldest <= ring.next /\ GoesOn(ring, ring)
         /\ ring.next > 0 => ring.oldest < ring.next
<1>1. /\ ring \in Rings /\ ring.next \in Nat /\ ring.oldest \in Nat
      /\ ring.oldest <= ring.next /\ ring.oldest = Larger(0, ring.next - RingBytes)
  BY NewestType DEF RingInv, Newest
<1>2. ring.next > 0 => ring.oldest < ring.next
  BY <1>1, RingAssumption DEF Larger
<1> QED BY <1>1, <1>2 DEF GoesOn

\* The ring after a step: it goes on, and a running terminal's is not known to end.
LEMMA OutputKeeps ==
  ASSUME RingInv, SessionInv, Output
  PROVE  RingInv' /\ SessionInv'
<1> DEFINE m == [op |-> "output", next |-> ring'.next]
<1>1. /\ terminal = "running" /\ terminal' = terminal /\ request' = request
      /\ Say(m) /\ phase' = phase /\ readOnly' = readOnly /\ replay' = replay
      /\ cursor' = cursor /\ target' = target /\ queued' = queued
      /\ exitPending' = exitPending /\ pumping' = pumping /\ end' = end /\ shown' = shown
  BY DEF Output, client
<1>2. RingInv' /\ GoesOn(ring, ring')
  <2>1. PICK n \in Chunks : ring' = AppendOutput(ring, n)
    BY DEF Output
  <2>2. n \in Nat
    BY SessionAssumption
  <2>3. /\ Newest(ring) /\ Newest(ring') /\ ring'.next = ring.next + n
        /\ ring.oldest <= ring'.oldest
    BY <2>1, <2>2, AppendNewest DEF RingInv
  <2>4. /\ ring.next \in Nat /\ ring.oldest \in Nat
        /\ ring'.next \in Nat /\ ring'.oldest \in Nat
    BY <2>3, NewestType
  <2> QED BY <2>2, <2>3, <2>4 DEF RingInv, GoesOn
<1>3. /\ SessionType /\ InOrder /\ OneAnswer /\ ByPhase /\ OnItsWay /\ KnowsEnd
      /\ Shown /\ EndInv /\ channel \in Seq(Message) /\ cursor \in Nat /\ target \in Nat
      /\ ring.next \in Nat /\ ring'.next \in Nat /\ ring.next <= ring'.next
  BY <1>2 DEF SessionInv, SessionType, GoesOn
<1>4. m \in Message /\ m \in Counts /\ ~Answer(m) /\ Total(m) = ring'.next /\ m.op = "output"
  <2>1. m \in Counts /\ m.next = ring'.next /\ m.op = "output"
    BY <1>3 DEF Counts
  <2> HIDE DEF m
  <2> QED BY <2>1, MessageKinds DEF Message
<1> HIDE DEF m
<1>5. channel' = channel \/ channel' = Append(channel, m)
  BY <1>1 DEF Say
<1>6. /\ channel' \in Seq(Message) /\ Answers(channel') = Answers(channel)
      /\ \A kind : Only(channel, kind) => Only(channel', kind)
  <2>1. Append(channel, m) \in Seq(Message) /\ Answers(Append(channel, m)) = Answers(channel)
    BY <1>3, <1>4, Sent, SentAnswers
  <2>2. ASSUME NEW kind, Only(channel, kind) PROVE Only(Append(channel, m), kind)
    BY <1>3, <1>4, <2>2, SentOnly
  <2> QED BY <1>3, <1>5, <2>1, <2>2
<1>7. ASSUME NEW low \in Nat, Ordered(channel, low, ring.next), low <= ring.next
      PROVE  Ordered(channel', low, ring'.next)
  <2>1. Ordered(Append(channel, m), low, ring'.next)
    BY <1>3, <1>4, <1>7, SentOrdered
  <2>2. Ordered(channel, low, ring'.next)
    <3>1. \A i \in 1..Len(channel) : Counted(channel[i]) => Total(channel[i]) \in Nat
      BY <1>3, MessageKinds
    <3> QED BY <1>3, <1>7, <3>1 DEF Ordered
  <2> QED BY <1>5, <2>1, <2>2
<1>8. SessionType'
  BY <1>1, <1>3, <1>6 DEF SessionType
<1>9. phase \in {"control", "resize"} =>
        /\ replay \in Slices /\ replay.slice \in Slice
        /\ Continues(replay.slice, ring, cursor) /\ Whole(replay, ring, terminal)
        /\ replay.slice.next \in Nat /\ replay.slice.next <= ring.next
  <2>1. ASSUME phase \in {"control", "resize"}
        PROVE  /\ replay \in Slices /\ Continues(replay.slice, ring, cursor)
               /\ Whole(replay, ring, terminal)
    BY <1>3, <2>1 DEF ByPhase
  <2>2. replay \in Slices => replay.slice \in Slice /\ replay.slice.next \in Nat
    BY DEF Slices, Slice
  <2> QED BY <2>1, <2>2 DEF Continues
<1>10. InOrder'
  <2>1. target' <= ring'.next /\ Ordered(channel', target', ring'.next)
    BY <1>1, <1>3, <1>7 DEF InOrder
  <2>2. phase' \in {"control", "resize"} => Ordered(channel', replay'.slice.next, ring'.next)
    BY <1>1, <1>3, <1>7, <1>9 DEF InOrder
  <2> QED BY <2>1, <2>2 DEF InOrder
<1>11. OneAnswer'
  BY <1>1, <1>3, <1>6 DEF OneAnswer
<1>12. ByPhase'
  <2>1. phase' = "away" => channel' = <<>> /\ request' = None
    BY <1>1, <1>3 DEF ByPhase, Say
  <2>2. phase' # "ready" => ~pumping' /\ cursor' = 0 /\ shown' = <<>>
    BY <1>1, <1>3 DEF ByPhase
  <2>3. phase' = "ready" /\ ~pumping' /\ ~Ended' => request' = None /\ Answers(channel') = {}
    BY <1>1, <1>3, <1>6 DEF ByPhase, Ended
  <2>4. phase' \in {"replay", "ready"} =>
          /\ request' # None => request'.op = "attach" /\ request'.cursor = cursor'
          /\ Only(channel', Slices)
    BY <1>1, <1>3, <1>6 DEF ByPhase
  <2>5. phase' \in {"control", "resize"} =>
          /\ request' # None => request'.op = phase'
          /\ Only(channel', Verdicts)
    BY <1>1, <1>3, <1>6 DEF ByPhase
  <2>6. phase' \in {"control", "resize"} =>
          /\ replay' \in Slices /\ Continues(replay'.slice, ring', cursor')
          /\ Whole(replay', ring', terminal')
    BY <1>1, <1>2, <1>3, <1>9, ContinuesLater DEF Whole
  <2> QED BY <2>1, <2>2, <2>3, <2>4, <2>5, <2>6 DEF ByPhase
<1>13. OnItsWay'
  <2>1. Ended \in BOOLEAN
    BY DEF Ended
  <2>2. AllTell(channel, ring', cursor, terminal, Ended)
    BY <1>1, <1>2, <1>3, <2>1, TellLater DEF OnItsWay
  <2>3. Tells(m, ring', cursor, terminal, Ended)
    BY <1>4, MessageKinds DEF Tells
  <2>4. AllTell(channel', ring', cursor, terminal, Ended)
    BY <1>3, <1>4, <1>5, <2>2, <2>3, SentTells
  <2> QED BY <1>1, <2>4 DEF OnItsWay, Ended
<1>14. KnowsEnd'
  BY <1>1, <1>3 DEF KnowsEnd, Ended
<1>15. Shown'
  BY <1>1, <1>2, <1>3, UpToLater DEF Shown, SessionType
<1>16. EndInv'
  BY <1>1, <1>3 DEF EndInv, EndsWithLastByte
<1> QED BY <1>2, <1>8, <1>10, <1>11, <1>12, <1>13, <1>14, <1>15, <1>16 DEF SessionInv


\* The process exits, and its end is told.
LEMMA ExitKeeps ==
  ASSUME RingInv, SessionInv, Exit
  PROVE  RingInv' /\ SessionInv'
<1> DEFINE m == [op |-> "exit", next |-> ring.next]
<1>1. /\ ring' = ring /\ request' = request /\ phase' = phase /\ readOnly' = readOnly
      /\ replay' = replay /\ cursor' = cursor /\ target' = target /\ queued' = queued
      /\ exitPending' = exitPending /\ pumping' = pumping /\ end' = end /\ shown' = shown
  BY DEF Exit, client
<1>2. /\ SessionType /\ InOrder /\ OneAnswer /\ ByPhase /\ OnItsWay /\ KnowsEnd
      /\ Shown /\ EndInv /\ channel \in Seq(Message) /\ ring.next \in Nat
      /\ RingInv /\ target \in Nat
  BY RingFacts DEF SessionInv, SessionType
<1>3. /\ terminal' \in {"finalized", "final", "exited"}
      /\ channel' = channel \/ Say(m)
  BY DEF Exit
<1>4. m \in Message /\ m \in Counts /\ ~Answer(m) /\ Total(m) = ring.next /\ m.next = ring.next
  <2>1. m \in Counts /\ m.next = ring.next
    BY <1>2 DEF Counts
  <2> HIDE DEF m
  <2> QED BY <2>1, MessageKinds DEF Message
<1> HIDE DEF m
<1>5. channel' = channel \/ (channel' = Append(channel, m) /\ phase # "away")
  BY <1>3 DEF Say
<1>6. /\ channel' \in Seq(Message) /\ Answers(channel') = Answers(channel)
      /\ \A kind : Only(channel, kind) => Only(channel', kind)
  <2>1. Append(channel, m) \in Seq(Message) /\ Answers(Append(channel, m)) = Answers(channel)
    BY <1>2, <1>4, Sent, SentAnswers
  <2>2. ASSUME NEW kind, Only(channel, kind) PROVE Only(Append(channel, m), kind)
    BY <1>2, <1>4, <2>2, SentOnly
  <2> QED BY <1>2, <1>5, <2>1, <2>2
<1>7. ASSUME NEW low \in Nat, Ordered(channel, low, ring.next), low <= ring.next
      PROVE  Ordered(channel', low, ring.next)
  <2>1. Ordered(Append(channel, m), low, ring.next)
    BY <1>2, <1>4, <1>7, SentOrdered
  <2> QED BY <1>5, <1>7, <2>1
<1>8. SessionType'
  BY <1>1, <1>2, <1>3, <1>6 DEF SessionType
<1>9. phase \in {"control", "resize"} =>
        replay.slice.next \in Nat /\ replay.slice.next <= ring.next
  <2>1. phase \in {"control", "resize"} =>
          replay \in Slices /\ Continues(replay.slice, ring, cursor)
    BY <1>2 DEF ByPhase
  <2>2. replay \in Slices => replay.slice \in Slice /\ replay.slice.next \in Nat
    BY DEF Slices, Slice
  <2> QED BY <2>1, <2>2 DEF Continues
<1>10. InOrder'
  BY <1>1, <1>2, <1>7, <1>9 DEF InOrder
<1>11. OneAnswer'
  BY <1>1, <1>2, <1>6 DEF OneAnswer
<1>12. ByPhase'
  <2>1. phase' = "away" => channel' = <<>> /\ request' = None
    BY <1>1, <1>2, <1>5 DEF ByPhase
  <2>2. phase' # "ready" => ~pumping' /\ cursor' = 0 /\ shown' = <<>>
    BY <1>1, <1>2 DEF ByPhase
  <2>3. phase' = "ready" /\ ~pumping' /\ ~Ended' => request' = None /\ Answers(channel') = {}
    BY <1>1, <1>2, <1>6 DEF ByPhase, Ended
  <2>4. phase' \in {"replay", "ready"} =>
          /\ request' # None => request'.op = "attach" /\ request'.cursor = cursor'
          /\ Only(channel', Slices)
    BY <1>1, <1>2, <1>6 DEF ByPhase
  <2>5. phase' \in {"control", "resize"} =>
          /\ request' # None => request'.op = phase'
          /\ Only(channel', Verdicts)
    BY <1>1, <1>2, <1>6 DEF ByPhase
  <2>6. phase' \in {"control", "resize"} =>
          /\ replay' \in Slices /\ Continues(replay'.slice, ring', cursor')
          /\ Whole(replay', ring', terminal')
    BY <1>1, <1>2, <1>3 DEF ByPhase, Whole
  <2> QED BY <2>1, <2>2, <2>3, <2>4, <2>5, <2>6 DEF ByPhase
<1>13. OnItsWay'
  <2>1. AllTell(channel, ring, cursor, terminal', Ended)
    BY <1>2, <1>3 DEF OnItsWay, AllTell, Tells, Whole
  <2>2. Tells(m, ring, cursor, terminal', Ended)
    BY <1>3, <1>4, MessageKinds DEF Tells
  <2>3. AllTell(channel', ring, cursor, terminal', Ended)
    BY <1>2, <1>4, <1>5, <2>1, <2>2, SentTells
  <2> QED BY <1>1, <2>3 DEF OnItsWay, Ended
<1>14. KnowsEnd'
  <2>1. ASSUME NEW i \in Answers(channel) PROVE channel'[i] = channel[i]
    <3>1. i \in 1..Len(channel)
      BY DEF Answers
    <3>2. Append(channel, m)[i] = channel[i]
      BY <1>2, <1>4, <3>1, Sent
    <3> QED BY <1>5, <3>2
  <2> QED BY <1>1, <1>2, <1>3, <1>6, <2>1 DEF KnowsEnd, Ended
<1>15. Shown' /\ RingInv'
  BY <1>1, <1>2 DEF Shown, RingInv
<1>16. EndInv'
  BY <1>1, <1>2, <1>3 DEF EndInv, EndsWithLastByte
<1> QED BY <1>8, <1>10, <1>11, <1>12, <1>13, <1>14, <1>15, <1>16 DEF SessionInv

\* An answer to the client's request: what it must be.
Fits(m, r) ==
  /\ m \in Message /\ Answer(m) /\ (m \in Slices => m.slice.next = ring.next)
  /\ r.op = "attach" => m \in Slices
  /\ r.op # "attach" => m \in Verdicts
  /\ Tells(m, ring, cursor, terminal, FALSE)

LEMMA AnswerFits ==
  ASSUME RingInv, SessionInv, Respond
  PROVE  /\ request # None /\ request' = None /\ phase # "away"
         /\ \E m : channel' = Append(channel, m) /\ Fits(m, request)
<1>1. request # None /\ request' = None
  BY DEF Respond
<1>2. /\ SessionType /\ InOrder /\ ByPhase /\ Shown /\ request \in Request
      /\ cursor \in Nat /\ target \in Nat /\ ring.next \in Nat
  BY <1>1, RingFacts DEF SessionInv, SessionType
<1>3. phase # "away"
  BY <1>1, <1>2 DEF ByPhase
<1>4. request.op \in {"attach", "control", "resize"}
  BY <1>2 DEF Request
<1>5. \A m : Say(m) => channel' = Append(channel, m)
  BY <1>3 DEF Say
<1>6. CASE request.op = "attach"
  <2> DEFINE s == OutputSlice(ring, request.cursor)
             m == [op |-> "slice", slice |-> s, final |-> Final]
  <2>1. channel' = Append(channel, m)
    BY <1>5, <1>6 DEF Respond
  <2>2. request.cursor = cursor
    BY <1>1, <1>2, <1>6 DEF ByPhase, SessionType
  <2>3. cursor <= ring.next
    BY <1>2 DEF InOrder, Shown
  <2> HIDE DEF s
  <2>6. s \in Slice /\ s.next = ring.next /\ Continues(s, ring, cursor)
    BY <1>2, <2>2, <2>3, SliceContinues DEF RingInv, s
  <2>8. Final \in BOOLEAN /\ (Final => terminal # "running")
    BY DEF Final
  <2>9. m \in Slices /\ m.slice = s /\ m.final = Final
    BY <2>6, <2>8 DEF Slices
  <2> HIDE DEF m
  <2>10. Fits(m, request)
    BY <1>6, <2>6, <2>8, <2>9, MessageKinds DEF Fits, Tells, Whole, Message
  <2> QED BY <1>1, <1>3, <2>1, <2>10
<1>7. CASE request.op # "attach"
  <2>1. PICK op \in {"ok", "not_running", "refused"} :
          /\ channel' = Append(channel, [op |-> op])
          /\ op = "not_running" => terminal # "running"
    BY <1>4, <1>5, <1>7 DEF Respond
  <2> DEFINE m == [op |-> op]
  <2>2. m \in Verdicts /\ m.op = op
    BY DEF Verdicts
  <2> HIDE DEF m
  <2>3. Fits(m, request)
    BY <1>7, <2>1, <2>2, MessageKinds DEF Fits, Tells, Message
  <2> QED BY <1>1, <1>3, <2>1, <2>3 DEF m
<1> QED BY <1>6, <1>7

LEMMA RespondKeeps ==
  ASSUME RingInv, SessionInv, Respond
  PROVE  RingInv' /\ SessionInv'
<1>1. /\ ring' = ring /\ terminal' = terminal /\ phase' = phase /\ readOnly' = readOnly
      /\ replay' = replay /\ cursor' = cursor /\ target' = target /\ queued' = queued
      /\ exitPending' = exitPending /\ pumping' = pumping /\ end' = end /\ shown' = shown
  BY DEF Respond, client
<1>2. /\ SessionType /\ InOrder /\ OneAnswer /\ ByPhase /\ OnItsWay /\ KnowsEnd
      /\ Shown /\ EndInv /\ channel \in Seq(Message) /\ ring.next \in Nat
      /\ RingInv /\ target \in Nat
  BY RingFacts DEF SessionInv, SessionType
<1>3. request # None /\ request' = None /\ phase # "away"
  BY AnswerFits
<1>4. PICK m : channel' = Append(channel, m) /\ Fits(m, request)
  BY AnswerFits
<1>5. m \in Message /\ Answer(m) /\ (m \in Slices => m.slice.next = ring.next)
      /\ Tells(m, ring, cursor, terminal, FALSE)
  BY <1>4 DEF Fits
<1>6. Answers(channel) = {}
  BY <1>2, <1>3 DEF OneAnswer
<1>7. /\ channel' \in Seq(Message) /\ Answers(channel') = {Len(channel) + 1}
      /\ channel'[Len(channel) + 1] = m
  BY <1>2, <1>4, <1>5, <1>6, Sent, SentAnswers
<1>8. ASSUME NEW low \in Nat, Ordered(channel, low, ring.next), low <= ring.next
      PROVE  Ordered(channel', low, ring.next)
  <2>1. Counted(m) => Total(m) = ring.next
    BY <1>5, MessageKinds
  <2> QED BY <1>2, <1>4, <1>5, <1>8, <2>1, SentOrdered
<1>9. SessionType'
  BY <1>1, <1>2, <1>3, <1>7 DEF SessionType
<1>10. phase \in {"control", "resize"} =>
         replay.slice.next \in Nat /\ replay.slice.next <= ring.next
  <2>1. phase \in {"control", "resize"} =>
          replay \in Slices /\ Continues(replay.slice, ring, cursor)
    BY <1>2 DEF ByPhase
  <2>2. replay \in Slices => replay.slice \in Slice /\ replay.slice.next \in Nat
    BY DEF Slices, Slice
  <2> QED BY <2>1, <2>2 DEF Continues
<1>11. InOrder'
  BY <1>1, <1>2, <1>8, <1>10 DEF InOrder
<1>12. OneAnswer'
  BY <1>3, <1>7 DEF OneAnswer
<1>13. ByPhase'
  <2>1. phase' # "away" /\ request' = None
    BY <1>1, <1>3
  <2>2. phase' # "ready" => ~pumping' /\ cursor' = 0 /\ shown' = <<>>
    BY <1>1, <1>2 DEF ByPhase
  <2>3. ~(phase' = "ready" /\ ~pumping' /\ ~Ended')
    BY <1>1, <1>2, <1>3 DEF ByPhase, Ended
  <2>4. phase' \in {"replay", "ready"} => Only(channel', Slices)
    <3>1. phase \in {"replay", "ready"} => m \in Slices
      BY <1>2, <1>3, <1>4 DEF ByPhase, Fits
    <3> QED BY <1>1, <1>7, <3>1 DEF Only
  <2>5. phase' \in {"control", "resize"} => Only(channel', Verdicts)
    <3>1. phase \in {"control", "resize"} => m \in Verdicts
      BY <1>2, <1>3, <1>4 DEF ByPhase, Fits
    <3> QED BY <1>1, <1>7, <3>1 DEF Only
  <2>6. phase' \in {"control", "resize"} =>
          /\ replay' \in Slices /\ Continues(replay'.slice, ring', cursor')
          /\ Whole(replay', ring', terminal')
    BY <1>1, <1>2 DEF ByPhase
  <2> QED BY <2>1, <2>2, <2>3, <2>4, <2>5, <2>6 DEF ByPhase
<1>14. OnItsWay'
  <2>1. Tells(m, ring, cursor, terminal, Ended)
    BY <1>5 DEF Tells
  <2>2. AllTell(channel', ring, cursor, terminal, Ended)
    BY <1>2, <1>4, <1>5, <2>1, SentTells DEF OnItsWay
  <2> QED BY <1>1, <2>2 DEF OnItsWay, Ended
<1>15. KnowsEnd'
  <2>1. phase = "ready" => m.slice.next = ring.next
    <3>1. phase = "ready" => m \in Slices
      BY <1>2, <1>3, <1>4 DEF ByPhase, Fits
    <3> QED BY <1>5, <3>1
  <2>2. phase = "ready" => \E i \in Answers(channel') : channel'[i].slice.next = ring.next
    BY <1>7, <2>1
  <2> QED BY <1>1, <1>2, <1>6, <2>2 DEF KnowsEnd, Ended
<1>16. Shown' /\ RingInv'
  BY <1>1, <1>2 DEF Shown, RingInv
<1>17. EndInv'
  BY <1>1, <1>2 DEF EndInv, EndsWithLastByte
<1> QED BY <1>9, <1>11, <1>12, <1>13, <1>14, <1>15, <1>16, <1>17 DEF SessionInv


-----------------------------------------------------------------------------
(* Every step keeps the invariant: the client's.                           *)

\* What is known of a message that is handled, and of those after it.
LEMMA HeardFacts ==
  ASSUME RingInv, SessionInv, NEW op, Hear(op), Heard
  PROVE  /\ ~Ended /\ phase # "away"
         /\ Head(channel) \in Message /\ Head(channel).op = op
         /\ Tells(Head(channel), ring, cursor, terminal, FALSE)
         /\ channel' \in Seq(Message) /\ Ordered(channel', target, ring.next)
         /\ Counted(Head(channel)) =>
              /\ target <= Total(Head(channel)) /\ Total(Head(channel)) <= ring.next
              /\ Ordered(channel', Total(Head(channel)), ring.next)
         /\ phase \in {"control", "resize"} =>
              Ordered(channel', replay.slice.next, ring.next)
         /\ \A i, j \in Answers(channel') : i = j
         /\ Answers(channel') # {} => request = None
         /\ Answers(channel) = {} => Answers(channel') = {}
         /\ Answer(Head(channel)) => Answers(channel') = {} /\ request = None
         /\ ~Answer(Head(channel)) =>
              \A i \in Answers(channel) : i - 1 \in Answers(channel')
                                          /\ channel'[i - 1] = channel[i]
         /\ \A kind : Only(channel, kind) =>
              Only(channel', kind) /\ (Answer(Head(channel)) => Head(channel) \in kind)
         /\ AllTell(channel', ring, cursor, terminal, FALSE)
<1>1. ~Ended /\ channel # <<>> /\ Head(channel).op = op /\ channel' = Tail(channel)
  BY DEF Hear, Heard
<1>2. /\ channel \in Seq(Message) /\ InOrder /\ OneAnswer /\ ByPhase /\ OnItsWay
  BY DEF SessionInv, SessionType
<1>3. phase # "away"
  BY <1>1, <1>2 DEF ByPhase
<1>4. Head(channel) \in Message /\ channel' \in Seq(Message)
  BY <1>1, <1>2, Delivered
<1>5. /\ Ordered(channel', target, ring.next)
      /\ Counted(Head(channel)) =>
           /\ target <= Total(Head(channel)) /\ Total(Head(channel)) <= ring.next
           /\ Ordered(channel', Total(Head(channel)), ring.next)
  BY <1>1, <1>2, DeliveredOrdered DEF InOrder
<1>6. phase \in {"control", "resize"} => Ordered(channel', replay.slice.next, ring.next)
  BY <1>1, <1>2, DeliveredOrdered DEF InOrder
<1>7. /\ \A i \in Answers(channel') : i + 1 \in Answers(channel)
      /\ \A i, j \in Answers(channel') : i = j
      /\ Answer(Head(channel)) => 1 \in Answers(channel) /\ Answers(channel') = {}
      /\ ~Answer(Head(channel)) =>
           \A i \in Answers(channel) : i - 1 \in Answers(channel')
                                       /\ channel'[i - 1] = channel[i]
  BY <1>1, <1>2, DeliveredAnswers DEF OneAnswer
<1>8. /\ Answers(channel') # {} => request = None
      /\ Answers(channel) = {} => Answers(channel') = {}
      /\ Answer(Head(channel)) => request = None
  BY <1>2, <1>7 DEF OneAnswer
<1>9. ASSUME NEW kind, Only(channel, kind)
      PROVE  Only(channel', kind) /\ (Answer(Head(channel)) => Head(channel) \in kind)
  BY <1>1, <1>2, <1>9, DeliveredOnly
<1>10. /\ AllTell(channel', ring, cursor, terminal, FALSE)
       /\ Tells(Head(channel), ring, cursor, terminal, FALSE)
  <2>1. AllTell(channel, ring, cursor, terminal, FALSE)
    BY <1>1, <1>2 DEF OnItsWay, AllTell, Tells
  <2> QED BY <1>1, <1>2, <2>1, DeliveredTells
<1> QED BY <1>1, <1>3, <1>4, <1>5, <1>6, <1>7, <1>8, <1>9, <1>10

\* Where there is no slice, the client's cursor does not matter.
LEMMA NoSlice ==
  ASSUME NEW ch \in Seq(Message), Answers(ch) = {}, NEW r, NEW c, NEW t, NEW over,
         AllTell(ch, r, c, t, over), NEW d, NEW more
  PROVE  AllTell(ch, r, d, t, more)
<1>1. ASSUME NEW i \in 1..Len(ch) PROVE ch[i] \notin Slices
  BY DEF Answers, Answer
<1> QED BY <1>1 DEF AllTell, Tells

LEMMA TellsMore ==
  ASSUME NEW ch, NEW r, NEW c, NEW t, AllTell(ch, r, c, t, FALSE), NEW more
  PROVE  AllTell(ch, r, c, t, more)
BY DEF AllTell, Tells

LEMMA OrderedBoth ==
  ASSUME NEW ch, NEW a, NEW b, NEW high, Ordered(ch, a, high), Ordered(ch, b, high)
  PROVE  Ordered(ch, Larger(a, b), high)
BY DEF Ordered, Larger

\* What was shown goes up to the last byte.
LEMMA LastByte ==
  ASSUME RingInv, NEW bytes \in Seq(Int), UpTo(bytes, ring.next, ring)
  PROVE  ring.next > 0 => bytes # <<>> /\ Last(bytes) = ring.next - 1
<1>1. /\ ring.next \in Nat /\ ring.oldest \in Nat
      /\ ring.next > 0 => ring.oldest < ring.next
  BY RingFacts
<1>2. LastOf(bytes) # ring.next - 1 => ring.oldest >= ring.next
  BY DEF UpTo
<1> SUFFICES ASSUME ring.next > 0 PROVE bytes # <<>> /\ Last(bytes) = ring.next - 1
  OBVIOUS
<1>3. LastOf(bytes) = ring.next - 1 /\ LastOf(bytes) # -1
  BY <1>1, <1>2
<1> QED BY <1>3 DEF LastOf, Last

LEMMA OutputAvailableKeeps ==
  ASSUME RingInv, SessionInv, OnOutputAvailable
  PROVE  RingInv' /\ SessionInv'
<1> DEFINE m == Head(channel)
<1>1. /\ Hear("output") /\ Heard /\ target' = Larger(target, m.next)
      /\ ring' = ring /\ terminal' = terminal /\ phase' = phase /\ readOnly' = readOnly
      /\ replay' = replay /\ cursor' = cursor /\ exitPending' = exitPending
      /\ end' = end /\ shown' = shown
  BY DEF OnOutputAvailable
<1>2. \/ /\ phase = "ready" /\ ~pumping /\ queued' = FALSE /\ pumping' = TRUE
         /\ request' = [op |-> "attach", cursor |-> cursor]
      \/ /\ ~(phase = "ready" /\ ~pumping) /\ queued' = TRUE
         /\ pumping' = pumping /\ request' = request
  BY DEF OnOutputAvailable, Pump
<1>3. /\ SessionType /\ InOrder /\ OneAnswer /\ ByPhase /\ OnItsWay /\ KnowsEnd
      /\ Shown /\ EndInv /\ channel \in Seq(Message) /\ ring.next \in Nat
      /\ RingInv /\ target \in Nat /\ cursor \in Nat
  BY RingFacts DEF SessionInv, SessionType
<1>4. /\ ~Ended /\ phase # "away" /\ m \in Message /\ m.op = "output"
      /\ channel' \in Seq(Message) /\ Ordered(channel', target, ring.next)
      /\ Counted(m) => /\ target <= Total(m) /\ Total(m) <= ring.next
                       /\ Ordered(channel', Total(m), ring.next)
      /\ phase \in {"control", "resize"} => Ordered(channel', replay.slice.next, ring.next)
      /\ \A i, j \in Answers(channel') : i = j
      /\ Answers(channel') # {} => request = None
      /\ Answers(channel) = {} => Answers(channel') = {}
      /\ ~Answer(m) => \A i \in Answers(channel) : i - 1 \in Answers(channel')
                                                   /\ channel'[i - 1] = channel[i]
      /\ \A kind : Only(channel, kind) => Only(channel', kind)
      /\ AllTell(channel', ring, cursor, terminal, FALSE)
  BY <1>1, HeardFacts
<1>5. m \in Counts /\ ~Answer(m) /\ Counted(m) /\ Total(m) = m.next /\ m.next \in Nat
  BY <1>4, MessageKinds
<1> HIDE DEF m
<1>6. /\ target' = m.next /\ target <= target' /\ target' \in Nat /\ target' <= ring.next
      /\ (target = ring.next => target' = ring.next)
  BY <1>1, <1>3, <1>4, <1>5 DEF Larger
<1>7. /\ request' \in Request \cup {None} /\ queued' \in BOOLEAN /\ pumping' \in BOOLEAN
      /\ request # None => request' = request \/ request'.op = "attach"
      /\ request' # None => request' = request \/ (/\ phase = "ready" /\ request'.op = "attach"
                                                   /\ request'.cursor = cursor)
  <2>1. [op |-> "attach", cursor |-> cursor] \in Request
    BY <1>3 DEF Request
  <2>2. request \in Request \cup {None} /\ queued \in BOOLEAN /\ pumping \in BOOLEAN
    BY <1>3 DEF SessionType
  <2>3. CASE phase = "ready" /\ ~pumping
    <3>1. queued' = FALSE /\ pumping' = TRUE /\ request' = [op |-> "attach", cursor |-> cursor]
      BY <1>2, <2>3
    <3>2. request'.op = "attach" /\ request'.cursor = cursor
      BY <3>1
    <3> QED BY <2>1, <2>3, <3>1, <3>2
  <2>4. CASE ~(phase = "ready" /\ ~pumping)
    BY <1>2, <2>2, <2>4
  <2> QED BY <2>3, <2>4
<1>8. SessionType'
  BY <1>1, <1>3, <1>4, <1>6, <1>7 DEF SessionType
<1>9. InOrder'
  BY <1>1, <1>4, <1>5, <1>6 DEF InOrder
<1>10. phase = "ready" /\ ~pumping => request = None /\ Answers(channel) = {}
  BY <1>3, <1>4 DEF ByPhase
<1>11. OneAnswer'
  BY <1>2, <1>4, <1>10 DEF OneAnswer
<1>12. ByPhase'
  <2>1. phase' # "away"
    BY <1>1, <1>4
  <2>2. phase' # "ready" => ~pumping' /\ cursor' = 0 /\ shown' = <<>>
    BY <1>1, <1>2, <1>3 DEF ByPhase
  <2>3. ~(phase' = "ready" /\ ~pumping')
    BY <1>1, <1>2
  <2>4. phase' \in {"replay", "ready"} =>
          /\ request' # None => request'.op = "attach" /\ request'.cursor = cursor'
          /\ Only(channel', Slices)
    BY <1>1, <1>3, <1>4, <1>7 DEF ByPhase
  <2>5. phase' \in {"control", "resize"} =>
          /\ request' # None => request'.op = phase'
          /\ Only(channel', Verdicts)
    BY <1>1, <1>2, <1>3, <1>4 DEF ByPhase
  <2>6. phase' \in {"control", "resize"} =>
          /\ replay' \in Slices /\ Continues(replay'.slice, ring', cursor')
          /\ Whole(replay', ring', terminal')
    BY <1>1, <1>3 DEF ByPhase
  <2> QED BY <2>1, <2>2, <2>3, <2>4, <2>5, <2>6 DEF ByPhase
<1>13. OnItsWay'
  <2>1. Ended' = FALSE
    BY <1>1, <1>4 DEF Ended
  <2> QED BY <1>1, <1>4, <2>1 DEF OnItsWay
<1>14. KnowsEnd'
  <2>1. request # None => request' # None
    BY <1>2, <1>10
  <2>2. (\E i \in Answers(channel) : channel[i].slice.next = ring.next) =>
          \E i \in Answers(channel') : channel'[i].slice.next = ring.next
    BY <1>4, <1>5
  <2> QED BY <1>1, <1>3, <1>6, <2>1, <2>2 DEF KnowsEnd, Ended
<1>15. Shown' /\ RingInv'
  BY <1>1, <1>3, <1>6 DEF Shown, RingInv
<1>16. EndInv'
  BY <1>1, <1>3 DEF EndInv, EndsWithLastByte
<1> QED BY <1>8, <1>9, <1>11, <1>12, <1>13, <1>14, <1>15, <1>16 DEF SessionInv


LEMMA ExitHeardKeeps ==
  ASSUME RingInv, SessionInv, OnExit
  PROVE  RingInv' /\ SessionInv'
<1> DEFINE m == Head(channel)
<1>1. /\ Hear("exit") /\ Heard /\ exitPending' = TRUE /\ target' = Larger(target, m.next)
      /\ ring' = ring /\ terminal' = terminal /\ phase' = phase /\ readOnly' = readOnly
      /\ replay' = replay /\ cursor' = cursor /\ shown' = shown
  BY DEF OnExit
<1>2. \/ /\ phase # "ready" /\ queued' = queued /\ pumping' = pumping
         /\ request' = request /\ end' = end
      \/ /\ phase = "ready" /\ cursor >= target' /\ end' = "exit" /\ queued' = queued
         /\ pumping' = pumping /\ request' = request
      \/ /\ phase = "ready" /\ pumping /\ queued' = TRUE /\ pumping' = pumping
         /\ request' = request /\ end' = end
      \/ /\ phase = "ready" /\ ~pumping /\ queued' = FALSE /\ pumping' = TRUE
         /\ request' = [op |-> "attach", cursor |-> cursor] /\ end' = end
  BY DEF OnExit, Pump, Finish
<1>3. /\ SessionType /\ InOrder /\ OneAnswer /\ ByPhase /\ OnItsWay /\ KnowsEnd
      /\ Shown /\ EndInv /\ channel \in Seq(Message) /\ ring.next \in Nat
      /\ RingInv /\ target \in Nat /\ cursor \in Nat /\ cursor <= target
      /\ target <= ring.next
  BY RingFacts DEF SessionInv, SessionType, Shown, InOrder
<1>4. /\ ~Ended /\ phase # "away" /\ m \in Message /\ m.op = "exit"
      /\ Tells(m, ring, cursor, terminal, FALSE)
      /\ channel' \in Seq(Message) /\ Ordered(channel', target, ring.next)
      /\ Counted(m) => /\ target <= Total(m) /\ Total(m) <= ring.next
                       /\ Ordered(channel', Total(m), ring.next)
      /\ phase \in {"control", "resize"} => Ordered(channel', replay.slice.next, ring.next)
      /\ \A i, j \in Answers(channel') : i = j
      /\ Answers(channel') # {} => request = None
      /\ Answers(channel) = {} => Answers(channel') = {}
      /\ \A kind : Only(channel, kind) => Only(channel', kind)
      /\ AllTell(channel', ring, cursor, terminal, FALSE)
  BY <1>1, HeardFacts
<1>5. m \in Counts /\ Counted(m) /\ Total(m) = m.next /\ m.next \in Nat
  BY <1>4, MessageKinds
<1>6. terminal # "running" /\ m.next = ring.next
  BY <1>4, <1>5 DEF Tells
<1> HIDE DEF m
<1>7. target' = ring.next
  BY <1>1, <1>3, <1>6 DEF Larger
<1>8. phase = "ready" /\ ~pumping => request = None /\ Answers(channel) = {}
  BY <1>3, <1>4 DEF ByPhase
<1>9. /\ request' \in Request \cup {None} /\ queued' \in BOOLEAN /\ pumping' \in BOOLEAN
      /\ request' # None => request' = request \/ (/\ phase = "ready" /\ request'.op = "attach"
                                                   /\ request'.cursor = cursor)
      /\ phase = "ready" /\ ~pumping' /\ end' = "no" => FALSE
      /\ Answers(channel') # {} => request' = None
      /\ end' = "exit" \/ end' = end
      /\ end' = "exit" => phase = "ready" /\ cursor = ring.next
      /\ pumping' # pumping => phase = "ready"
      /\ phase # "ready" => request' = request
  <2>1. [op |-> "attach", cursor |-> cursor] \in Request
    BY <1>3 DEF Request
  <2>2. request \in Request \cup {None} /\ queued \in BOOLEAN /\ pumping \in BOOLEAN
    BY <1>3 DEF SessionType
  <2>3. end = "no"
    BY <1>4 DEF Ended
  <2>4. cursor >= target' => cursor = ring.next
    BY <1>3, <1>7
  <2>5. CASE phase # "ready"
    BY <1>2, <1>4, <2>2, <2>3, <2>5
  <2>6. CASE /\ phase = "ready" /\ cursor >= target' /\ end' = "exit" /\ queued' = queued
             /\ pumping' = pumping /\ request' = request
    BY <1>4, <2>2, <2>4, <2>6
  <2>7. CASE /\ phase = "ready" /\ pumping /\ queued' = TRUE /\ pumping' = pumping
             /\ request' = request /\ end' = end
    BY <1>4, <2>2, <2>3, <2>7
  <2>8. CASE /\ phase = "ready" /\ ~pumping /\ queued' = FALSE /\ pumping' = TRUE
             /\ request' = [op |-> "attach", cursor |-> cursor] /\ end' = end
    <3>1. request'.op = "attach" /\ request'.cursor = cursor
      BY <2>8
    <3>2. request' \in Request
      BY <2>1, <2>8
    <3>3. Answers(channel') = {}
      BY <1>4, <1>8, <2>8
    <3> QED BY <2>2, <2>3, <2>8, <3>1, <3>2, <3>3
  <2> QED BY <1>2, <2>5, <2>6, <2>7, <2>8
<1>10. SessionType'
  BY <1>1, <1>3, <1>4, <1>7, <1>9 DEF SessionType
<1>11. InOrder'
  BY <1>1, <1>3, <1>4, <1>5, <1>6, <1>7 DEF InOrder
<1>12. OneAnswer'
  BY <1>4, <1>9 DEF OneAnswer
<1>13. ByPhase'
  <2>1. phase' # "away"
    BY <1>1, <1>4
  <2>2. phase' # "ready" => ~pumping' /\ cursor' = 0 /\ shown' = <<>>
    BY <1>1, <1>3, <1>9 DEF ByPhase
  <2>3. ~(phase' = "ready" /\ ~pumping' /\ ~Ended')
    BY <1>1, <1>9 DEF Ended
  <2>4. phase' \in {"replay", "ready"} =>
          /\ request' # None => request'.op = "attach" /\ request'.cursor = cursor'
          /\ Only(channel', Slices)
    BY <1>1, <1>3, <1>4, <1>9 DEF ByPhase
  <2>5. phase' \in {"control", "resize"} =>
          /\ request' # None => request'.op = phase'
          /\ Only(channel', Verdicts)
    BY <1>1, <1>3, <1>4, <1>9 DEF ByPhase
  <2>6. phase' \in {"control", "resize"} =>
          /\ replay' \in Slices /\ Continues(replay'.slice, ring', cursor')
          /\ Whole(replay', ring', terminal')
    BY <1>1, <1>3 DEF ByPhase
  <2> QED BY <2>1, <2>2, <2>3, <2>4, <2>5, <2>6 DEF ByPhase
<1>14. OnItsWay'
  <2>1. AllTell(channel', ring, cursor, terminal, Ended')
    BY <1>4, TellsMore
  <2> QED BY <1>1, <2>1 DEF OnItsWay
<1>15. KnowsEnd'
  BY <1>1, <1>6, <1>7 DEF KnowsEnd
<1>16. Shown' /\ RingInv'
  BY <1>1, <1>3, <1>7 DEF Shown, RingInv
<1>17. EndInv'
  <2>1. end' = "exit" /\ ring.next > 0 => shown # <<>> /\ Last(shown) = ring.next - 1
    <3>1. end' = "exit" => UpTo(shown, ring.next, ring)
      BY <1>3, <1>9 DEF Shown
    <3>2. shown \in Seq(Int)
      BY <1>3 DEF SessionType
    <3> QED BY <1>3, <3>1, <3>2, LastByte
  <2>2. end' # "stuck"
    BY <1>3, <1>9 DEF EndInv, EndsWithLastByte
  <2> QED BY <1>1, <1>6, <2>1, <2>2 DEF EndInv, EndsWithLastByte
<1> QED BY <1>10, <1>11, <1>12, <1>13, <1>14, <1>15, <1>16, <1>17 DEF SessionInv



\* The replay is shown: it is the answer, so no other is on its way.
LEMMA ShowReplayKeeps ==
  ASSUME RingInv, SessionInv,
         NEW r \in Slices, NEW exiting \in BOOLEAN, NEW q \in BOOLEAN,
         ShowReplay(r, exiting, q), ring' = ring, terminal' = terminal,
         readOnly' = readOnly, ~Ended, phase # "ready", phase # "away",
         Continues(r.slice, ring, cursor), Whole(r, ring, terminal),
         channel' \in Seq(Message), Answers(channel') = {},
         Ordered(channel', target, ring.next), Ordered(channel', r.slice.next, ring.next),
         AllTell(channel', ring, cursor, terminal, FALSE),
         exiting => terminal # "running", exiting /\ ~q => target = ring.next
  PROVE  RingInv' /\ SessionInv'
<1>1. /\ phase' = "ready" /\ replay' = None /\ shown' = shown \o r.slice.data
      /\ cursor' = r.slice.end /\ target' = Larger(target, r.slice.next)
      /\ exitPending' = (exiting \/ r.final)
  BY DEF ShowReplay, AlreadyFinal
<1>2. \/ /\ cursor' < target' \/ q
         /\ queued' = FALSE /\ pumping' = TRUE /\ end' = end
         /\ request' = [op |-> "attach", cursor |-> cursor']
      \/ /\ ~(cursor' < target') /\ ~q
         /\ queued' = queued /\ pumping' = pumping /\ request' = None
         /\ exitPending' => end' = "exit"
         /\ ~exitPending' => end' = end
  BY DEF ShowReplay, Pump, Finish
<1>3. /\ SessionType /\ InOrder /\ ByPhase /\ Shown /\ EndInv /\ ring.next \in Nat
      /\ ring.oldest \in Nat /\ target \in Nat /\ cursor \in Nat /\ cursor <= target
      /\ target <= ring.next /\ shown \in Seq(Int) /\ UpTo(shown, cursor, ring)
      /\ ~pumping /\ end = "no"
  BY RingFacts DEF SessionInv, SessionType, Shown, InOrder, ByPhase, Ended
<1>4. /\ r.slice \in Slice /\ r.final \in BOOLEAN /\ r.slice.end \in Nat
      /\ r.slice.next \in Nat /\ r.slice.end <= r.slice.next /\ r.slice.next <= ring.next
      /\ r.final => terminal # "running" /\ r.slice.next = ring.next
  BY DEF Slices, Slice, Continues, Whole
<1>5. /\ cursor' \in Nat /\ target' \in Nat /\ cursor' <= target' /\ target' <= ring.next
      /\ target = ring.next \/ r.final => target' = ring.next
  BY SMTT(60), <1>1, <1>3, <1>4 DEF Larger
<1>6. /\ shown' \in Seq(Int) /\ UpTo(shown', cursor', ring)
  <2>1. shown \o r.slice.data \in Seq(Int) /\ UpTo(shown \o r.slice.data, r.slice.end, ring)
    BY <1>3, <1>4, ShowMore
  <2> QED BY <1>1, <2>1
<1>7. /\ request' \in Request \cup {None} /\ queued' \in BOOLEAN /\ pumping' \in BOOLEAN
      /\ request' # None => request'.op = "attach" /\ request'.cursor = cursor'
      /\ ~pumping' => request' = None
      /\ exitPending' => terminal # "running"
      /\ exitPending' /\ end' = "no" => request' # None
      /\ end' = "no" \/ end' = "exit"
      /\ end' = "exit" => exitPending' /\ cursor' = ring.next
  <2>1. [op |-> "attach", cursor |-> cursor'] \in Request
    BY <1>5 DEF Request
  <2>2. queued \in BOOLEAN /\ None \notin Request
    BY <1>3, SessionAssumption DEF SessionType
  <2>3. exitPending' => terminal # "running"
    BY <1>1, <1>4
  <2>4. CASE /\ cursor' < target' \/ q
             /\ queued' = FALSE /\ pumping' = TRUE /\ end' = end
             /\ request' = [op |-> "attach", cursor |-> cursor']
    <3>1. request'.op = "attach" /\ request'.cursor = cursor'
      BY <2>4
    <3>2. request' \in Request
      BY <2>1, <2>4
    <3> QED BY <1>3, <2>2, <2>3, <2>4, <3>1, <3>2
  <2>5. CASE /\ ~(cursor' < target') /\ ~q
             /\ queued' = queued /\ pumping' = pumping /\ request' = None
             /\ exitPending' => end' = "exit"
             /\ ~exitPending' => end' = end
    <3>1. exitPending' => cursor' = ring.next
      BY <1>1, <1>5, <2>5
    <3>2. (end' = "exit" /\ exitPending') \/ (end' = "no" /\ ~exitPending')
      BY <1>3, <2>5
    <3>3. request' \in Request \cup {None} /\ queued' \in BOOLEAN /\ pumping' = FALSE
      BY <1>3, <2>2, <2>5
    <3>4. pumping' \in BOOLEAN /\ request' = None
      BY <2>5, <3>3
    <3> QED BY <2>3, <3>1, <3>2, <3>3, <3>4
  <2> QED BY <1>2, <2>4, <2>5
<1>8. SessionType'
  BY <1>1, <1>3, <1>4, <1>5, <1>6, <1>7 DEF SessionType
<1>9. InOrder'
  <2>1. Ordered(channel', target', ring.next)
    BY <1>1, OrderedBoth
  <2> QED BY <1>1, <1>5, <2>1 DEF InOrder
<1>10. OneAnswer'
  BY DEF OneAnswer
<1>11. ByPhase'
  <2>1. Only(channel', Slices)
    BY DEF Only
  <2> QED BY <1>1, <1>7, <2>1 DEF ByPhase
<1>12. OnItsWay'
  <2>1. AllTell(channel', ring, cursor', terminal, Ended')
    BY NoSlice
  <2> QED BY <2>1 DEF OnItsWay
<1>13. KnowsEnd'
  BY <1>1, <1>7 DEF KnowsEnd, Ended
<1>14. Shown' /\ RingInv'
  BY <1>3, <1>5, <1>6 DEF Shown, RingInv, SessionInv
<1>15. EndInv'
  <2>1. end' = "exit" /\ ring.next > 0 => shown' # <<>> /\ Last(shown') = ring.next - 1
    <3>1. end' = "exit" => UpTo(shown', ring.next, ring)
      BY <1>6, <1>7
    <3> QED BY <1>6, <3>1, LastByte
  <2> QED BY <1>7, <2>1 DEF EndInv, EndsWithLastByte
<1> QED BY <1>8, <1>9, <1>10, <1>11, <1>12, <1>13, <1>14, <1>15 DEF SessionInv

\* The session goes on to ask for control, or for the size: a step that takes an
\* answer and makes a request.
LEMMA AskKeeps ==
  ASSUME RingInv, SessionInv, NEW what \in {"control", "resize"},
         phase' = what, request' = [op |-> what],
         ring' = ring, terminal' = terminal, readOnly' = readOnly,
         cursor' = cursor, target' = target, queued' = queued,
         exitPending' = exitPending, pumping' = pumping, end' = end, shown' = shown,
         ~Ended, phase # "ready", replay' \in Slices,
         Continues(replay'.slice, ring, cursor), Whole(replay', ring, terminal),
         channel' \in Seq(Message), Answers(channel') = {},
         Ordered(channel', target, ring.next),
         Ordered(channel', replay'.slice.next, ring.next),
         AllTell(channel', ring, cursor, terminal, FALSE)
  PROVE  RingInv' /\ SessionInv'
<1>1. /\ SessionType /\ InOrder /\ ByPhase /\ KnowsEnd /\ Shown /\ EndInv
  BY DEF SessionInv
<1>2. /\ [op |-> what] \in Request /\ request'.op = what
  BY DEF Request
<1>3. SessionType'
  BY <1>1, <1>2 DEF SessionType
<1>4. InOrder'
  BY <1>1 DEF InOrder
<1>5. OneAnswer'
  BY DEF OneAnswer
<1>6. ByPhase'
  <2>1. Only(channel', Verdicts)
    BY DEF Only
  <2>2. ~pumping' /\ cursor' = 0 /\ shown' = <<>>
    BY <1>1 DEF ByPhase
  <2> QED BY <1>2, <2>1, <2>2 DEF ByPhase
<1>7. OnItsWay'
  <2>1. Ended' = FALSE
    BY DEF Ended
  <2> QED BY <2>1 DEF OnItsWay
<1>8. KnowsEnd'
  BY <1>1 DEF KnowsEnd, Ended
<1>9. Shown' /\ RingInv' /\ EndInv'
  BY <1>1 DEF Shown, RingInv, EndInv, EndsWithLastByte
<1> QED BY <1>3, <1>4, <1>5, <1>6, <1>7, <1>8, <1>9 DEF SessionInv

LEMMA ReplayKeeps ==
  ASSUME RingInv, SessionInv, OnReplay
  PROVE  RingInv' /\ SessionInv'
<1> DEFINE m == Head(channel)
<1>1. /\ Hear("slice") /\ phase = "replay" /\ Heard
      /\ ring' = ring /\ terminal' = terminal /\ readOnly' = readOnly
  BY DEF OnReplay
<1>2. /\ ~Ended /\ m \in Message /\ m.op = "slice"
      /\ Tells(m, ring, cursor, terminal, FALSE)
      /\ channel' \in Seq(Message) /\ Ordered(channel', target, ring.next)
      /\ Counted(m) => Ordered(channel', Total(m), ring.next)
      /\ Answer(m) => Answers(channel') = {}
      /\ AllTell(channel', ring, cursor, terminal, FALSE)
  BY <1>1, HeardFacts
<1>3. m \in Slices /\ Counted(m) /\ Total(m) = m.slice.next /\ Answer(m)
  BY <1>2, MessageKinds
<1>4. Continues(m.slice, ring, cursor) /\ Whole(m, ring, terminal)
  BY <1>2, <1>3 DEF Tells
<1>5. /\ exitPending \in BOOLEAN /\ queued \in BOOLEAN
      /\ exitPending => terminal # "running" /\ target = ring.next
  BY <1>1, <1>2 DEF SessionInv, SessionType, KnowsEnd
<1>6. \/ ShowReplay(m, exitPending, queued)
      \/ /\ replay' = m /\ phase' = "control" /\ request' = [op |-> "control"]
         /\ cursor' = cursor /\ target' = target /\ queued' = queued
         /\ exitPending' = exitPending /\ pumping' = pumping /\ end' = end
         /\ shown' = shown
  BY DEF OnReplay
<1> HIDE DEF m
<1>7. CASE ShowReplay(m, exitPending, queued)
  BY <1>1, <1>2, <1>3, <1>4, <1>5, <1>7, ShowReplayKeeps
<1>8. CASE /\ replay' = m /\ phase' = "control" /\ request' = [op |-> "control"]
           /\ cursor' = cursor /\ target' = target /\ queued' = queued
           /\ exitPending' = exitPending /\ pumping' = pumping /\ end' = end
           /\ shown' = shown
  BY <1>1, <1>2, <1>3, <1>4, <1>8, AskKeeps
<1> QED BY <1>6, <1>7, <1>8

LEMMA ControlKeeps ==
  ASSUME RingInv, SessionInv, OnControl
  PROVE  RingInv' /\ SessionInv'
<1> DEFINE m == Head(channel)
<1>1. /\ phase \in {"control", "resize"} /\ Heard
      /\ ring' = ring /\ terminal' = terminal /\ readOnly' = readOnly
  BY DEF OnControl
<1>2. PICK op \in {"ok", "not_running", "refused"} :
        /\ Hear(op)
        /\ \/ /\ op = "ok" /\ phase' = "resize" /\ request' = [op |-> "resize"]
              /\ replay' = replay /\ cursor' = cursor /\ target' = target
              /\ queued' = queued /\ exitPending' = exitPending
              /\ pumping' = pumping /\ end' = end /\ shown' = shown
           \/ op = "ok" /\ ShowReplay(replay, exitPending, queued)
           \/ op = "not_running" /\ ShowReplay(replay, TRUE, TRUE)
           \/ /\ op = "refused" /\ end' = "error" /\ phase' = phase
              /\ request' = request /\ replay' = replay /\ cursor' = cursor
              /\ target' = target /\ queued' = queued /\ exitPending' = exitPending
              /\ pumping' = pumping /\ shown' = shown
  BY DEF OnControl, Finish
<1>3. /\ ~Ended /\ m \in Message /\ m.op = op
      /\ Tells(m, ring, cursor, terminal, FALSE)
      /\ channel' \in Seq(Message) /\ Ordered(channel', target, ring.next)
      /\ Ordered(channel', replay.slice.next, ring.next)
      /\ Answer(m) => Answers(channel') = {}
      /\ AllTell(channel', ring, cursor, terminal, FALSE)
  BY <1>1, <1>2, HeardFacts
<1>4. m \in Verdicts /\ Answer(m)
  BY <1>3, MessageKinds
<1>5. op = "not_running" => terminal # "running"
  BY <1>3, <1>4 DEF Tells
<1>6. /\ replay \in Slices /\ Continues(replay.slice, ring, cursor)
      /\ Whole(replay, ring, terminal) /\ cursor = 0 /\ ~pumping /\ shown = <<>>
  BY <1>1 DEF SessionInv, ByPhase
<1>7. /\ exitPending \in BOOLEAN /\ queued \in BOOLEAN
      /\ exitPending => terminal # "running" /\ target = ring.next
  BY <1>1, <1>3 DEF SessionInv, SessionType, KnowsEnd
<1> HIDE DEF m
<1>8. CASE /\ op = "ok" /\ phase' = "resize" /\ request' = [op |-> "resize"]
           /\ replay' = replay /\ cursor' = cursor /\ target' = target
           /\ queued' = queued /\ exitPending' = exitPending
           /\ pumping' = pumping /\ end' = end /\ shown' = shown
  BY <1>1, <1>3, <1>4, <1>6, <1>8, AskKeeps
<1>9. CASE op = "ok" /\ ShowReplay(replay, exitPending, queued)
  BY <1>1, <1>3, <1>4, <1>6, <1>7, <1>9, ShowReplayKeeps
<1>10. CASE op = "not_running" /\ ShowReplay(replay, TRUE, TRUE)
  BY <1>1, <1>3, <1>4, <1>5, <1>6, <1>10, ShowReplayKeeps
<1>11. CASE /\ op = "refused" /\ end' = "error" /\ phase' = phase
            /\ request' = request /\ replay' = replay /\ cursor' = cursor
            /\ target' = target /\ queued' = queued /\ exitPending' = exitPending
            /\ pumping' = pumping /\ shown' = shown
  <2>1. /\ SessionType /\ InOrder /\ OneAnswer /\ ByPhase /\ Shown /\ EndInv
        /\ Answers(channel') = {}
    BY <1>3, <1>4 DEF SessionInv
  <2>2. SessionType'
    BY <1>1, <1>3, <1>11, <2>1 DEF SessionType
  <2>3. InOrder'
    BY <1>1, <1>3, <1>11, <2>1 DEF InOrder
  <2>4. OneAnswer'
    BY <2>1 DEF OneAnswer
  <2>5. ByPhase'
    <3>1. Only(channel', Verdicts)
      BY <2>1 DEF Only
    <3>2. request' # None => request'.op = phase'
      BY <1>1, <1>11, <2>1 DEF ByPhase
    <3> QED BY <1>1, <1>6, <1>11, <3>1, <3>2 DEF ByPhase
  <2>6. OnItsWay' /\ KnowsEnd'
    <3>1. Ended' = TRUE
      BY <1>11 DEF Ended
    <3>2. AllTell(channel', ring, cursor, terminal, TRUE)
      BY <1>3, TellsMore
    <3> QED BY <1>1, <1>11, <3>1, <3>2 DEF OnItsWay, KnowsEnd
  <2>7. Shown' /\ RingInv' /\ EndInv'
    BY <1>1, <1>11, <2>1 DEF Shown, RingInv, EndInv, EndsWithLastByte
  <2> QED BY <2>2, <2>3, <2>4, <2>5, <2>6, <2>7 DEF SessionInv
<1> QED BY <1>2, <1>8, <1>9, <1>10, <1>11



LEMMA SliceKeeps ==
  ASSUME RingInv, SessionInv, OnSlice
  PROVE  RingInv' /\ SessionInv'
<1> DEFINE m == Head(channel)
           s == m.slice
<1>1. /\ Hear("slice") /\ phase = "ready" /\ Heard
      /\ shown' = shown \o s.data /\ target' = Larger(target, s.next)
      /\ ring' = ring /\ terminal' = terminal /\ phase' = phase /\ readOnly' = readOnly
      /\ replay' = replay /\ exitPending' = exitPending
  BY DEF OnSlice
<1>2. \/ s.end <= cursor /\ cursor < target'
      \/ /\ cursor' = s.end /\ cursor' >= target' /\ exitPending /\ end' = "exit"
         /\ pumping' = FALSE /\ queued' = queued /\ request' = request
      \/ /\ cursor' = s.end /\ end' = end
         /\ queued' = FALSE /\ pumping' = TRUE
         /\ request' = [op |-> "attach", cursor |-> cursor']
      \/ /\ cursor' = s.end /\ end' = end
         /\ pumping' = FALSE /\ queued' = queued /\ request' = request
  BY DEF OnSlice, Pump, Finish
<1>3. /\ SessionType /\ InOrder /\ OneAnswer /\ ByPhase /\ KnowsEnd /\ Shown /\ EndInv
      /\ ring.next \in Nat /\ ring.oldest \in Nat /\ target \in Nat /\ cursor \in Nat
      /\ cursor <= target /\ target <= ring.next
      /\ shown \in Seq(Int) /\ UpTo(shown, cursor, ring)
      /\ channel \in Seq(Message)
  BY RingFacts DEF SessionInv, SessionType, Shown, InOrder
<1>4. /\ ~Ended /\ m \in Message /\ m.op = "slice"
      /\ Tells(m, ring, cursor, terminal, FALSE)
      /\ channel' \in Seq(Message)
      /\ Counted(m) => /\ target <= Total(m) /\ Total(m) <= ring.next
                       /\ Ordered(channel', Total(m), ring.next)
      /\ Answer(m) => Answers(channel') = {} /\ request = None
      /\ AllTell(channel', ring, cursor, terminal, FALSE)
  BY <1>1, HeardFacts
<1>5. /\ m \in Slices /\ Counted(m) /\ Total(m) = s.next /\ Answer(m)
      /\ s \in Slice /\ s.end \in Nat /\ s.next \in Nat
  <2>1. m \in Slices /\ Counted(m) /\ Total(m) = m.slice.next /\ Answer(m) /\ m.slice \in Slice
    BY <1>4, MessageKinds
  <2> QED BY <2>1 DEF Slice
<1>6. /\ Continues(s, ring, cursor) /\ target <= s.next /\ s.next <= ring.next
      /\ Ordered(channel', s.next, ring.next) /\ Answers(channel') = {} /\ request = None
  BY <1>4, <1>5 DEF Tells
<1>7. exitPending => terminal # "running" /\ s.next = ring.next
  <2>1. channel # <<>> /\ \A i, j \in Answers(channel) : i = j
    BY <1>1, <1>3 DEF Hear, OneAnswer
  <2>2. 1 \in Answers(channel) /\ channel[1] = m
    BY <1>3, <1>5, <2>1, Delivered, DeliveredAnswers
  <2>3. \A i \in Answers(channel) : channel[i].slice.next = s.next
    BY <2>1, <2>2
  <2> HIDE DEF s, m
  <2>4. exitPending => terminal # "running" /\ (target = ring.next \/ s.next = ring.next)
    BY <1>3, <1>4, <1>6, <2>3 DEF KnowsEnd
  <2> QED BY <1>3, <1>5, <1>6, <2>4
<1> HIDE DEF m, s
<1>8. target' = s.next
  BY <1>1, <1>3, <1>5, <1>6 DEF Larger
<1>9. cursor <= s.end /\ s.end <= s.next /\ (s.end = cursor => s.next = cursor)
      /\ shown' \in Seq(Int) /\ UpTo(shown', s.end, ring)
  BY <1>1, <1>3, <1>5, <1>6, ShowMore DEF Continues
<1>10. ~(s.end <= cursor /\ cursor < target')
  BY <1>3, <1>5, <1>8, <1>9
<1>11. /\ cursor' = s.end
       /\ request' \in Request \cup {None} /\ queued' \in BOOLEAN /\ pumping' \in BOOLEAN
       /\ request' # None => request'.op = "attach" /\ request'.cursor = cursor'
       /\ ~pumping' => request' = None
       /\ end' = "no" \/ end' = "exit"
       /\ end' = "exit" => exitPending /\ s.end = ring.next
  <2>1. [op |-> "attach", cursor |-> s.end] \in Request
    BY <1>5 DEF Request
  <2>2. queued \in BOOLEAN /\ end = "no"
    BY <1>3, <1>4 DEF SessionType, Ended
  <2>3. CASE /\ cursor' = s.end /\ cursor' >= target' /\ exitPending /\ end' = "exit"
             /\ pumping' = FALSE /\ queued' = queued /\ request' = request
    <3>1. s.end = ring.next
      BY <1>5, <1>7, <1>8, <1>9, <2>3
    <3> QED BY <1>6, <2>2, <2>3, <3>1
  <2>4. CASE /\ cursor' = s.end /\ end' = end
             /\ queued' = FALSE /\ pumping' = TRUE
             /\ request' = [op |-> "attach", cursor |-> cursor']
    <3>1. request'.op = "attach" /\ request'.cursor = cursor'
      BY <2>4
    <3>2. request' \in Request
      BY <2>1, <2>4
    <3> QED BY <2>2, <2>4, <3>1, <3>2
  <2>5. CASE /\ cursor' = s.end /\ end' = end
             /\ pumping' = FALSE /\ queued' = queued /\ request' = request
    BY <1>6, <2>2, <2>5
  <2> QED BY <1>2, <1>10, <2>3, <2>4, <2>5
<1>12. SessionType'
  BY <1>1, <1>3, <1>4, <1>5, <1>8, <1>9, <1>11 DEF SessionType
<1>13. InOrder'
  BY <1>1, <1>6, <1>8 DEF InOrder
<1>14. OneAnswer'
  BY <1>6 DEF OneAnswer
<1>15. ByPhase'
  <2>1. Only(channel', Slices)
    BY <1>6 DEF Only
  <2> QED BY <1>1, <1>6, <1>11, <2>1 DEF ByPhase
<1>16. OnItsWay'
  <2>1. AllTell(channel', ring, cursor', terminal, Ended')
    BY <1>4, <1>6, NoSlice
  <2> QED BY <1>1, <2>1 DEF OnItsWay
<1>17. KnowsEnd'
  BY <1>1, <1>7, <1>8 DEF KnowsEnd
<1>18. Shown' /\ RingInv'
  BY <1>1, <1>8, <1>9, <1>11 DEF Shown, RingInv
<1>19. EndInv'
  <2>1. end' = "exit" /\ ring.next > 0 => shown' # <<>> /\ Last(shown') = ring.next - 1
    <3>1. end' = "exit" => UpTo(shown', ring.next, ring)
      BY <1>9, <1>11
    <3> QED BY <1>9, <3>1, LastByte
  <2> QED BY <1>1, <1>7, <1>11, <2>1 DEF EndInv, EndsWithLastByte
<1> QED BY <1>12, <1>13, <1>14, <1>15, <1>16, <1>17, <1>18, <1>19 DEF SessionInv

LEMMA AttachKeeps ==
  ASSUME RingInv, SessionInv, Attach
  PROVE  RingInv' /\ SessionInv'
<1>1. /\ phase = "away" /\ phase' = "replay" /\ request' = [op |-> "attach", cursor |-> 0]
      /\ ring' = ring /\ terminal' = terminal /\ channel' = channel /\ readOnly' = readOnly
      /\ replay' = replay /\ cursor' = cursor /\ target' = target /\ queued' = queued
      /\ exitPending' = exitPending /\ pumping' = pumping /\ end' = end /\ shown' = shown
  BY DEF Attach
<1>2. /\ SessionType /\ InOrder /\ ByPhase /\ OnItsWay /\ KnowsEnd /\ Shown /\ EndInv
  BY DEF SessionInv
<1>3. /\ request'.op = "attach" /\ request'.cursor = 0
      /\ [op |-> "attach", cursor |-> 0] \in Request
  BY <1>1 DEF Request
<1>4. channel = <<>> /\ ~pumping /\ cursor = 0 /\ shown = <<>>
  BY <1>1, <1>2 DEF ByPhase
<1>5. Answers(channel') = {}
  BY <1>1, <1>4 DEF Answers
<1>6. SessionType'
  BY <1>1, <1>2, <1>3 DEF SessionType
<1>7. InOrder' /\ OneAnswer'
  BY <1>1, <1>2, <1>5 DEF InOrder, OneAnswer
<1>8. ByPhase'
  <2>1. Only(channel', Slices)
    BY <1>5 DEF Only
  <2> QED BY <1>1, <1>3, <1>4, <2>1 DEF ByPhase
<1>9. OnItsWay' /\ KnowsEnd'
  BY <1>1, <1>2 DEF OnItsWay, KnowsEnd, Ended
<1>10. Shown' /\ RingInv' /\ EndInv'
  BY <1>1, <1>2 DEF Shown, RingInv, EndInv, EndsWithLastByte
<1> QED BY <1>6, <1>7, <1>8, <1>9, <1>10 DEF SessionInv

LEMMA UserEndsKeeps ==
  ASSUME RingInv, SessionInv, UserEnds
  PROVE  RingInv' /\ SessionInv'
<1>1. /\ ~Ended /\ phase = "ready" /\ end' = "user" /\ request' = request
      /\ ring' = ring /\ terminal' = terminal /\ channel' = channel
      /\ phase' = phase /\ readOnly' = readOnly
      /\ replay' = replay /\ cursor' = cursor /\ target' = target /\ queued' = queued
      /\ exitPending' = exitPending /\ pumping' = pumping /\ shown' = shown
  BY DEF UserEnds, Finish
<1>2. /\ SessionType /\ InOrder /\ OneAnswer /\ ByPhase /\ OnItsWay /\ Shown /\ EndInv
  BY DEF SessionInv
<1>3. SessionType'
  BY <1>1, <1>2 DEF SessionType
<1>4. InOrder' /\ OneAnswer'
  BY <1>1, <1>2 DEF InOrder, OneAnswer
<1>5. Ended' = TRUE
  BY <1>1 DEF Ended
<1>6. ByPhase' /\ KnowsEnd'
  BY <1>1, <1>2, <1>5 DEF ByPhase, KnowsEnd
<1>7. OnItsWay'
  <2>1. AllTell(channel, ring, cursor, terminal, FALSE)
    BY <1>1, <1>2 DEF OnItsWay, AllTell, Tells
  <2>2. AllTell(channel, ring, cursor, terminal, TRUE)
    BY <2>1, TellsMore
  <2> QED BY <1>1, <1>5, <2>2 DEF OnItsWay
<1>8. Shown' /\ RingInv' /\ EndInv'
  BY <1>1, <1>2 DEF Shown, RingInv, EndInv, EndsWithLastByte
<1> QED BY <1>3, <1>4, <1>6, <1>7, <1>8 DEF SessionInv

-----------------------------------------------------------------------------
(* The theorems.                                                           *)

LEMMA InitInv == Init => RingInv /\ SessionInv
<1> SUFFICES ASSUME Init PROVE RingInv /\ SessionInv
  OBVIOUS
<1>1. /\ ring = EmptyRing /\ ring.next = 0 /\ terminal = "running" /\ request = None
      /\ channel = <<>> /\ phase = "away" /\ readOnly \in BOOLEAN /\ cursor = 0
      /\ target = 0 /\ queued = FALSE /\ exitPending = FALSE /\ pumping = FALSE
      /\ end = "no" /\ shown = <<>>
  BY EmptyNewest DEF Init
<1>2. RingInv
  BY <1>1, EmptyNewest DEF RingInv
<1>3. channel \in Seq(Message) /\ shown \in Seq(Int) /\ Len(channel) = 0 /\ Len(shown) = 0
  BY <1>1
<1>4. \A i \in 1..Len(channel) : FALSE
  BY <1>3
<1>5. Answers(channel) = {}
  BY <1>4 DEF Answers
<1>6. SessionType
  BY <1>1, <1>3 DEF SessionType
<1>7. InOrder /\ OneAnswer /\ OnItsWay
  BY <1>1, <1>4, <1>5 DEF InOrder, OneAnswer, OnItsWay, Ordered, AllTell
<1>8. ByPhase /\ KnowsEnd
  BY <1>1 DEF ByPhase, KnowsEnd
<1>9. Shown
  <2>1. \A i \in 1..Len(shown) : FALSE
    BY <1>3
  <2>2. LastOf(shown) = -1
    BY <1>1 DEF LastOf
  <2> QED BY <1>1, <2>1, <2>2 DEF Shown, UpTo
<1>10. EndInv
  BY <1>1 DEF EndInv, EndsWithLastByte
<1> QED BY <1>2, <1>6, <1>7, <1>8, <1>9, <1>10 DEF SessionInv

Inv == RingInv /\ SessionInv

LEMMA StepInv == Inv /\ [Next]_vars => Inv'
<1> SUFFICES ASSUME RingInv, SessionInv, [Next]_vars PROVE RingInv' /\ SessionInv'
  BY DEF Inv
<1>1. CASE Output BY <1>1, OutputKeeps
<1>2. CASE Exit BY <1>2, ExitKeeps
<1>3. CASE Attach BY <1>3, AttachKeeps
<1>4. CASE Respond BY <1>4, RespondKeeps
<1>5. CASE OnOutputAvailable BY <1>5, OutputAvailableKeeps
<1>6. CASE OnExit BY <1>6, ExitHeardKeeps
<1>7. CASE OnReplay BY <1>7, ReplayKeeps
<1>8. CASE OnControl BY <1>8, ControlKeeps
<1>9. CASE OnSlice BY <1>9, SliceKeeps
<1>10. CASE UserEnds BY <1>10, UserEndsKeeps
<1>11. CASE UNCHANGED vars
  <2>1. SessionType' /\ InOrder' /\ OneAnswer'
    BY <1>11 DEF vars, client, SessionInv, SessionType, InOrder, OneAnswer
  <2>2. ByPhase' /\ OnItsWay' /\ KnowsEnd'
    BY <1>11 DEF vars, client, SessionInv, ByPhase, OnItsWay, KnowsEnd, Ended
  <2>3. Shown' /\ EndInv' /\ RingInv'
    BY <1>11 DEF vars, client, SessionInv, Shown, EndInv, EndsWithLastByte, RingInv
  <2> QED BY <2>1, <2>2, <2>3 DEF SessionInv
<1> QED BY <1>1, <1>2, <1>3, <1>4, <1>5, <1>6, <1>7, <1>8, <1>9, <1>10, <1>11
     DEF Next, Client

LEMMA InvHolds == Spec => []Inv
<1>1. Init => Inv
  BY InitInv DEF Inv
<1> QED BY <1>1, StepInv, PTL DEF Spec

\* After any sequence of writes, of any sizes, the chunks that appendOutput keeps hold
\* exactly the newest bytes, as many as the ring may have.
THEOREM RingHoldsNewestHolds == Spec => []RingHoldsNewest
<1>1. Inv => RingHoldsNewest
  <2> SUFFICES ASSUME Newest(ring) PROVE RingHoldsNewest
    BY DEF Inv, RingInv
  <2>1. /\ ring.next \in Nat /\ ring.oldest \in Nat /\ ring.oldest <= ring.next
        /\ Linked(ring.chunks, ring.oldest, ring.next)
        /\ ring.oldest = Larger(0, ring.next - RingBytes)
    BY NewestType DEF Newest
  <2>2. FoldLeft(LAMBDA bytes, chunk :
                   bytes \o SubSeq(chunk.data, chunk.start + 1, Len(chunk.data)),
                 <<>>, ring.chunks) = Interval(ring.oldest, ring.next)
    <3>1. ring.next \in Int /\ ring.oldest \in Int
      BY <2>1
    <3> QED BY <2>1, <3>1, ContentsLinked, Zenon
  <2>3. Interval(ring.oldest, ring.next)
          = [i \in 1..(ring.next - ring.oldest) |-> ring.oldest + i - 1]
    BY DEF Interval
  <2>4. \E held \in {FoldLeft(LAMBDA bytes, chunk :
                      bytes \o SubSeq(chunk.data, chunk.start + 1, Len(chunk.data)),
                      <<>>, ring.chunks)} :
          held = [i \in 1..(ring.next - ring.oldest) |-> ring.oldest + i - 1]
    BY <2>2, <2>3, Zenon
  <2> QED BY <2>1, <2>4, Zenon DEF RingHoldsNewest
<1> QED BY <1>1, InvHolds, PTL

\* Whatever the sizes of ring, chunks and slices, however output, requests and
\* responses interleave: the user sees the bytes in order, none twice, and misses
\* only what the ring had dropped.
THEOREM ShownInOrderHolds == Spec => []ShownInOrder
<1>1. Inv => ShownInOrder
  BY DEF Inv, SessionInv, Shown, UpTo, ShownInOrder
<1> QED BY <1>1, InvHolds, PTL

\* A session that ends because the terminal did has shown its last byte, whenever it
\* attached; and a client's cursor always advances.
THEOREM EndsWithLastByteHolds == Spec => []EndsWithLastByte
<1>1. Inv => EndsWithLastByte
  BY DEF Inv, SessionInv, EndInv
<1> QED BY <1>1, InvHolds, PTL


=============================================================================
