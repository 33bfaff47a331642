---------------------------- MODULE WindowProofs ----------------------------
(***************************************************************************)
(* Proofs about DesktopTerminal: what a window of the desktop application  *)
(* shows of a terminal is in order, and its exit comes below the output,   *)
(* through lost connections and reloads, whatever the sizes of the ring,   *)
(* of its chunks and of the slices.                                        *)
(***************************************************************************)
EXTENDS DesktopTerminal, RingProofs

-----------------------------------------------------------------------------
(* Messages.                                                               *)

Items == [next : Nat, oldest : Nat, final : BOOLEAN, sequence : Nat]

Attaches == [op : {"attach"}, of : Nat, cursor : Nat]
Queries == [op : {"list"}, to : {"window", "connect"}]
Requests == Attaches \cup Queries

Slices == [op : {"slice"}, of : Nat, item : Items, slice : Slice, truncated : BOOLEAN]
Lists == [op : {"list"}, to : {"window", "connect"}, item : Items]
Responses == Slices \cup Lists

Growths == [op : {"output", "exit"}, next : Nat]
Touches == [op : {"touched"}, item : Items]
Events == Growths \cup Touches
Frames == Responses \cup Events

Batches == [op : {"data"}, slice : Slice, truncated : BOOLEAN]
Inventories == [op : {"inventory"}, item : Items]
Exits == [op : {"exit"}, sequence : Nat, after : Nat]
ToWindow == Batches \cup Inventories \cup Exits
ToMain == [op : {"ready"}] \cup [op : {"ack"}, cursor : Nat]

WindowType ==
  /\ ended \in BOOLEAN /\ touched \in Nat /\ sequence \in Nat
  /\ requests \in Seq(Requests) /\ channel \in Seq(Frames) /\ resolved \in Seq(Responses)
  /\ link \in {"down", "listing", "up"}
  /\ inventory \in Items
  /\ handler \in {"no", "list", "control"} /\ (handler = "control" => listed \in Items)
  /\ delivery \in Entries \cup {None} /\ ready \in BOOLEAN
  /\ window \in {"loading", "asked", "ready", "failed"}
  /\ toWindow \in Seq(ToWindow) /\ toMain \in Seq(ToMain)
  /\ outputCursor \in Nat /\ shown \in Seq(Int) /\ told \in BOOLEAN /\ reloads \in Nat

-----------------------------------------------------------------------------
(* The inductive invariant.                                                *)

RingInv == Newest(ring)

\* What is said of a terminal with the ring r, which has ended if e.
Honest(item, r, e) ==
  item.oldest <= r.oldest /\ (item.final => e /\ item.next = r.next)

Truthful(m, r, e) ==
  /\ m.op \in {"slice", "list", "touched"} => Honest(m.item, r, e)
  /\ m.op = "exit" => e /\ m.next = r.next

AllTruthful(s, r, e) == \A i \in 1..Len(s) : Truthful(s[i], r, e)

\* Who knows of the end hears of no more output.
Final(m) == m.op = "exit" \/ (m.op \in {"slice", "list", "touched"} /\ m.item.final)
NoOutput(ch) == \A i \in 1..Len(ch) : ch[i].op # "output"
FinalLast(ch) == \A i, j \in 1..Len(ch) : i < j /\ Final(ch[i]) => ch[j].op # "output"

OnItsWay ==
  /\ AllTruthful(channel, ring, ended) /\ AllTruthful(resolved, ring, ended)
  /\ FinalLast(channel)
  /\ Honest(inventory, ring, ended) /\ (inventory.final => NoOutput(channel))
  /\ handler = "control" => Honest(listed, ring, ended)

\* The places in s at which there is a batch for the window's generation n, or what
\* terminal-inventory waits for.
Awaits(m, n) ==
  \/ m.op \in {"attach", "slice"} /\ m.of = n
  \/ m.op = "list" /\ m.to = "window"

Awaited(s, n) == {i \in 1..Len(s) : Awaits(s[i], n)}

\* One is under way at most: rq, ch and rs are requests, channel and responses.
Single(rq, ch, rs, n) ==
  /\ \A i, j \in Awaited(rq, n) : i = j
  /\ \A i, j \in Awaited(ch, n) : i = j
  /\ \A i, j \in Awaited(rs, n) : i = j
  /\ Awaited(rq, n) = {} \/ Awaited(ch, n) = {}
  /\ Awaited(rq, n) = {} \/ Awaited(rs, n) = {}
  /\ Awaited(ch, n) = {} \/ Awaited(rs, n) = {}

\* It is awaited in the state h of terminal-inventory, or for the entry d.
Expected(m, h, d, r) ==
  /\ m.op = "list" => h = "list"
  /\ m.op = "attach" => d # None /\ d.pumping /\ m.cursor = d.cursor
  /\ m.op = "slice" =>
       /\ d # None /\ d.pumping /\ Continues(m.slice, r, d.cursor)
       /\ m.truncated => m.slice.end # d.cursor

AllExpected(s, n, h, d, r) == \A i \in Awaited(s, n) : Expected(s[i], h, d, r)

\* Batches are of this generation or of earlier ones.
Askable(rq, n, r) ==
  \A i \in 1..Len(rq) : rq[i].op = "attach" => rq[i].of <= n /\ rq[i].cursor <= r.next
Recent(s, n) == \A i \in 1..Len(s) : s[i].op = "slice" => s[i].of <= n

\* The exit that is held back is the terminal's.
Pending(d, r, e) == d # None /\ d.pendingExit # None => e /\ d.pendingExit = r.next

Fetching(d, rq, ch, rs, n, h, r, e) ==
  /\ d # None => d.of = n
  /\ Pending(d, r, e)
  /\ Askable(rq, n, r) /\ Recent(ch, n) /\ Recent(rs, n)
  /\ Single(rq, ch, rs, n)
  /\ AllExpected(rq, n, h, d, r) /\ AllExpected(ch, n, h, d, r)
  /\ AllExpected(rs, n, h, d, r)

\* Until the page is ready: w is the window, h terminal-inventory, rd whether the
\* window is in readyRenderers, tw and tm are the messages to and from the window, c
\* is its cursor.
Loading(d, tw, tm, w, h, rd, c, r) ==
  /\ h # "no" => w \in {"loading", "asked"}
  /\ h = "control" => d = None
  /\ rd => w = "ready"
  /\ d # None /\ ~rd => d.inFlight = None /\ ~d.pumping /\ d.cursor <= r.oldest
  /\ w # "ready" => tm = <<>>
  /\ w \in {"loading", "failed"} => tw = <<>>
  /\ w = "asked" /\ h # "no" => tw = <<>>
  /\ w = "asked" /\ h = "no" =>
       /\ d # None /\ Len(tw) = 1 /\ tw[1].op = "inventory"
       /\ tw[1].item.oldest = d.cursor
  /\ w = "ready" => d # None
  /\ w = "ready" /\ ~rd =>
       tw = <<>> /\ Len(tm) = 1 /\ tm[1].op = "ready" /\ c = d.cursor

\* Then the window has acknowledged everything, or a batch is on its way to it, or its
\* acknowledgement on its way back.
Idle(d, tw, tm, c) ==
  /\ d.inFlight = None /\ tm = <<>> /\ c = d.cursor
  /\ \A i \in 1..Len(tw) : tw[i].op = "exit"

Sending(d, tw, tm, c, r) ==
  /\ ~d.pumping /\ tm = <<>> /\ c = d.cursor
  /\ Len(tw) = 1 /\ tw[1].op = "data"
  /\ d.inFlight = tw[1].slice.end /\ tw[1].slice.end # c /\ Continues(tw[1].slice, r, c)

Acknowledging(d, tw, tm, c) ==
  /\ ~d.pumping /\ tw = <<>>
  /\ Len(tm) = 1 /\ tm[1].op = "ack" /\ tm[1].cursor = c /\ d.inFlight = c

\* The exit comes when everything has been shown.
ExitLast(tw, rd, c, r, e) ==
  rd => \A i \in 1..Len(tw) : tw[i].op = "exit" => e /\ c = r.next

Presenting(d, tw, tm, w, h, rd, c, r, e) ==
  /\ Loading(d, tw, tm, w, h, rd, c, r)
  /\ rd => Idle(d, tw, tm, c) \/ Sending(d, tw, tm, c, r) \/ Acknowledging(d, tw, tm, c)
  /\ ExitLast(tw, rd, c, r, e)

\* What the tab shows.
Shows ==
  /\ window # "ready" => shown = <<>> /\ outputCursor = 0 /\ ~told
  /\ outputCursor <= ring.next /\ UpTo(shown, outputCursor, ring)
  /\ told => ended /\ outputCursor = ring.next

FetchInv ==
  Fetching(delivery, requests, channel, resolved, reloads, handler, ring, ended)
PresentInv ==
  Presenting(delivery, toWindow, toMain, window, handler, ready, outputCursor, ring, ended)

WindowInv == RingInv /\ WindowType /\ OnItsWay /\ FetchInv /\ PresentInv /\ Shows

-----------------------------------------------------------------------------
(* Kinds of messages, and sequences of them.                               *)

LEMMA RequestKinds ==
  ASSUME NEW m \in Requests
  PROVE  /\ m.op \in {"attach", "list"}
         /\ m.op = "attach" => m \in Attaches /\ m.of \in Nat /\ m.cursor \in Nat
         /\ m.op = "list" => m \in Queries /\ m.to \in {"window", "connect"}
BY DEF Requests, Attaches, Queries

LEMMA ResponseKinds ==
  ASSUME NEW m \in Responses
  PROVE  /\ m \in Frames /\ m.op \in {"slice", "list"}
         /\ m.op = "slice" => /\ m \in Slices /\ m.of \in Nat /\ m.item \in Items
                              /\ m.slice \in Slice /\ m.truncated \in BOOLEAN
         /\ m.op = "list" => /\ m \in Lists /\ m.item \in Items
                             /\ m.to \in {"window", "connect"}
BY DEF Frames, Responses, Slices, Lists

LEMMA FrameKinds ==
  ASSUME NEW m \in Frames
  PROVE  /\ m.op \in {"slice", "list"} => m \in Responses
         /\ m.op \notin {"slice", "list"} => m.op \in {"output", "exit", "touched"}
         /\ m.op \in {"output", "exit"} => m.next \in Nat
         /\ m.op = "touched" => m.item \in Items
<1>1. m \in Responses => m.op \in {"slice", "list"}
  BY ResponseKinds
<1>2. m \in Events => /\ m.op \in {"output", "exit", "touched"}
                      /\ m.op \in {"output", "exit"} => m.next \in Nat
                      /\ m.op = "touched" => m.item \in Items
  BY DEF Events, Growths, Touches
<1> QED BY <1>1, <1>2 DEF Frames

LEMMA ToWindowKinds ==
  ASSUME NEW m \in ToWindow
  PROVE  /\ m.op \in {"data", "inventory", "exit"}
         /\ m.op = "data" => m.slice \in Slice /\ m.truncated \in BOOLEAN
         /\ m.op = "inventory" => m.item \in Items
BY DEF ToWindow, Batches, Inventories, Exits

LEMMA ToMainKinds ==
  ASSUME NEW m \in ToMain
  PROVE  m.op \in {"ready", "ack"} /\ (m.op = "ack" => m.cursor \in Nat)
BY DEF ToMain

LEMMA EntryFields ==
  ASSUME NEW d \in Entries
  PROVE  /\ d # None /\ d.of \in Nat /\ d.cursor \in Nat
         /\ d.inFlight \in Nat \cup {None} /\ d.pumping \in BOOLEAN
         /\ d.pendingExit \in Nat \cup {None} /\ d.exitSequence \in Nat
         /\ \A x \in Nat : x # None
BY WindowAssumption DEF Entries

\* The first of a sequence is taken.
LEMMA Removed ==
  ASSUME NEW S, NEW s \in Seq(S), s # <<>>
  PROVE  /\ Tail(s) \in Seq(S) /\ Head(s) = s[1] /\ Head(s) \in S
         /\ Len(s) \in Nat /\ 1 \in 1..Len(s) /\ Len(Tail(s)) = Len(s) - 1
         /\ \A i \in 1..Len(Tail(s)) : i + 1 \in 1..Len(s) /\ Tail(s)[i] = s[i + 1]
<1>1. Len(s) \in Nat /\ Len(s) # 0
  BY LenProperties, EmptySeq
<1>2. Tail(s) \in Seq(S) /\ Len(Tail(s)) = Len(s) - 1
      /\ \A i \in 1..(Len(s) - 1) : Tail(s)[i] = s[i + 1]
  BY HeadTailProperties
<1> QED BY <1>1, <1>2

\* One is added.
LEMMA Added ==
  ASSUME NEW S, NEW s \in Seq(S), NEW x \in S
  PROVE  /\ Append(s, x) \in Seq(S) /\ Len(s) \in Nat /\ Len(Append(s, x)) = Len(s) + 1
         /\ \A i \in 1..Len(Append(s, x)) :
              \/ i \in 1..Len(s) /\ Append(s, x)[i] = s[i]
              \/ i = Len(s) + 1 /\ Append(s, x)[i] = x
         /\ \A i \in 1..Len(s) : i \in 1..Len(Append(s, x)) /\ Append(s, x)[i] = s[i]
         /\ Len(s) + 1 \in 1..Len(Append(s, x)) /\ Append(s, x)[Len(s) + 1] = x
<1>1. /\ Append(s, x) \in Seq(S) /\ Len(s) \in Nat
      /\ Len(Append(s, x)) = Len(s) + 1
      /\ \A i \in 1..Len(s) : Append(s, x)[i] = s[i]
      /\ Append(s, x)[Len(s) + 1] = x
  BY AppendIs
<1> QED BY <1>1

LEMMA Nothing ==
  ASSUME NEW S
  PROVE  /\ <<>> \in Seq(S) /\ Len(<<>>) = 0 /\ 1..Len(<<>>) = {}
         /\ \A s \in Seq(S) : Len(s) = 0 => s = <<>>
         /\ \A s \in Seq(S) : Len(s) = 1 => s # <<>> /\ Tail(s) = <<>> /\ 1..Len(s) = {1}
<1>1. /\ <<>> \in Seq(S) /\ Len(<<>>) = 0
      /\ \A s \in Seq(S) : Len(s) = 0 => s = <<>>
  BY EmptySeq
<1>2. ASSUME NEW s \in Seq(S), Len(s) = 1 PROVE s # <<>> /\ Tail(s) = <<>>
  <2>1. s # <<>>
    BY <1>1, <1>2
  <2>2. Tail(s) \in Seq(S) /\ Len(Tail(s)) = 0
    BY <1>2, <2>1, Removed
  <2> QED BY <1>1, <2>1, <2>2
<1>3. 1..1 = {1} /\ 1..0 = {}
  OBVIOUS
<1>4. 1..Len(<<>>) = {} /\ \A s \in Seq(S) : Len(s) = 1 => 1..Len(s) = {1}
  BY <1>1, <1>3, Zenon
<1> QED BY <1>1, <1>2, <1>4, Zenon

LEMMA One ==
  ASSUME NEW S, NEW m \in S
  PROVE  Append(<<>>, m) \in Seq(S) /\ Len(Append(<<>>, m)) = 1 /\ Append(<<>>, m)[1] = m
<1>1. <<>> \in Seq(S) /\ Len(<<>>) = 0
  BY Nothing
<1> QED BY <1>1, Added

\* What is awaited, and one more that is, or is not.
LEMMA AddedAwaited ==
  ASSUME NEW S, NEW s \in Seq(S), NEW m \in S, NEW n
  PROVE  /\ ~Awaits(m, n) => Awaited(Append(s, m), n) = Awaited(s, n)
         /\ Awaits(m, n) => Awaited(Append(s, m), n) = Awaited(s, n) \cup {Len(s) + 1}
BY Added DEF Awaited

LEMMA RemovedAwaited ==
  ASSUME NEW S, NEW s \in Seq(S), s # <<>>, NEW n
  PROVE  /\ \A i \in Awaited(Tail(s), n) : i + 1 \in Awaited(s, n) /\ Tail(s)[i] = s[i + 1]
         /\ Awaited(s, n) = {} => Awaited(Tail(s), n) = {} /\ ~Awaits(Head(s), n)
         /\ Awaits(Head(s), n) => 1 \in Awaited(s, n)
         /\ (\A i, j \in Awaited(s, n) : i = j) =>
              /\ \A i, j \in Awaited(Tail(s), n) : i = j
              /\ Awaits(Head(s), n) => Awaited(Tail(s), n) = {}
<1> DEFINE t == Tail(s)
<1>1. /\ Head(s) = s[1] /\ Len(s) \in Nat /\ 1 \in 1..Len(s) /\ Len(t) = Len(s) - 1
      /\ \A i \in 1..Len(t) : i + 1 \in 1..Len(s) /\ t[i] = s[i + 1]
  BY Removed
<1> HIDE DEF t
<1>2. \A i \in Awaited(t, n) : i \in Nat \ {0} /\ i + 1 \in Awaited(s, n) /\ t[i] = s[i + 1]
  BY <1>1 DEF Awaited
<1>3. Awaits(Head(s), n) => 1 \in Awaited(s, n)
  BY <1>1 DEF Awaited
<1>4. ASSUME \A i, j \in Awaited(s, n) : i = j
      PROVE  /\ \A i, j \in Awaited(t, n) : i = j
             /\ Awaits(Head(s), n) => Awaited(t, n) = {}
  <2>1. ASSUME NEW i \in Awaited(t, n), NEW j \in Awaited(t, n) PROVE i = j
    <3>1. i + 1 = j + 1 /\ i \in Nat /\ j \in Nat
      BY <1>2, <1>4
    <3> QED BY <3>1
  <2>2. ASSUME Awaits(Head(s), n), NEW i \in Awaited(t, n) PROVE FALSE
    <3>1. i + 1 = 1 /\ i \in Nat \ {0}
      BY <1>2, <1>3, <1>4, <2>2
    <3> QED BY <3>1
  <2> QED BY <2>1, <2>2
<1>5. Awaited(s, n) = {} => Awaited(t, n) = {} /\ ~Awaits(Head(s), n)
  BY <1>2, <1>3
<1> QED BY <1>2, <1>3, <1>4, <1>5 DEF t

LEMMA AddedFacts ==
  ASSUME NEW S, NEW s \in Seq(S), NEW m \in S
  PROVE  /\ \A n, h, d, r : AllExpected(s, n, h, d, r)
                            /\ (Awaits(m, n) => Expected(m, h, d, r))
                              => AllExpected(Append(s, m), n, h, d, r)
         /\ \A r, e : AllTruthful(s, r, e) /\ Truthful(m, r, e)
                        => AllTruthful(Append(s, m), r, e)
         /\ FinalLast(s) /\ (m.op = "output" => \A i \in 1..Len(s) : ~Final(s[i]))
              => FinalLast(Append(s, m))
         /\ NoOutput(s) /\ m.op # "output" => NoOutput(Append(s, m))
         /\ \A n, r : /\ Askable(s, n, r)
                      /\ m.op = "attach" => m.of <= n /\ m.cursor <= r.next
                      => Askable(Append(s, m), n, r)
         /\ \A n : Recent(s, n) /\ (m.op = "slice" => m.of <= n)
                     => Recent(Append(s, m), n)
<1> DEFINE a == Append(s, m)
<1>1. /\ Len(s) \in Nat /\ Len(a) = Len(s) + 1
      /\ \A i \in 1..Len(a) : \/ i \in 1..Len(s) /\ a[i] = s[i]
                              \/ i = Len(s) + 1 /\ a[i] = m
  BY Added
<1> HIDE DEF a
<1>2. \A n, h, d, r : AllExpected(s, n, h, d, r) /\ (Awaits(m, n) => Expected(m, h, d, r))
                        => AllExpected(a, n, h, d, r)
  BY <1>1 DEF AllExpected, Awaited
<1>3. \A r, e : AllTruthful(s, r, e) /\ Truthful(m, r, e) => AllTruthful(a, r, e)
  BY <1>1 DEF AllTruthful
<1>4. ASSUME FinalLast(s), m.op = "output" => \A i \in 1..Len(s) : ~Final(s[i])
      PROVE  FinalLast(a)
  <2> SUFFICES ASSUME NEW i \in 1..Len(a), NEW j \in 1..Len(a), i < j, Final(a[i])
               PROVE  a[j].op # "output"
    BY DEF FinalLast
  <2>1. i \in 1..Len(s) /\ a[i] = s[i]
    BY <1>1
  <2> QED BY <1>1, <1>4, <2>1 DEF FinalLast
<1>5. NoOutput(s) /\ m.op # "output" => NoOutput(a)
  BY <1>1 DEF NoOutput
<1>6. \A n, r : Askable(s, n, r) /\ (m.op = "attach" => m.of <= n /\ m.cursor <= r.next)
                  => Askable(a, n, r)
  BY <1>1 DEF Askable
<1>7. \A n : Recent(s, n) /\ (m.op = "slice" => m.of <= n) => Recent(a, n)
  BY <1>1 DEF Recent
<1> QED BY <1>2, <1>3, <1>4, <1>5, <1>6, <1>7 DEF a

LEMMA RemovedFacts ==
  ASSUME NEW S, NEW s \in Seq(S), s # <<>>
  PROVE  /\ \A n, h, d, r : AllExpected(s, n, h, d, r) =>
              AllExpected(Tail(s), n, h, d, r)
              /\ (Awaits(Head(s), n) => Expected(Head(s), h, d, r))
         /\ \A r, e : AllTruthful(s, r, e) =>
              AllTruthful(Tail(s), r, e) /\ Truthful(Head(s), r, e)
         /\ FinalLast(s) => FinalLast(Tail(s)) /\ (Final(Head(s)) => NoOutput(Tail(s)))
         /\ NoOutput(s) => NoOutput(Tail(s)) /\ Head(s).op # "output"
         /\ \A n, r : Askable(s, n, r) =>
              /\ Askable(Tail(s), n, r)
              /\ Head(s).op = "attach" => Head(s).of <= n /\ Head(s).cursor <= r.next
         /\ \A n : Recent(s, n) =>
              Recent(Tail(s), n) /\ (Head(s).op = "slice" => Head(s).of <= n)
<1> DEFINE t == Tail(s)
<1>1. /\ Head(s) = s[1] /\ Len(s) \in Nat /\ 1 \in 1..Len(s) /\ Len(t) = Len(s) - 1
      /\ \A i \in 1..Len(t) : i + 1 \in 1..Len(s) /\ t[i] = s[i + 1]
  BY Removed
<1> HIDE DEF t
<1>2. \A n, h, d, r : AllExpected(s, n, h, d, r) =>
        AllExpected(t, n, h, d, r) /\ (Awaits(Head(s), n) => Expected(Head(s), h, d, r))
  BY <1>1 DEF AllExpected, Awaited
<1>3. \A r, e : AllTruthful(s, r, e) => AllTruthful(t, r, e) /\ Truthful(Head(s), r, e)
  BY <1>1 DEF AllTruthful
<1>4. ASSUME FinalLast(s) PROVE FinalLast(t) /\ (Final(Head(s)) => NoOutput(t))
  <2>1. ASSUME NEW i \in 1..Len(t), NEW j \in 1..Len(t), i < j, Final(t[i])
        PROVE  t[j].op # "output"
    <3>1. i + 1 \in 1..Len(s) /\ j + 1 \in 1..Len(s) /\ i + 1 < j + 1
          /\ t[i] = s[i + 1] /\ t[j] = s[j + 1]
      BY <1>1, <2>1
    <3> QED BY <1>4, <2>1, <3>1 DEF FinalLast
  <2>2. ASSUME Final(Head(s)), NEW j \in 1..Len(t) PROVE t[j].op # "output"
    <3>1. 1 \in 1..Len(s) /\ j + 1 \in 1..Len(s) /\ 1 < j + 1 /\ t[j] = s[j + 1]
      BY <1>1
    <3> QED BY <1>1, <1>4, <2>2, <3>1 DEF FinalLast
  <2> QED BY <2>1, <2>2 DEF FinalLast, NoOutput
<1>5. NoOutput(s) => NoOutput(t) /\ Head(s).op # "output"
  BY <1>1 DEF NoOutput
<1>6. \A n, r : Askable(s, n, r) =>
        /\ Askable(t, n, r)
        /\ Head(s).op = "attach" => Head(s).of <= n /\ Head(s).cursor <= r.next
  BY <1>1 DEF Askable
<1>7. \A n : Recent(s, n) => Recent(t, n) /\ (Head(s).op = "slice" => Head(s).of <= n)
  BY <1>1 DEF Recent
<1> QED BY <1>2, <1>3, <1>4, <1>5, <1>6, <1>7 DEF t

-----------------------------------------------------------------------------
(* What is under way.                                                      *)

Nobody(rq, ch, rs, n) ==
  Awaited(rq, n) = {} /\ Awaited(ch, n) = {} /\ Awaited(rs, n) = {}

\* Nothing is under way for an entry that is not being pumped.
LEMMA NobodyAwaits ==
  ASSUME NEW d, NEW rq, NEW ch, NEW rs, NEW n, NEW h, NEW r, NEW e,
         Fetching(d, rq, ch, rs, n, h, r, e), h # "list", d # None => ~d.pumping
  PROVE  Nobody(rq, ch, rs, n)
<1>1. ASSUME NEW m, Awaits(m, n), Expected(m, h, d, r) PROVE FALSE
  BY <1>1 DEF Awaits, Expected
<1>2. ASSUME NEW s, AllExpected(s, n, h, d, r) PROVE Awaited(s, n) = {}
  <2>1. \A i \in Awaited(s, n) : Awaits(s[i], n)
    BY DEF Awaited
  <2> QED BY <1>1, <1>2, <2>1 DEF AllExpected
<1>3. AllExpected(rq, n, h, d, r) /\ AllExpected(ch, n, h, d, r) /\ AllExpected(rs, n, h, d, r)
  BY DEF Fetching
<1> QED BY <1>2, <1>3 DEF Nobody

LEMMA NobodySingle ==
  ASSUME NEW rq, NEW ch, NEW rs, NEW n, Nobody(rq, ch, rs, n)
  PROVE  /\ Single(rq, ch, rs, n)
         /\ \A h, d, r : /\ AllExpected(rq, n, h, d, r) /\ AllExpected(ch, n, h, d, r)
                         /\ AllExpected(rs, n, h, d, r)
BY DEF Nobody, Single, AllExpected

\* One more request, when nothing is under way.
LEMMA AskedSingle ==
  ASSUME NEW rq \in Seq(Requests), NEW ch, NEW rs, NEW n, Nobody(rq, ch, rs, n),
         NEW m \in Requests
  PROVE  Single(Append(rq, m), ch, rs, n)
<1>1. Awaited(Append(rq, m), n) \subseteq {Len(rq) + 1}
  BY AddedAwaited DEF Nobody
<1> QED BY <1>1 DEF Nobody, Single

\* A request is served, its answer m sent or lost.
LEMMA ServedSingle ==
  ASSUME NEW rq \in Seq(Requests), rq # <<>>, NEW ch \in Seq(Frames), NEW rs, NEW n,
         Single(rq, ch, rs, n), NEW m \in Frames, Awaits(m, n) => Awaits(Head(rq), n)
  PROVE  Single(Tail(rq), Append(ch, m), rs, n) /\ Single(Tail(rq), ch, rs, n)
<1> DEFINE q == Tail(rq)
           c == Append(ch, m)
<1>1. /\ \A i, j \in Awaited(q, n) : i = j
      /\ Awaits(Head(rq), n) => Awaited(q, n) = {} /\ Awaited(rq, n) # {}
      /\ Awaited(rq, n) = {} => Awaited(q, n) = {} /\ ~Awaits(Head(rq), n)
  BY RemovedAwaited DEF Single
<1>2. /\ ~Awaits(m, n) => Awaited(c, n) = Awaited(ch, n)
      /\ Awaits(m, n) => Awaited(c, n) = Awaited(ch, n) \cup {Len(ch) + 1}
  BY AddedAwaited
<1> HIDE DEF q, c
<1>3. CASE Awaits(m, n)
  <2>1. Awaited(q, n) = {} /\ Awaited(ch, n) = {} /\ Awaited(rs, n) = {}
    BY <1>1, <1>3 DEF Single
  <2>2. Awaited(c, n) = {Len(ch) + 1}
    BY <1>2, <1>3, <2>1
  <2> QED BY <2>1, <2>2 DEF Single, q, c
<1>4. CASE ~Awaits(m, n)
  <2>1. Awaited(c, n) = Awaited(ch, n)
    BY <1>2, <1>4
  <2> QED BY <1>1, <2>1 DEF Single, q, c
<1> QED BY <1>3, <1>4

\* A frame is handled: a response is resolved, an event is gone.
LEMMA HandledSingle ==
  ASSUME NEW rq, NEW ch \in Seq(Frames), ch # <<>>, NEW rs \in Seq(Responses), NEW n,
         Single(rq, ch, rs, n)
  PROVE  /\ Head(ch) \in Responses => Single(rq, Tail(ch), Append(rs, Head(ch)), n)
         /\ Single(rq, Tail(ch), rs, n)
<1> DEFINE c == Tail(ch)
           m == Head(ch)
<1>1. /\ \A i, j \in Awaited(c, n) : i = j
      /\ Awaits(m, n) => Awaited(c, n) = {} /\ Awaited(ch, n) # {}
      /\ Awaited(ch, n) = {} => Awaited(c, n) = {} /\ ~Awaits(m, n)
  BY RemovedAwaited DEF Single
<1> HIDE DEF c, m
<1>2. ASSUME m \in Responses PROVE Single(rq, c, Append(rs, m), n)
  <2>1. /\ ~Awaits(m, n) => Awaited(Append(rs, m), n) = Awaited(rs, n)
        /\ Awaits(m, n) => Awaited(Append(rs, m), n) = Awaited(rs, n) \cup {Len(rs) + 1}
    BY <1>2, AddedAwaited
  <2>2. CASE Awaits(m, n)
    <3>1. Awaited(c, n) = {} /\ Awaited(rq, n) = {} /\ Awaited(rs, n) = {}
      BY <1>1, <2>2 DEF Single
    <3>2. Awaited(Append(rs, m), n) = {Len(rs) + 1}
      BY <2>1, <2>2, <3>1
    <3> QED BY <3>1, <3>2 DEF Single
  <2>3. CASE ~Awaits(m, n)
    <3>1. Awaited(Append(rs, m), n) = Awaited(rs, n)
      BY <2>1, <2>3
    <3> QED BY <1>1, <3>1 DEF Single
  <2> QED BY <2>2, <2>3
<1>3. Single(rq, c, rs, n)
  BY <1>1 DEF Single
<1> QED BY <1>2, <1>3 DEF c, m

\* Who waited for a response goes on.
LEMMA ContinuedSingle ==
  ASSUME NEW rq, NEW ch, NEW rs \in Seq(Responses), rs # <<>>, NEW n,
         Single(rq, ch, rs, n)
  PROVE  /\ Single(rq, ch, Tail(rs), n)
         /\ Awaits(Head(rs), n) => Nobody(rq, ch, Tail(rs), n)
<1> DEFINE t == Tail(rs)
<1>1. /\ \A i, j \in Awaited(t, n) : i = j
      /\ Awaits(Head(rs), n) => Awaited(t, n) = {} /\ Awaited(rs, n) # {}
      /\ Awaited(rs, n) = {} => Awaited(t, n) = {}
  BY RemovedAwaited DEF Single
<1> HIDE DEF t
<1> QED BY <1>1 DEF Single, Nobody, t

-----------------------------------------------------------------------------
(* pumpTerminal.                                                           *)

\* Whoever is served and has nothing in flight has acknowledged everything.
LEMMA FreeIsIdle ==
  ASSUME NEW d, NEW tw \in Seq(ToWindow), NEW tm, NEW w, NEW h, NEW rd, NEW c \in Nat,
         NEW r, NEW e, Presenting(d, tw, tm, w, h, rd, c, r, e), rd, d.inFlight = None
  PROVE  w = "ready" /\ h = "no" /\ Idle(d, tw, tm, c)
<1>1. w = "ready" /\ h = "no"
  BY DEF Presenting, Loading
<1>2. ~Sending(d, tw, tm, c, r)
  <2> SUFFICES ASSUME Sending(d, tw, tm, c, r) PROVE FALSE
    OBVIOUS
  <2>1. Len(tw) = 1 /\ tw[1].op = "data" /\ d.inFlight = tw[1].slice.end
    BY DEF Sending
  <2>2. tw[1] \in ToWindow
    BY SMTT(60), <2>1
  <2>3. tw[1].slice.end \in Nat
    BY <2>1, <2>2, ToWindowKinds DEF Slice
  <2> QED BY <2>1, <2>3, WindowAssumption
<1>3. ~Acknowledging(d, tw, tm, c)
  BY WindowAssumption DEF Acknowledging
<1> QED BY <1>1, <1>2, <1>3 DEF Presenting

LEMMA PumpKeeps ==
  ASSUME NEW d \in Entries \cup {None}, NEW rd \in BOOLEAN, Pump(d, rd),
         requests \in Seq(Requests), toWindow \in Seq(ToWindow), sequence \in Nat,
         NEW ch, NEW rs, NEW n \in Nat, NEW w, NEW h, NEW tm, NEW c \in Nat,
         NEW r, r.next \in Nat, c <= r.next, NEW e,
         Fetching(d, requests, ch, rs, n, h, r, e),
         Presenting(d, toWindow, tm, w, h, rd, c, r, e)
  PROVE  /\ delivery' \in Entries \cup {None} /\ requests' \in Seq(Requests)
         /\ toWindow' \in Seq(ToWindow)
         /\ Fetching(delivery', requests', ch, rs, n, h, r, e)
         /\ Presenting(delivery', toWindow', tm, w, h, rd, c, r, e)
<1> DEFINE exit == [op |-> "exit", sequence |-> d.exitSequence, after |-> sequence]
           ask == [op |-> "attach", of |-> d.of, cursor |-> d.cursor]
<1>1. \/ delivery' = d /\ requests' = requests /\ toWindow' = toWindow
      \/ /\ Free(d, rd) /\ ExitDue(d) /\ delivery' = [d EXCEPT !.pendingExit = None]
         /\ toWindow' = Append(toWindow, exit) /\ requests' = requests
      \/ /\ Free(d, rd) /\ delivery' = [d EXCEPT !.pumping = TRUE]
         /\ requests' = Append(requests, ask) /\ toWindow' = toWindow
  BY DEF Pump, SendExit
<1>2. CASE delivery' = d /\ requests' = requests /\ toWindow' = toWindow
  BY <1>2, Zenon
<1>3. ASSUME Free(d, rd)
      PROVE  /\ rd /\ w = "ready" /\ h = "no" /\ d \in Entries /\ ~d.pumping
             /\ d.inFlight = None /\ d.cursor = c
             /\ Idle(d, toWindow, tm, c) /\ Nobody(requests, ch, rs, n)
  <2>1. rd /\ d # None /\ ~d.pumping /\ d.inFlight = None /\ d \in Entries
    BY <1>3 DEF Free
  <2>2. w = "ready" /\ h = "no" /\ Idle(d, toWindow, tm, c)
    BY <2>1, FreeIsIdle
  <2>3. Nobody(requests, ch, rs, n)
    BY <2>1, <2>2, NobodyAwaits
  <2> QED BY <2>1, <2>2, <2>3 DEF Idle
<1>4. ASSUME NEW x \in Entries, d \in Entries, rd, w = "ready", h = "no", ~d.pumping,
             x.of = d.of, x.cursor = d.cursor, x.inFlight = d.inFlight
      PROVE  /\ Loading(x, toWindow, tm, w, h, rd, c, r)
             /\ \A tw : Loading(x, tw, tm, w, h, rd, c, r)
  <2>1. x # None
    BY <1>4, EntryFields
  <2> QED BY <1>4, <2>1 DEF Loading, Presenting
<1>5. CASE /\ Free(d, rd) /\ ExitDue(d) /\ delivery' = [d EXCEPT !.pendingExit = None]
           /\ toWindow' = Append(toWindow, exit) /\ requests' = requests
  <2> DEFINE x == [d EXCEPT !.pendingExit = None]
             tw == Append(toWindow, exit)
  <2>1. /\ rd /\ w = "ready" /\ h = "no" /\ d \in Entries /\ ~d.pumping
        /\ d.inFlight = None /\ d.cursor = c
        /\ Idle(d, toWindow, tm, c) /\ Nobody(requests, ch, rs, n)
    BY <1>3, <1>5
  <2>2. /\ x \in Entries /\ x.of = d.of /\ x.cursor = d.cursor /\ x.inFlight = d.inFlight
        /\ x.pumping = d.pumping /\ x.pendingExit = None
    BY <2>1 DEF Entries
  <2>3. exit \in ToWindow /\ exit.op = "exit"
    BY <2>1, EntryFields DEF ToWindow, Exits
  <2>4. /\ tw \in Seq(ToWindow)
        /\ \A i \in 1..Len(tw) : \/ i \in 1..Len(toWindow) /\ tw[i] = toWindow[i]
                                 \/ tw[i] = exit
    <3> HIDE DEF exit
    <3> QED BY <2>3, Added
  <2> HIDE DEF x, tw, exit
  <2>5. e /\ c = r.next
    <3>1. d.pendingExit # None /\ d.cursor >= d.pendingExit /\ d # None
      BY <1>5, <2>1, EntryFields DEF ExitDue
    <3>2. e /\ d.pendingExit = r.next
      BY <3>1 DEF Fetching, Pending
    <3> QED BY <2>1, <3>1, <3>2
  <2>6. Idle(x, tw, tm, c)
    BY <2>1, <2>2, <2>3, <2>4 DEF Idle
  <2>7. ExitLast(tw, rd, c, r, e)
    BY <2>5 DEF ExitLast
  <2>8. Loading(x, tw, tm, w, h, rd, c, r)
    BY <1>4, <2>1, <2>2
  <2>9. Fetching(x, requests, ch, rs, n, h, r, e)
    <3>1. d # None
      BY <2>1, EntryFields
    <3>2. Pending(x, r, e) /\ (x # None => x.of = n)
      BY <2>2, <3>1 DEF Pending, Fetching
    <3> QED BY <2>1, <3>2, NobodySingle DEF Fetching
  <2>10. delivery' = x /\ toWindow' = tw /\ requests' = requests
    BY <1>5 DEF x, tw
  <2> QED BY <2>2, <2>4, <2>6, <2>7, <2>8, <2>9, <2>10 DEF Presenting
<1>6. CASE /\ Free(d, rd) /\ delivery' = [d EXCEPT !.pumping = TRUE]
           /\ requests' = Append(requests, ask) /\ toWindow' = toWindow
  <2> DEFINE x == [d EXCEPT !.pumping = TRUE]
             rq == Append(requests, ask)
  <2>1. /\ rd /\ w = "ready" /\ h = "no" /\ d \in Entries /\ ~d.pumping
        /\ d.inFlight = None /\ d.cursor = c
        /\ Idle(d, toWindow, tm, c) /\ Nobody(requests, ch, rs, n)
    BY <1>3, <1>6
  <2>2. /\ x \in Entries /\ x.of = d.of /\ x.cursor = d.cursor /\ x.inFlight = d.inFlight
        /\ x.pumping = TRUE /\ x.pendingExit = d.pendingExit
    BY <2>1 DEF Entries
  <2>3. d # None /\ x # None /\ d.of \in Nat /\ d.cursor \in Nat /\ d.of = n
    BY <2>1, <2>2, EntryFields DEF Fetching
  <2>4. ask \in Requests /\ ask.op = "attach" /\ ask.of = n /\ ask.cursor = c
    <3>1. ask \in Attaches
      BY <2>3 DEF Attaches
    <3> QED BY <2>1, <2>3, <3>1 DEF Requests
  <2> HIDE DEF x, ask
  <2>5. rq \in Seq(Requests) /\ Single(rq, ch, rs, n)
    BY <2>1, <2>4, Added, AskedSingle
  <2>6. AllExpected(requests, n, h, x, r) /\ AllExpected(ch, n, h, x, r)
        /\ AllExpected(rs, n, h, x, r)
    BY <2>1, NobodySingle
  <2>7. Expected(ask, h, x, r)
    BY <2>1, <2>2, <2>3, <2>4 DEF Expected
  <2>8. AllExpected(rq, n, h, x, r) /\ Askable(rq, n, r)
    <3>1. Askable(requests, n, r)
      BY DEF Fetching
    <3> QED BY <2>4, <2>6, <2>7, <3>1, AddedFacts
  <2> HIDE DEF rq
  <2>9. Fetching(x, rq, ch, rs, n, h, r, e)
    <3>1. Pending(x, r, e)
      BY <2>2, <2>3 DEF Fetching, Pending
    <3> QED BY <2>2, <2>3, <2>5, <2>6, <2>8, <3>1 DEF Fetching
  <2>10. Presenting(x, toWindow, tm, w, h, rd, c, r, e)
    <3>1. Loading(x, toWindow, tm, w, h, rd, c, r)
      BY <1>4, <2>1, <2>2
    <3>2. Idle(x, toWindow, tm, c)
      BY <2>1, <2>2 DEF Idle
    <3> QED BY <3>1, <3>2 DEF Presenting
  <2>11. delivery' = x /\ requests' = rq /\ toWindow' = toWindow
    BY <1>6 DEF x, rq
  <2> QED BY <2>2, <2>5, <2>9, <2>10, <2>11
<1> QED BY <1>1, <1>2, <1>5, <1>6

-----------------------------------------------------------------------------
(* What stays true while the terminal goes on.                             *)

\* The terminal with the ring r, ended if e, became one with q, ended if f.
Onward(r, e, q, f) ==
  GoesOn(r, q) /\ e \in BOOLEAN /\ f \in BOOLEAN /\ (e => f /\ q.next = r.next)

LEMMA HonestLater ==
  ASSUME NEW r, NEW e, NEW q, NEW f, Onward(r, e, q, f),
         NEW item \in Items, Honest(item, r, e)
  PROVE  Honest(item, q, f)
BY DEF Honest, Items, Onward, GoesOn

LEMMA TruthfulLater ==
  ASSUME NEW r, NEW e, NEW q, NEW f, Onward(r, e, q, f),
         NEW s \in Seq(Frames), AllTruthful(s, r, e)
  PROVE  AllTruthful(s, q, f)
<1> SUFFICES ASSUME NEW i \in 1..Len(s) PROVE Truthful(s[i], q, f)
  BY DEF AllTruthful
<1>1. s[i] \in Frames /\ Truthful(s[i], r, e)
  BY DEF AllTruthful
<1>2. s[i].op \in {"slice", "list", "touched"} => s[i].item \in Items
  BY <1>1, FrameKinds, ResponseKinds
<1> QED BY <1>1, <1>2, HonestLater DEF Truthful, Onward

LEMMA ResponsesAreFrames ==
  ASSUME NEW s \in Seq(Responses)
  PROVE  s \in Seq(Frames)
<1>1. Responses \subseteq Frames
  BY DEF Frames
<1> QED BY <1>1

LEMMA ExpectedLater ==
  ASSUME NEW r, NEW e, NEW q, NEW f, Onward(r, e, q, f), NEW d \in Entries \cup {None},
         NEW s, NEW n, NEW h,
         \A i \in 1..Len(s) : s[i].op = "slice" => s[i].slice \in Slice,
         AllExpected(s, n, h, d, r)
  PROVE  AllExpected(s, n, h, d, q)
<1> SUFFICES ASSUME NEW i \in Awaited(s, n) PROVE Expected(s[i], h, d, q)
  BY DEF AllExpected
<1>1. Expected(s[i], h, d, r) /\ i \in 1..Len(s)
  BY DEF AllExpected, Awaited
<1>2. s[i].op = "slice" => d \in Entries /\ d.cursor \in Nat
  BY <1>1, EntryFields DEF Expected
<1>3. s[i].op = "slice" => Continues(s[i].slice, q, d.cursor)
  BY <1>1, <1>2, ContinuesLater DEF Expected, Onward
<1> QED BY <1>1, <1>3 DEF Expected

LEMMA FetchingLater ==
  ASSUME NEW r, NEW e, NEW q, NEW f, Onward(r, e, q, f), NEW d \in Entries \cup {None},
         NEW rq \in Seq(Requests), NEW ch \in Seq(Frames), NEW rs \in Seq(Responses),
         NEW n, NEW h, Fetching(d, rq, ch, rs, n, h, r, e)
  PROVE  Fetching(d, rq, ch, rs, n, h, q, f)
<1>1. Pending(d, q, f)
  BY DEF Fetching, Pending, Onward
<1>2. Askable(rq, n, q)
  <2> SUFFICES ASSUME NEW i \in 1..Len(rq), rq[i].op = "attach"
               PROVE  rq[i].of <= n /\ rq[i].cursor <= q.next
    BY DEF Askable
  <2>1. rq[i] \in Requests
    OBVIOUS
  <2>2. rq[i].of <= n /\ rq[i].cursor <= r.next /\ rq[i].cursor \in Nat
    BY <2>1, RequestKinds DEF Fetching, Askable
  <2> QED BY <2>2 DEF Onward, GoesOn
<1>3. ASSUME NEW i \in 1..Len(rq), rq[i].op = "slice" PROVE FALSE
  <2>1. rq[i] \in Requests
    OBVIOUS
  <2> QED BY <1>3, <2>1, RequestKinds
<1>4. ASSUME NEW s \in Seq(Frames), NEW i \in 1..Len(s), s[i].op = "slice"
      PROVE  s[i].slice \in Slice
  <2>1. s[i] \in Frames
    OBVIOUS
  <2> QED BY <1>4, <2>1, FrameKinds, ResponseKinds
<1>5. AllExpected(rq, n, h, d, q) /\ AllExpected(ch, n, h, d, q) /\ AllExpected(rs, n, h, d, q)
  BY <1>3, <1>4, ResponsesAreFrames, ExpectedLater DEF Fetching
<1> QED BY <1>1, <1>2, <1>5 DEF Fetching

LEMMA PresentingLater ==
  ASSUME NEW r, NEW e, NEW q, NEW f, Onward(r, e, q, f), NEW d \in Entries \cup {None},
         NEW tw \in Seq(ToWindow), NEW tm, NEW w, NEW h, NEW rd, NEW c \in Nat,
         Presenting(d, tw, tm, w, h, rd, c, r, e)
  PROVE  Presenting(d, tw, tm, w, h, rd, c, q, f)
<1>1. Loading(d, tw, tm, w, h, rd, c, q)
  <2>1. d # None /\ ~rd => d.cursor <= q.oldest
    BY EntryFields DEF Presenting, Loading, Onward, GoesOn
  <2> QED BY <2>1 DEF Presenting, Loading
<1>2. ASSUME Sending(d, tw, tm, c, r) PROVE Sending(d, tw, tm, c, q)
  <2>1. Len(tw) = 1 /\ tw[1].op = "data"
    BY <1>2 DEF Sending
  <2>2. tw[1] \in ToWindow
    BY SMTT(60), <2>1
  <2>3. Continues(tw[1].slice, q, c)
    BY <1>2, <2>1, <2>2, ToWindowKinds, ContinuesLater DEF Sending, Onward
  <2> QED BY <1>2, <2>3 DEF Sending
<1>3. ExitLast(tw, rd, c, q, f)
  BY DEF Presenting, ExitLast, Onward
<1> QED BY <1>1, <1>2, <1>3 DEF Presenting

LEMMA ShowsLater ==
  ASSUME Shows, Onward(ring, ended, ring', ended'), shown \in Seq(Int), outputCursor \in Nat,
         shown' = shown, outputCursor' = outputCursor, told' = told, window' = window
  PROVE  Shows'
<1>1. UpTo(shown, outputCursor, ring')
  BY UpToLater DEF Shows, Onward
<1>2. outputCursor <= ring'.next
  BY DEF Shows, Onward, GoesOn
<1> QED BY <1>1, <1>2 DEF Shows, Onward

LEMMA RingFacts ==
  ASSUME RingInv
  PROVE  /\ ring.next \in Nat /\ ring.oldest \in Nat /\ ring.oldest <= ring.next
         /\ ring.next > 0 => ring.oldest < ring.next
         /\ GoesOn(ring, ring)
<1>1. /\ ring.next \in Nat /\ ring.oldest \in Nat /\ ring.oldest <= ring.next
      /\ ring.oldest = Larger(0, ring.next - RingBytes)
  BY NewestType DEF RingInv, Newest
<1>2. ring.next > 0 => ring.oldest < ring.next
  BY <1>1, RingAssumption DEF Larger
<1> QED BY <1>1, <1>2 DEF GoesOn

-----------------------------------------------------------------------------
(* Every step keeps the invariant: the daemon's.                           *)

\* The terminal has more output, or ends.
LEMMA GrownKeeps ==
  ASSUME WindowInv, RingInv', Onward(ring, ended, ring', ended'), ~ended,
         NEW m \in Growths, Say(m), Truthful(m, ring', ended'),
         UNCHANGED <<touched, requests, resolved, link, drops, main, tab, messages>>
  PROVE  WindowInv'
<1> USE DEF WindowInv
<1>1. /\ requests' = requests /\ resolved' = resolved /\ link' = link
      /\ inventory' = inventory /\ handler' = handler /\ listed' = listed
      /\ delivery' = delivery /\ ready' = ready /\ window' = window
      /\ outputCursor' = outputCursor /\ shown' = shown /\ told' = told
      /\ reloads' = reloads /\ toWindow' = toWindow /\ toMain' = toMain
      /\ sequence' = sequence /\ touched' = touched
  BY DEF main, tab, messages
<1>2. m \in Frames /\ m.op \in {"output", "exit"}
  BY DEF Frames, Events, Growths
<1>3. channel' = channel \/ channel' = Append(channel, m)
  BY DEF Say
<1>4. channel \in Seq(Frames) /\ channel' \in Seq(Frames)
  <2>1. channel \in Seq(Frames)
    BY DEF WindowType
  <2>2. Append(channel, m) \in Seq(Frames)
    BY <1>2, <2>1, Added
  <2> QED BY <1>3, <2>1, <2>2
<1>5. WindowType'
  BY <1>1, <1>4 DEF WindowType, Onward
<1>6. OnItsWay'
  <2>1. AllTruthful(channel, ring', ended') /\ AllTruthful(resolved, ring', ended')
    BY TruthfulLater, ResponsesAreFrames DEF OnItsWay, WindowType
  <2>2. AllTruthful(channel', ring', ended')
    BY <1>2, <1>3, <1>4, <2>1, AddedFacts
  <2>3. \A i \in 1..Len(channel) : ~Final(channel[i])
    BY DEF OnItsWay, AllTruthful, Truthful, Honest, Final
  <2>4. FinalLast(channel')
    BY <1>2, <1>3, <1>4, <2>3, AddedFacts DEF OnItsWay
  <2>5. ~inventory.final
    BY DEF OnItsWay, Honest
  <2>6. Honest(inventory, ring', ended')
    BY HonestLater DEF OnItsWay, WindowType
  <2>7. handler = "control" => Honest(listed, ring', ended')
    BY HonestLater DEF OnItsWay, WindowType
  <2> QED BY <1>1, <2>1, <2>2, <2>4, <2>5, <2>6, <2>7 DEF OnItsWay
<1>7. FetchInv'
  <2>1. Fetching(delivery, requests, channel, resolved, reloads, handler, ring', ended')
    BY FetchingLater DEF FetchInv, WindowType
  <2>2. ~Awaits(m, reloads) /\ m.op # "slice"
    BY <1>2 DEF Awaits
  <2>3. Awaited(channel', reloads) = Awaited(channel, reloads)
    <3>1. Awaited(Append(channel, m), reloads) = Awaited(channel, reloads)
      BY <1>2, <1>4, <2>2, AddedAwaited
    <3> QED BY <1>3, <3>1
  <2>4. AllExpected(channel', reloads, handler, delivery, ring') /\ Recent(channel', reloads)
    BY <1>2, <1>3, <1>4, <2>1, <2>2, AddedFacts DEF Fetching
  <2>5. Single(requests, channel', resolved, reloads)
    BY <2>1, <2>3 DEF Fetching, Single
  <2> QED BY <1>1, <2>1, <2>4, <2>5 DEF FetchInv, Fetching
<1>8. PresentInv'
  <2>1. Presenting(delivery, toWindow, toMain, window, handler, ready, outputCursor,
                   ring', ended')
    BY PresentingLater DEF PresentInv, WindowType
  <2> QED BY <1>1, <2>1 DEF PresentInv
<1>9. Shows'
  BY <1>1, ShowsLater DEF WindowType
<1> QED BY <1>5, <1>6, <1>7, <1>8, <1>9

LEMMA OutputKeeps ==
  ASSUME WindowInv, Output
  PROVE  WindowInv'
<1> DEFINE m == [op |-> "output", next |-> ring'.next]
<1>1. PICK n \in Chunks : ring' = AppendOutput(ring, n)
  BY DEF Output
<1>2. n \in Nat
  BY WindowAssumption
<1>3. RingInv' /\ GoesOn(ring, ring')
  <2>1. /\ Newest(AppendOutput(ring, n)) /\ AppendOutput(ring, n).next = ring.next + n
        /\ ring.oldest <= AppendOutput(ring, n).oldest
    BY <1>2, AppendNewest DEF WindowInv, RingInv
  <2>2. Newest(ring') /\ ring'.next = ring.next + n /\ ring.oldest <= ring'.oldest
    BY <1>1, <2>1
  <2>3. ring'.next \in Nat /\ ring'.oldest \in Nat
    BY <2>2, NewestType
  <2> QED BY <1>2, <2>2, <2>3, RingFacts DEF RingInv, GoesOn, WindowInv
<1>4. ~ended /\ ended' = ended /\ Say(m)
      /\ UNCHANGED <<touched, requests, resolved, link, drops, main, tab, messages>>
  BY DEF Output
<1>5. m \in Growths /\ Truthful(m, ring', ended')
  BY <1>3 DEF Growths, GoesOn, Truthful
<1>6. Onward(ring, ended, ring', ended')
  BY <1>3, <1>4 DEF Onward, WindowInv, WindowType
<1> HIDE DEF m
<1> QED BY <1>3, <1>4, <1>5, <1>6, GrownKeeps

LEMMA EndKeeps ==
  ASSUME WindowInv, End
  PROVE  WindowInv'
<1> DEFINE m == [op |-> "exit", next |-> ring.next]
<1>1. /\ ~ended /\ ended' = TRUE /\ ring' = ring /\ Say(m)
      /\ UNCHANGED <<touched, requests, resolved, link, drops, main, tab, messages>>
  BY DEF End
<1>2. m \in Growths /\ Truthful(m, ring', ended')
  BY <1>1, RingFacts DEF WindowInv, Growths, Truthful
<1>3. Onward(ring, ended, ring', ended')
  BY <1>1, RingFacts DEF Onward, WindowInv, WindowType
<1>4. RingInv'
  BY <1>1 DEF WindowInv, RingInv
<1> HIDE DEF m
<1> QED BY <1>1, <1>2, <1>3, <1>4, GrownKeeps

\* The terminal changes after its end.
LEMMA TouchKeeps ==
  ASSUME WindowInv, Touch
  PROVE  WindowInv'
<1> DEFINE item == [Item EXCEPT !.sequence = touched + 1]
           m == [op |-> "touched", item |-> item]
<1>1. /\ ended /\ touched' = touched + 1 /\ ring' = ring /\ ended' = ended
      /\ requests' = requests /\ resolved' = resolved /\ link' = link
      /\ inventory' = inventory /\ handler' = handler /\ listed' = listed
      /\ delivery' = delivery /\ ready' = ready /\ window' = window
      /\ outputCursor' = outputCursor /\ shown' = shown /\ told' = told
      /\ reloads' = reloads /\ toWindow' = toWindow /\ toMain' = toMain
      /\ sequence' = sequence /\ (channel' = channel \/ channel' = Append(channel, m))
  BY DEF Touch, Say, main, tab, messages
<1>2. /\ WindowType /\ OnItsWay /\ channel \in Seq(Frames) /\ touched \in Nat
      /\ ring.next \in Nat /\ ring.oldest \in Nat
      /\ Fetching(delivery, requests, channel, resolved, reloads, handler, ring, ended)
  BY RingFacts DEF WindowInv, WindowType, FetchInv
<1>3. item \in Items /\ Honest(item, ring, ended)
  <2>1. item = [next |-> ring.next, oldest |-> ring.oldest, final |-> ended,
                sequence |-> touched + 1]
    BY DEF Item
  <2>2. ended \in BOOLEAN /\ ended /\ touched + 1 \in Nat
    BY <1>1, <1>2 DEF WindowType
  <2> HIDE DEF item
  <2>3. /\ item.next = ring.next /\ item.oldest = ring.oldest
        /\ item.oldest <= ring.oldest
    BY <2>1, <1>2
  <2>4. item \in Items
    BY <2>1, <2>2, <1>2 DEF Items
  <2> QED BY <2>2, <2>3, <2>4 DEF Honest
<1> HIDE DEF item
<1>4. m \in Frames /\ m.op = "touched" /\ m.item = item
  BY <1>3 DEF Frames, Events, Touches
<1> HIDE DEF m
<1>5. Truthful(m, ring, ended) /\ ~Awaits(m, reloads)
  BY <1>3, <1>4 DEF Truthful, Awaits
<1>6. /\ Append(channel, m) \in Seq(Frames)
      /\ Awaited(Append(channel, m), reloads) = Awaited(channel, reloads)
  BY <1>2, <1>4, <1>5, Added, AddedAwaited
<1>7. /\ AllTruthful(Append(channel, m), ring, ended) /\ FinalLast(Append(channel, m))
      /\ NoOutput(channel) => NoOutput(Append(channel, m))
      /\ AllExpected(Append(channel, m), reloads, handler, delivery, ring)
      /\ Recent(Append(channel, m), reloads)
  BY <1>2, <1>4, <1>5, AddedFacts DEF OnItsWay, Fetching
<1>8. Fetching(delivery, requests, Append(channel, m), resolved, reloads, handler, ring, ended)
  BY <1>2, <1>6, <1>7 DEF Fetching, Single
<1>9. WindowType'
  <2>1. touched' \in Nat /\ channel' \in Seq(Frames)
    BY <1>1, <1>2, <1>6
  <2> QED BY <1>1, <1>2, <2>1, ZenonT(60) DEF WindowType
<1>10. OnItsWay'
  BY <1>1, <1>2, <1>7 DEF OnItsWay
<1>11. FetchInv'
  BY <1>1, <1>2, <1>8 DEF FetchInv
<1> QED BY <1>1, <1>9, <1>10, <1>11 DEF WindowInv, RingInv, PresentInv, Shows

\* What the daemon answers.
LEMMA AnswerFits ==
  ASSUME WindowInv, Serve
  PROVE  /\ requests # <<>> /\ requests' = Tail(requests)
         /\ \E m \in Responses :
              /\ Say(m) /\ Truthful(m, ring, ended) /\ (m.op = "slice" => m.of <= reloads)
              /\ Awaits(m, reloads) => /\ Awaits(Head(requests), reloads)
                                       /\ Expected(m, handler, delivery, ring)
<1> DEFINE q == Head(requests)
<1>1. requests # <<>> /\ requests' = Tail(requests)
  BY DEF Serve
<1>2. requests \in Seq(Requests) /\ ended \in BOOLEAN /\ RingInv
      /\ ring.next \in Nat /\ ring.oldest \in Nat
  BY RingFacts DEF WindowInv, WindowType
<1>3. q \in Requests
  BY <1>1, <1>2, Removed
<1>4. /\ q.op = "attach" => q.of <= reloads /\ q.cursor <= ring.next
      /\ Awaits(q, reloads) => Expected(q, handler, delivery, ring)
  BY <1>1, <1>2, RemovedFacts DEF WindowInv, FetchInv, Fetching
<1>5. Item \in Items /\ Honest(Item, ring, ended)
  BY <1>2 DEF Items, Item, Honest, WindowInv, WindowType
<1>6. CASE q.op = "attach"
  <2> DEFINE s == OutputSlice(ring, q.cursor)
             m == [op |-> "slice", of |-> q.of, item |-> Item, slice |-> s,
                   truncated |-> q.cursor < ring.oldest]
  <2>1. Say(m)
    BY <1>6 DEF Serve
  <2>2. q.of \in Nat /\ q.cursor \in Nat /\ q.cursor <= ring.next /\ q.of <= reloads
    BY <1>3, <1>4, <1>6, RequestKinds
  <2>3. /\ s \in Slice /\ Continues(s, ring, q.cursor)
        /\ q.cursor < ring.oldest => s.end # q.cursor
    BY <1>2, <2>2, SliceContinues DEF RingInv
  <2> HIDE DEF s
  <2>4. /\ m \in Slices /\ m.op = "slice" /\ m.of = q.of /\ m.item = Item /\ m.slice = s
        /\ m.truncated = (q.cursor < ring.oldest)
    BY <1>5, <2>2, <2>3 DEF Slices
  <2> HIDE DEF m
  <2>5. Awaits(m, reloads) => /\ Awaits(q, reloads)
                              /\ Expected(m, handler, delivery, ring)
    BY <1>4, <1>6, <2>3, <2>4 DEF Awaits, Expected
  <2>6. m \in Responses /\ Truthful(m, ring, ended)
    BY <1>5, <2>4 DEF Responses, Truthful
  <2> QED BY <1>1, <2>1, <2>2, <2>4, <2>5, <2>6
<1>7. CASE q.op = "list"
  <2> DEFINE m == [op |-> "list", to |-> q.to, item |-> Item]
  <2>1. Say(m)
    BY <1>7 DEF Serve
  <2>2. q.to \in {"window", "connect"}
    BY <1>3, <1>7, RequestKinds
  <2>3. m \in Lists /\ m.op = "list" /\ m.to = q.to /\ m.item = Item
    BY <1>5, <2>2 DEF Lists
  <2> HIDE DEF m
  <2>4. Awaits(m, reloads) => /\ Awaits(q, reloads)
                              /\ Expected(m, handler, delivery, ring)
    BY <1>4, <1>7, <2>3 DEF Awaits, Expected
  <2>5. m \in Responses /\ Truthful(m, ring, ended)
    BY <1>5, <2>3 DEF Responses, Truthful
  <2> QED BY <1>1, <2>1, <2>3, <2>4, <2>5
<1> QED BY <1>3, <1>6, <1>7, RequestKinds

LEMMA ServeKeeps ==
  ASSUME WindowInv, Serve
  PROVE  WindowInv'
<1>1. /\ ring' = ring /\ ended' = ended /\ resolved' = resolved /\ link' = link
      /\ inventory' = inventory /\ handler' = handler /\ listed' = listed
      /\ delivery' = delivery /\ ready' = ready /\ window' = window
      /\ outputCursor' = outputCursor /\ shown' = shown /\ told' = told
      /\ reloads' = reloads /\ toWindow' = toWindow /\ toMain' = toMain
      /\ sequence' = sequence /\ touched' = touched
  BY DEF Serve, daemon, main, tab, messages
<1>2. /\ WindowType /\ OnItsWay /\ requests \in Seq(Requests) /\ channel \in Seq(Frames)
      /\ Fetching(delivery, requests, channel, resolved, reloads, handler, ring, ended)
  BY DEF WindowInv, WindowType, FetchInv
<1>3. requests # <<>> /\ requests' = Tail(requests)
  BY AnswerFits
<1>4. PICK m \in Responses :
        /\ Say(m) /\ Truthful(m, ring, ended) /\ (m.op = "slice" => m.of <= reloads)
        /\ Awaits(m, reloads) => /\ Awaits(Head(requests), reloads)
                                 /\ Expected(m, handler, delivery, ring)
  BY AnswerFits
<1>5. m \in Frames /\ m.op # "output"
  BY ResponseKinds
<1>6. channel' = channel \/ channel' = Append(channel, m)
  BY <1>4 DEF Say
<1>7. Append(channel, m) \in Seq(Frames) /\ Tail(requests) \in Seq(Requests)
  BY <1>2, <1>3, <1>5, Added, Removed
<1>8. WindowType'
  BY ZenonT(60), <1>1, <1>2, <1>3, <1>6, <1>7 DEF WindowType
<1>9. OnItsWay'
  <2>1. /\ AllTruthful(Append(channel, m), ring, ended)
        /\ FinalLast(Append(channel, m))
        /\ NoOutput(channel) => NoOutput(Append(channel, m))
    BY <1>2, <1>4, <1>5, AddedFacts DEF OnItsWay
  <2> QED BY <1>1, <1>2, <1>6, <2>1 DEF OnItsWay
<1>10. FetchInv'
  <2>1. /\ Single(Tail(requests), Append(channel, m), resolved, reloads)
        /\ Single(Tail(requests), channel, resolved, reloads)
    BY <1>2, <1>3, <1>4, <1>5, ServedSingle DEF Fetching
  <2>2. /\ Askable(Tail(requests), reloads, ring)
        /\ AllExpected(Tail(requests), reloads, handler, delivery, ring)
    BY <1>2, <1>3, RemovedFacts DEF Fetching
  <2>3. /\ Recent(Append(channel, m), reloads)
        /\ AllExpected(Append(channel, m), reloads, handler, delivery, ring)
    BY <1>2, <1>4, <1>5, AddedFacts DEF Fetching
  <2>4. /\ Fetching(delivery, Tail(requests), Append(channel, m), resolved, reloads, handler,
                    ring, ended)
        /\ Fetching(delivery, Tail(requests), channel, resolved, reloads, handler, ring, ended)
    BY <1>2, <2>1, <2>2, <2>3 DEF Fetching
  <2> QED BY <1>1, <1>3, <1>6, <2>4 DEF FetchInv
<1> QED BY <1>1, <1>8, <1>9, <1>10 DEF WindowInv, RingInv, PresentInv, Shows

-----------------------------------------------------------------------------
(* The main process: events and responses.                                 *)

\* An entry that differs in the exit that it holds back, or is told of it.
LEMMA ToldEntry ==
  ASSUME NEW d \in Entries, NEW item \in Items, NEW rq, NEW ch, NEW rs, NEW n, NEW h,
         NEW r, NEW e, Fetching(d, rq, ch, rs, n, h, r, e), item.final, Honest(item, r, e),
         NEW tw, NEW tm, NEW w, NEW rd, NEW c, Presenting(d, tw, tm, w, h, rd, c, r, e)
  PROVE  /\ HoldExit(d, item) \in Entries
         /\ Fetching(HoldExit(d, item), rq, ch, rs, n, h, r, e)
         /\ Presenting(HoldExit(d, item), tw, tm, w, h, rd, c, r, e)
<1> DEFINE x == HoldExit(d, item)
<1>0. d # None /\ item.next \in Nat /\ item.sequence \in Nat /\ e /\ item.next = r.next
  BY EntryFields DEF Items, Honest
<1>1. /\ x \in Entries /\ x.of = d.of /\ x.cursor = d.cursor /\ x.inFlight = d.inFlight
      /\ x.pumping = d.pumping /\ x.pendingExit = item.next
  BY <1>0 DEF HoldExit, Entries
<1> HIDE DEF x
<1>2. d # None /\ x # None
  BY <1>1, EntryFields
<1>3. \A m : Expected(m, h, d, r) => Expected(m, h, x, r)
  BY <1>1, <1>2 DEF Expected
<1>4. \A s : AllExpected(s, n, h, d, r) => AllExpected(s, n, h, x, r)
  BY <1>3 DEF AllExpected
<1>5. Fetching(x, rq, ch, rs, n, h, r, e)
  BY <1>0, <1>1, <1>2, <1>4 DEF Fetching, Pending
<1>6. Loading(x, tw, tm, w, h, rd, c, r)
  BY <1>1, <1>2 DEF Presenting, Loading
<1>7. /\ Idle(d, tw, tm, c) => Idle(x, tw, tm, c)
      /\ Sending(d, tw, tm, c, r) => Sending(x, tw, tm, c, r)
      /\ Acknowledging(d, tw, tm, c) => Acknowledging(x, tw, tm, c)
  BY <1>1 DEF Idle, Sending, Acknowledging
<1>8. Presenting(x, tw, tm, w, h, rd, c, r, e)
  BY <1>6, <1>7 DEF Presenting
<1> QED BY <1>1, <1>5, <1>8 DEF x

\* The first frame is handled, and is no response.
LEMMA EventTaken ==
  ASSUME WindowInv, channel # <<>>
  PROVE  /\ Tail(channel) \in Seq(Frames) /\ Head(channel) \in Frames
         /\ AllTruthful(Tail(channel), ring, ended) /\ Truthful(Head(channel), ring, ended)
         /\ FinalLast(Tail(channel)) /\ (Final(Head(channel)) => NoOutput(Tail(channel)))
         /\ NoOutput(channel) => NoOutput(Tail(channel)) /\ Head(channel).op # "output"
         /\ Fetching(delivery, requests, Tail(channel), resolved, reloads, handler,
                     ring, ended)
<1>1. /\ channel \in Seq(Frames) /\ resolved \in Seq(Responses)
      /\ AllTruthful(channel, ring, ended) /\ FinalLast(channel)
      /\ Fetching(delivery, requests, channel, resolved, reloads, handler, ring, ended)
  BY DEF WindowInv, WindowType, OnItsWay, FetchInv
<1>2. Tail(channel) \in Seq(Frames) /\ Head(channel) \in Frames
  BY <1>1, Removed
<1>3. /\ AllTruthful(Tail(channel), ring, ended) /\ Truthful(Head(channel), ring, ended)
      /\ FinalLast(Tail(channel)) /\ (Final(Head(channel)) => NoOutput(Tail(channel)))
      /\ NoOutput(channel) => NoOutput(Tail(channel)) /\ Head(channel).op # "output"
      /\ AllExpected(Tail(channel), reloads, handler, delivery, ring)
      /\ Recent(Tail(channel), reloads)
  BY <1>1, RemovedFacts DEF Fetching
<1>4. Single(requests, Tail(channel), resolved, reloads)
  BY <1>1, HandledSingle DEF Fetching
<1> QED BY <1>1, <1>2, <1>3, <1>4 DEF Fetching

\* An event wakes the pump for the entry d.
LEMMA EventKeeps ==
  ASSUME WindowInv, channel # <<>>, channel' = Tail(channel),
         UNCHANGED <<daemon, resolved, link, drops, handler, listed, ready, tab, toMain>>,
         sequence' = sequence, NEW d \in Entries \cup {None}, Pump(d, ready),
         Fetching(d, requests, Tail(channel), resolved, reloads, handler, ring, ended),
         Presenting(d, toWindow, toMain, window, handler, ready, outputCursor, ring, ended),
         inventory' \in Items, Honest(inventory', ring, ended),
         inventory'.final => NoOutput(Tail(channel))
  PROVE  WindowInv'
<1>1. /\ ring' = ring /\ ended' = ended /\ resolved' = resolved /\ link' = link
      /\ handler' = handler /\ listed' = listed /\ ready' = ready /\ window' = window
      /\ outputCursor' = outputCursor /\ shown' = shown /\ told' = told
      /\ reloads' = reloads /\ toMain' = toMain /\ touched' = touched
  BY DEF daemon, tab
<1>2. /\ WindowType /\ OnItsWay /\ Shows /\ requests \in Seq(Requests)
      /\ toWindow \in Seq(ToWindow) /\ ready \in BOOLEAN /\ reloads \in Nat
      /\ sequence \in Nat
      /\ outputCursor \in Nat /\ ring.next \in Nat /\ outputCursor <= ring.next
  BY RingFacts DEF WindowInv, WindowType, Shows
<1>3. /\ delivery' \in Entries \cup {None} /\ requests' \in Seq(Requests)
      /\ toWindow' \in Seq(ToWindow)
      /\ Fetching(delivery', requests', Tail(channel), resolved, reloads, handler, ring, ended)
      /\ Presenting(delivery', toWindow', toMain, window, handler, ready, outputCursor,
                    ring, ended)
  BY <1>2, PumpKeeps
<1>4. Tail(channel) \in Seq(Frames) /\ AllTruthful(Tail(channel), ring, ended)
      /\ FinalLast(Tail(channel))
  BY EventTaken
<1>5. WindowType'
  BY <1>1, <1>2, <1>3, <1>4 DEF WindowType
<1>6. OnItsWay'
  BY <1>1, <1>2, <1>4 DEF OnItsWay
<1> QED BY <1>1, <1>3, <1>5, <1>6 DEF WindowInv, RingInv, FetchInv, PresentInv, Shows

LEMMA OutputAvailableKeeps ==
  ASSUME WindowInv, OnOutputAvailable
  PROVE  WindowInv'
<1> DEFINE f == Head(channel)
<1>1. /\ channel # <<>> /\ f.op = "output" /\ channel' = Tail(channel)
      /\ UNCHANGED <<daemon, resolved, link, drops, handler, listed, ready, tab, toMain>>
      /\ inventory' = [inventory EXCEPT !.next = f.next] /\ Pump(delivery, ready)
      /\ sequence' = sequence
  BY DEF OnOutputAvailable, Event
<1>2. /\ delivery \in Entries \cup {None} /\ inventory \in Items
      /\ Honest(inventory, ring, ended) /\ (inventory.final => NoOutput(channel))
      /\ Presenting(delivery, toWindow, toMain, window, handler, ready, outputCursor, ring, ended)
  BY DEF WindowInv, WindowType, OnItsWay, PresentInv
<1>3. f \in Frames /\ (NoOutput(channel) => f.op # "output")
      /\ Fetching(delivery, requests, Tail(channel), resolved, reloads, handler, ring, ended)
  BY <1>1, EventTaken
<1>4. f.next \in Nat
  BY <1>1, <1>3, FrameKinds
<1> HIDE DEF f
<1>5. /\ inventory' \in Items /\ ~inventory'.final /\ Honest(inventory', ring, ended)
  <2>1. ~inventory.final
    BY <1>1, <1>2, <1>3
  <2>2. /\ inventory' \in Items /\ inventory'.final = inventory.final
        /\ inventory'.oldest = inventory.oldest
    BY <1>1, <1>2, <1>4 DEF Items
  <2> QED BY <1>2, <2>1, <2>2 DEF Honest
<1> QED BY <1>1, <1>2, <1>3, <1>5, EventKeeps

LEMMA ExitHeardKeeps ==
  ASSUME WindowInv, OnExit
  PROVE  WindowInv'
<1> DEFINE f == Head(channel)
           d == HoldExit(delivery, inventory')
<1>1. /\ channel # <<>> /\ f.op = "exit" /\ channel' = Tail(channel)
      /\ UNCHANGED <<daemon, resolved, link, drops, handler, listed, ready, tab, toMain>>
      /\ inventory' = [inventory EXCEPT !.next = f.next, !.final = TRUE] /\ Pump(d, ready)
      /\ sequence' = sequence
  BY DEF OnExit, Event
<1>2. /\ delivery \in Entries \cup {None} /\ inventory \in Items
      /\ Honest(inventory, ring, ended)
      /\ Presenting(delivery, toWindow, toMain, window, handler, ready, outputCursor, ring, ended)
  BY DEF WindowInv, WindowType, OnItsWay, PresentInv
<1>3. /\ f \in Frames /\ Truthful(f, ring, ended) /\ (Final(f) => NoOutput(Tail(channel)))
      /\ Fetching(delivery, requests, Tail(channel), resolved, reloads, handler, ring, ended)
  BY <1>1, EventTaken
<1>4. f.next \in Nat /\ ended /\ f.next = ring.next /\ NoOutput(Tail(channel))
  BY <1>1, <1>3, FrameKinds DEF Truthful, Final
<1> HIDE DEF f
<1>5. inventory' \in Items /\ inventory'.final /\ Honest(inventory', ring, ended)
  <2>1. /\ inventory' \in Items /\ inventory'.next = f.next /\ inventory'.final = TRUE
        /\ inventory'.oldest = inventory.oldest
    BY <1>1, <1>2, <1>4 DEF Items
  <2> QED BY <1>2, <1>4, <2>1 DEF Honest
<1>6. /\ d \in Entries \cup {None}
      /\ Fetching(d, requests, Tail(channel), resolved, reloads, handler, ring, ended)
      /\ Presenting(d, toWindow, toMain, window, handler, ready, outputCursor, ring, ended)
  <2>1. CASE delivery = None
    BY <1>2, <1>3, <2>1 DEF HoldExit
  <2>2. CASE delivery \in Entries
    BY <1>2, <1>3, <1>5, <2>2, ToldEntry
  <2> QED BY <1>2, <2>1, <2>2
<1> HIDE DEF d
<1> QED BY <1>1, <1>4, <1>5, <1>6, EventKeeps

LEMMA TouchedKeeps ==
  ASSUME WindowInv, OnTouched
  PROVE  WindowInv'
<1> DEFINE f == Head(channel)
<1>1. /\ channel # <<>> /\ f.op = "touched" /\ channel' = Tail(channel)
      /\ inventory' = f.item
      /\ sequence' = IF ready THEN f.item.sequence ELSE sequence
      /\ ring' = ring /\ ended' = ended /\ touched' = touched /\ requests' = requests
      /\ resolved' = resolved /\ link' = link /\ handler' = handler /\ listed' = listed
      /\ delivery' = delivery /\ ready' = ready /\ window' = window
      /\ outputCursor' = outputCursor /\ shown' = shown /\ told' = told
      /\ reloads' = reloads /\ toWindow' = toWindow /\ toMain' = toMain
  BY DEF OnTouched, Event, daemon, tab
<1>2. WindowType /\ OnItsWay
  BY DEF WindowInv
<1>3. /\ Tail(channel) \in Seq(Frames) /\ f \in Frames
      /\ AllTruthful(Tail(channel), ring, ended) /\ Truthful(f, ring, ended)
      /\ FinalLast(Tail(channel)) /\ (Final(f) => NoOutput(Tail(channel)))
      /\ Fetching(delivery, requests, Tail(channel), resolved, reloads, handler, ring, ended)
  BY <1>1, EventTaken
<1>4. f.item \in Items /\ Honest(f.item, ring, ended)
      /\ (f.item.final => NoOutput(Tail(channel)))
  BY <1>1, <1>3, FrameKinds DEF Truthful, Final
<1> HIDE DEF f
<1>5. sequence' \in Nat
  BY <1>1, <1>2, <1>4 DEF WindowType, Items
<1>6. WindowType'
  BY <1>1, <1>2, <1>3, <1>4, <1>5 DEF WindowType
<1>7. OnItsWay'
  BY <1>1, <1>2, <1>3, <1>4 DEF OnItsWay
<1>8. FetchInv'
  BY <1>1, <1>3 DEF FetchInv
<1> QED BY <1>1, <1>6, <1>7, <1>8 DEF WindowInv, RingInv, PresentInv, Shows

LEMMA ResponseKeeps ==
  ASSUME WindowInv, OnResponse
  PROVE  WindowInv'
<1> DEFINE m == Head(channel)
<1>1. /\ channel # <<>> /\ m.op \in {"slice", "list"}
      /\ channel' = Tail(channel) /\ resolved' = Append(resolved, m)
      /\ inventory' = m.item /\ sequence' = sequence /\ touched' = touched
      /\ ring' = ring /\ ended' = ended /\ requests' = requests /\ link' = link
      /\ handler' = handler /\ listed' = listed /\ delivery' = delivery /\ ready' = ready
      /\ window' = window /\ outputCursor' = outputCursor /\ shown' = shown
      /\ told' = told /\ reloads' = reloads /\ toWindow' = toWindow /\ toMain' = toMain
  BY DEF OnResponse, daemon, tab, messages
<1>2. /\ WindowType /\ OnItsWay /\ channel \in Seq(Frames) /\ resolved \in Seq(Responses)
      /\ Fetching(delivery, requests, channel, resolved, reloads, handler, ring, ended)
  BY DEF WindowInv, WindowType, FetchInv
<1>3. /\ Tail(channel) \in Seq(Frames) /\ m \in Frames
      /\ AllTruthful(Tail(channel), ring, ended) /\ Truthful(m, ring, ended)
      /\ FinalLast(Tail(channel)) /\ (Final(m) => NoOutput(Tail(channel)))
      /\ NoOutput(channel) => NoOutput(Tail(channel))
      /\ Fetching(delivery, requests, Tail(channel), resolved, reloads, handler, ring, ended)
  BY <1>1, EventTaken
<1>4. m \in Responses /\ m.item \in Items
  BY <1>1, <1>3, FrameKinds, ResponseKinds
<1>5. /\ (Awaits(m, reloads) => Expected(m, handler, delivery, ring))
      /\ (m.op = "slice" => m.of <= reloads)
      /\ Single(requests, Tail(channel), Append(resolved, m), reloads)
  BY <1>1, <1>2, <1>4, RemovedFacts, HandledSingle DEF Fetching
<1> HIDE DEF m
<1>6. /\ Append(resolved, m) \in Seq(Responses)
      /\ AllTruthful(Append(resolved, m), ring, ended)
      /\ AllExpected(Append(resolved, m), reloads, handler, delivery, ring)
      /\ Recent(Append(resolved, m), reloads)
  BY <1>2, <1>3, <1>4, <1>5, Added, AddedFacts DEF OnItsWay, Fetching
<1>7. /\ inventory' \in Items /\ Honest(inventory', ring, ended)
      /\ inventory'.final => NoOutput(Tail(channel))
  BY <1>1, <1>3, <1>4 DEF Truthful, Final
<1>8. WindowType'
  BY <1>1, <1>2, <1>3, <1>6, <1>7 DEF WindowType
<1>9. OnItsWay'
  BY <1>1, <1>2, <1>3, <1>6, <1>7 DEF OnItsWay
<1>10. FetchInv'
  BY <1>1, <1>3, <1>5, <1>6 DEF FetchInv, Fetching
<1> QED BY <1>1, <1>8, <1>9, <1>10 DEF WindowInv, RingInv, PresentInv, Shows

-----------------------------------------------------------------------------
(* The main process: those who waited for a response.                      *)

LEMMA ResponseTaken ==
  ASSUME WindowInv, resolved # <<>>
  PROVE  /\ Tail(resolved) \in Seq(Responses) /\ Head(resolved) \in Responses
         /\ AllTruthful(Tail(resolved), ring, ended)
         /\ Truthful(Head(resolved), ring, ended)
         /\ Fetching(delivery, requests, channel, Tail(resolved), reloads, handler,
                     ring, ended)
         /\ Awaits(Head(resolved), reloads) =>
              /\ Expected(Head(resolved), handler, delivery, ring)
              /\ Nobody(requests, channel, Tail(resolved), reloads)
<1>1. /\ resolved \in Seq(Responses) /\ AllTruthful(resolved, ring, ended)
      /\ Fetching(delivery, requests, channel, resolved, reloads, handler, ring, ended)
  BY DEF WindowInv, WindowType, OnItsWay, FetchInv
<1>2. Tail(resolved) \in Seq(Responses) /\ Head(resolved) \in Responses
  BY <1>1, Removed
<1>3. /\ AllTruthful(Tail(resolved), ring, ended) /\ Truthful(Head(resolved), ring, ended)
      /\ AllExpected(Tail(resolved), reloads, handler, delivery, ring)
      /\ Recent(Tail(resolved), reloads)
      /\ Awaits(Head(resolved), reloads) => Expected(Head(resolved), handler, delivery, ring)
  BY <1>1, RemovedFacts DEF Fetching
<1>4. /\ Single(requests, channel, Tail(resolved), reloads)
      /\ Awaits(Head(resolved), reloads) =>
           Nobody(requests, channel, Tail(resolved), reloads)
  BY <1>1, ContinuedSingle DEF Fetching
<1> QED BY <1>1, <1>2, <1>3, <1>4 DEF Fetching

\* An entry of a window that is ready.
LEMMA ReadyPresents ==
  ASSUME NEW x \in Entries, NEW tw, NEW tm, NEW c, NEW r, NEW e,
         \/ Idle(x, tw, tm, c) \/ Sending(x, tw, tm, c, r) \/ Acknowledging(x, tw, tm, c),
         ExitLast(tw, TRUE, c, r, e)
  PROVE  Presenting(x, tw, tm, "ready", "no", TRUE, c, r, e)
<1>1. x # None
  BY EntryFields
<1>2. Loading(x, tw, tm, "ready", "no", TRUE, c, r)
  BY <1>1 DEF Loading
<1> QED BY <1>2 DEF Presenting

\* A batch that is not empty goes on behind the cursor of an entry that has not been
\* told the exit.
LEMMA BatchContinues ==
  ASSUME NEW s \in Slice, NEW r, r.next \in Nat, NEW c \in Nat, Continues(s, r, c),
         s.data # <<>> \/ s.end # c
  PROVE  s.end # c /\ c < s.end /\ s.end <= r.next
<1>1. s.end \in Nat /\ s.next \in Nat /\ s.end <= s.next /\ s.next <= r.next
  BY DEF Slice, Continues
<1>2. PICK from \in c..s.end : s.data = Interval(from, s.end)
  BY DEF Continues
<1>3. s.end = c => from = c
  BY <1>1, <1>2
<1>4. Interval(c, c) = <<>>
  BY IntervalProperties
<1>5. s.end # c
  BY <1>2, <1>3, <1>4
<1> QED BY <1>1, <1>2, <1>5

\* What the pump does with a batch for the present entry.
LEMMA CurrentBatch ==
  ASSUME WindowInv, OnBatch, IsCurrent(Head(resolved))
  PROVE  /\ delivery' \in Entries /\ toWindow' \in Seq(ToWindow)
         /\ Fetching(delivery', requests, channel, Tail(resolved), reloads, handler,
                     ring, ended)
         /\ Presenting(delivery', toWindow', toMain, window, handler, ready, outputCursor,
                       ring, ended)
<1> DEFINE m == Head(resolved)
           d == [delivery EXCEPT !.pumping = FALSE]
<1>1. resolved # <<>> /\ m.op = "slice" /\ delivery # None /\ delivery.of = m.of /\ ready
  BY DEF OnBatch, Continue, IsCurrent
<1>2. /\ delivery \in Entries /\ toWindow \in Seq(ToWindow) /\ outputCursor \in Nat
      /\ reloads \in Nat /\ ring.next \in Nat /\ outputCursor <= ring.next
      /\ sequence \in Nat
      /\ Fetching(delivery, requests, channel, resolved, reloads, handler, ring, ended)
      /\ Presenting(delivery, toWindow, toMain, window, handler, ready, outputCursor, ring, ended)
  BY <1>1, RingFacts DEF WindowInv, WindowType, FetchInv, PresentInv, Shows
<1>3. /\ m \in Responses /\ m.slice \in Slice /\ m.truncated \in BOOLEAN
      /\ Awaits(m, reloads) => /\ Expected(m, handler, delivery, ring)
                               /\ Nobody(requests, channel, Tail(resolved), reloads)
      /\ Fetching(delivery, requests, channel, Tail(resolved), reloads, handler, ring, ended)
  BY <1>1, ResponseTaken, ResponseKinds
<1>4. delivery.of = reloads /\ Awaits(m, reloads)
  BY <1>1, <1>2 DEF Fetching, Awaits
<1>5. /\ delivery.pumping /\ Continues(m.slice, ring, delivery.cursor)
      /\ m.truncated => m.slice.end # delivery.cursor
      /\ Nobody(requests, channel, Tail(resolved), reloads)
  BY <1>1, <1>3, <1>4 DEF Expected
<1>6. window = "ready" /\ handler = "no" /\ Idle(delivery, toWindow, toMain, outputCursor)
      /\ ready = TRUE
  BY <1>1, <1>2, <1>5 DEF Presenting, Loading, Sending, Acknowledging, WindowInv, WindowType
<1>7. delivery.inFlight = None /\ toMain = <<>> /\ outputCursor = delivery.cursor
  BY <1>6 DEF Idle
<1>8. ASSUME NEW x \in Entries, x.of = reloads,
             x.pendingExit = None \/ x.pendingExit = delivery.pendingExit
      PROVE  Fetching(x, requests, channel, Tail(resolved), reloads, handler, ring, ended)
  <2>1. Pending(x, ring, ended)
    BY <1>1, <1>2, <1>8 DEF Fetching, Pending
  <2> QED BY <1>3, <1>5, <1>8, <2>1, NobodySingle DEF Fetching
<1>9. /\ d \in Entries /\ d.of = reloads /\ d.cursor = delivery.cursor /\ d.inFlight = None
      /\ ~d.pumping /\ d.pendingExit = delivery.pendingExit
  BY <1>2, <1>4, <1>7 DEF Entries
<1>10. ExitLast(toWindow, TRUE, outputCursor, ring, ended)
  BY <1>2, <1>6 DEF Presenting
<1>11. \/ /\ m.slice.data # <<>> \/ m.truncated
          /\ delivery' = [d EXCEPT !.inFlight = m.slice.end]
          /\ toWindow' = Append(toWindow,
               [op |-> "data", slice |-> m.slice, truncated |-> m.truncated])
       \/ ExitDue(d) /\ SendExit(d)
       \/ delivery' = d /\ toWindow' = toWindow
  BY DEF OnBatch
<1> HIDE DEF m
<1>12. CASE /\ m.slice.data # <<>> \/ m.truncated
            /\ delivery' = [d EXCEPT !.inFlight = m.slice.end]
            /\ toWindow' = Append(toWindow,
                 [op |-> "data", slice |-> m.slice, truncated |-> m.truncated])
  <2> DEFINE x == [d EXCEPT !.inFlight = m.slice.end]
             b == [op |-> "data", slice |-> m.slice, truncated |-> m.truncated]
  <2> HIDE DEF d
  <2>1. m.slice.end \in Nat
    BY <1>3 DEF Slice
  <2>2. /\ x \in Entries /\ x.of = reloads /\ x.cursor = outputCursor
        /\ x.inFlight = m.slice.end /\ ~x.pumping /\ x.pendingExit = delivery.pendingExit
    BY <1>7, <1>9, <2>1 DEF Entries
  <2>3. /\ b \in ToWindow /\ b.op = "data" /\ b.slice = m.slice
    BY <1>3 DEF ToWindow, Batches
  <2>4. m.slice.end # outputCursor /\ outputCursor < m.slice.end /\ m.slice.end <= ring.next
    BY <1>2, <1>3, <1>5, <1>7, <1>12, BatchContinues
  <2>5. toWindow = <<>>
    <3>1. ASSUME NEW i \in 1..Len(toWindow) PROVE FALSE
      <4>1. toWindow[i].op = "exit"
        BY <1>6 DEF Idle
      <4>2. outputCursor = ring.next
        BY <1>10, <4>1 DEF ExitLast
      <4> QED BY <1>2, <2>1, <2>4, <4>2
    <3>2. Len(toWindow) \in Nat
      BY <1>2, LenProperties
    <3>3. Len(toWindow) = 0
      BY <3>1, <3>2
    <3> QED BY <1>2, <3>3, Nothing
  <2> HIDE DEF b, x
  <2>6. Append(<<>>, b) \in Seq(ToWindow) /\ Len(Append(<<>>, b)) = 1 /\ Append(<<>>, b)[1] = b
    BY <2>3, One
  <2> DEFINE tw == Append(<<>>, b)
  <2>7. Sending(x, tw, toMain, outputCursor, ring)
    <3> HIDE DEF tw
    <3>1. tw[1] = b /\ Len(tw) = 1
      BY <2>6 DEF tw
    <3> QED BY <1>5, <1>7, <2>2, <2>3, <2>4, <3>1 DEF Sending
  <2>8. ExitLast(tw, TRUE, outputCursor, ring, ended)
    <3> HIDE DEF tw
    <3>1. tw[1] = b /\ Len(tw) = 1
      BY <2>6 DEF tw
    <3>2. \A i \in 1..Len(tw) : i = 1
      BY <3>1
    <3> QED BY <2>3, <3>1, <3>2 DEF ExitLast
  <2>9. Presenting(x, tw, toMain, window, handler, ready, outputCursor, ring, ended)
    <3> HIDE DEF tw
    <3> QED BY <1>6, <2>2, <2>7, <2>8, ReadyPresents
  <2>10. Fetching(x, requests, channel, Tail(resolved), reloads, handler, ring, ended)
    BY <1>8, <2>2
  <2>11. delivery' = x /\ toWindow' = tw
    BY <1>12, <2>5 DEF x, b
  <2> QED BY <2>2, <2>6, <2>9, <2>10, <2>11
<1>13. CASE ExitDue(d) /\ SendExit(d)
  <2> DEFINE x == [d EXCEPT !.pendingExit = None]
             b == [op |-> "exit", sequence |-> d.exitSequence, after |-> sequence]
             tw == Append(toWindow, b)
  <2>1. delivery' = x /\ toWindow' = tw /\ ExitDue(d)
    BY <1>13 DEF SendExit
  <2> HIDE DEF d
  <2>2. /\ x \in Entries /\ x.of = reloads /\ x.cursor = outputCursor
        /\ x.inFlight = None /\ ~x.pumping /\ x.pendingExit = None
    BY <1>7, <1>9 DEF Entries
  <2>3. b \in ToWindow /\ b.op = "exit"
    BY <1>2, <1>9, EntryFields DEF ToWindow, Exits
  <2> HIDE DEF b, x
  <2>4. /\ tw \in Seq(ToWindow)
        /\ \A i \in 1..Len(tw) : \/ i \in 1..Len(toWindow) /\ tw[i] = toWindow[i]
                                 \/ tw[i] = b
    BY <1>2, <2>3, Added
  <2> HIDE DEF tw
  <2>5. ended /\ outputCursor = ring.next
    <3>1. delivery.pendingExit # None /\ outputCursor >= delivery.pendingExit
      BY <1>7, <1>9, <2>1 DEF ExitDue
    <3>2. ended /\ delivery.pendingExit = ring.next
      BY <1>1, <1>2, <3>1 DEF Fetching, Pending
    <3> QED BY <1>2, <3>1, <3>2
  <2>6. Idle(x, tw, toMain, outputCursor)
    BY <1>6, <1>7, <2>2, <2>3, <2>4 DEF Idle
  <2>7. ExitLast(tw, TRUE, outputCursor, ring, ended)
    BY <2>5 DEF ExitLast
  <2>8. Presenting(x, tw, toMain, window, handler, ready, outputCursor, ring, ended)
    BY <1>6, <2>2, <2>6, <2>7, ReadyPresents
  <2>9. Fetching(x, requests, channel, Tail(resolved), reloads, handler, ring, ended)
    BY <1>8, <2>2
  <2> QED BY <2>1, <2>2, <2>4, <2>8, <2>9
<1>14. CASE delivery' = d /\ toWindow' = toWindow
  <2> HIDE DEF d
  <2>1. Idle(d, toWindow, toMain, outputCursor)
    BY <1>6, <1>7, <1>9 DEF Idle
  <2>2. Presenting(d, toWindow, toMain, window, handler, ready, outputCursor, ring, ended)
    BY <1>6, <1>9, <1>10, <2>1, ReadyPresents
  <2>3. Fetching(d, requests, channel, Tail(resolved), reloads, handler, ring, ended)
    BY <1>8, <1>9
  <2> QED BY <1>2, <1>9, <1>14, <2>2, <2>3
<1> QED BY <1>11, <1>12, <1>13, <1>14

LEMMA BatchKeeps ==
  ASSUME WindowInv, OnBatch
  PROVE  WindowInv'
<1>1. /\ resolved # <<>> /\ resolved' = Tail(resolved)
      /\ ring' = ring /\ ended' = ended /\ channel' = channel /\ inventory' = inventory
      /\ window' = window /\ outputCursor' = outputCursor /\ shown' = shown
      /\ told' = told /\ reloads' = reloads /\ toMain' = toMain
      /\ requests' = requests /\ link' = link /\ handler' = handler
      /\ listed' = listed /\ ready' = ready /\ sequence' = sequence /\ touched' = touched
  BY DEF OnBatch, Continue, daemon, tab
<1>2. WindowType /\ OnItsWay
  BY DEF WindowInv
<1>3. /\ Tail(resolved) \in Seq(Responses) /\ AllTruthful(Tail(resolved), ring, ended)
      /\ Fetching(delivery, requests, channel, Tail(resolved), reloads, handler, ring, ended)
  BY <1>1, ResponseTaken
<1>4. /\ delivery' \in Entries \cup {None} /\ toWindow' \in Seq(ToWindow)
      /\ Fetching(delivery', requests, channel, Tail(resolved), reloads, handler, ring, ended)
      /\ Presenting(delivery', toWindow', toMain, window, handler, ready, outputCursor,
                    ring, ended)
  <2>1. CASE IsCurrent(Head(resolved))
    BY <2>1, CurrentBatch
  <2>2. CASE ~IsCurrent(Head(resolved))
    <3>1. delivery' = delivery /\ toWindow' = toWindow
      BY <2>2 DEF OnBatch
    <3> QED BY <1>2, <1>3, <3>1 DEF WindowInv, WindowType, PresentInv
  <2> QED BY <2>1, <2>2
<1>5. WindowType'
  BY <1>1, <1>2, <1>3, <1>4 DEF WindowType
<1>6. OnItsWay'
  BY <1>1, <1>2, <1>3 DEF OnItsWay
<1> QED BY <1>1, <1>4, <1>5, <1>6 DEF WindowInv, RingInv, FetchInv, PresentInv, Shows

LEMMA ConnectedKeeps ==
  ASSUME WindowInv, OnConnected
  PROVE  WindowInv'
<1> DEFINE d == IF inventory.final THEN HoldExit(delivery, inventory) ELSE delivery
<1>1. /\ resolved # <<>> /\ resolved' = Tail(resolved) /\ link' = "up" /\ Pump(d, ready)
      /\ ring' = ring /\ ended' = ended /\ channel' = channel /\ inventory' = inventory
      /\ window' = window /\ outputCursor' = outputCursor /\ shown' = shown
      /\ told' = told /\ reloads' = reloads /\ toMain' = toMain
      /\ handler' = handler /\ listed' = listed /\ ready' = ready
      /\ sequence' = sequence /\ touched' = touched
  BY DEF OnConnected, Continue, daemon, tab
<1>2. /\ WindowType /\ OnItsWay /\ Shows /\ requests \in Seq(Requests)
      /\ delivery \in Entries \cup {None} /\ inventory \in Items
      /\ toWindow \in Seq(ToWindow) /\ ready \in BOOLEAN /\ reloads \in Nat
      /\ outputCursor \in Nat /\ ring.next \in Nat /\ outputCursor <= ring.next
      /\ sequence \in Nat /\ Honest(inventory, ring, ended)
      /\ Presenting(delivery, toWindow, toMain, window, handler, ready, outputCursor, ring, ended)
  BY RingFacts DEF WindowInv, WindowType, Shows, OnItsWay, PresentInv
<1>3. /\ Tail(resolved) \in Seq(Responses) /\ AllTruthful(Tail(resolved), ring, ended)
      /\ Fetching(delivery, requests, channel, Tail(resolved), reloads, handler, ring, ended)
  BY <1>1, ResponseTaken
<1>4. /\ d \in Entries \cup {None}
      /\ Fetching(d, requests, channel, Tail(resolved), reloads, handler, ring, ended)
      /\ Presenting(d, toWindow, toMain, window, handler, ready, outputCursor, ring, ended)
  <2>1. CASE inventory.final /\ delivery \in Entries
    BY <1>2, <1>3, <2>1, ToldEntry
  <2>2. CASE inventory.final /\ delivery = None
    BY <1>2, <1>3, <2>2 DEF HoldExit
  <2>3. CASE ~inventory.final
    BY <1>2, <1>3, <2>3
  <2> QED BY <1>2, <2>1, <2>2, <2>3
<1> HIDE DEF d
<1>5. /\ delivery' \in Entries \cup {None} /\ requests' \in Seq(Requests)
      /\ toWindow' \in Seq(ToWindow)
      /\ Fetching(delivery', requests', channel, Tail(resolved), reloads, handler, ring, ended)
      /\ Presenting(delivery', toWindow', toMain, window, handler, ready, outputCursor,
                    ring, ended)
  BY <1>1, <1>2, <1>4, PumpKeeps
<1>6. WindowType'
  BY <1>1, <1>2, <1>3, <1>5 DEF WindowType
<1>7. OnItsWay'
  BY <1>1, <1>2, <1>3 DEF OnItsWay
<1> QED BY <1>1, <1>5, <1>6, <1>7 DEF WindowInv, RingInv, FetchInv, PresentInv, Shows

\* Nothing changes but what the invariant does not speak of.
LEMMA AllKept ==
  ASSUME WindowInv,
         ring' = ring, ended' = ended, requests' = requests, channel' = channel,
         resolved' = resolved, link' = link, inventory' = inventory,
         handler' = handler, listed' = listed, delivery' = delivery,
         ready' = ready, window' = window, outputCursor' = outputCursor,
         shown' = shown, told' = told, reloads' = reloads,
         toWindow' = toWindow, toMain' = toMain, sequence' = sequence, touched' = touched
  PROVE  WindowInv'
<1>1. RingInv' /\ WindowType' /\ OnItsWay'
  BY DEF WindowInv, RingInv, WindowType, OnItsWay
<1>2. FetchInv' /\ PresentInv' /\ Shows'
  BY DEF WindowInv, FetchInv, PresentInv, Shows
<1> QED BY <1>1, <1>2 DEF WindowInv

\* terminal-inventory is complete, nothing is under way any more.
LEMMA AnswerKeeps ==
  ASSUME WindowInv, handler # "no", NEW item \in Items, Honest(item, ring, ended),
         Answer(item), UNCHANGED <<daemon, inventory, ready, tab, toMain>>,
         link' \in {"down", "listing", "up"},
         requests' \in Seq(Requests), channel' \in Seq(Frames), resolved' \in Seq(Responses),
         Nobody(requests', channel', resolved', reloads), Askable(requests', reloads, ring),
         Recent(channel', reloads), Recent(resolved', reloads),
         AllTruthful(channel', ring, ended), AllTruthful(resolved', ring, ended),
         FinalLast(channel'), NoOutput(channel) => NoOutput(channel')
  PROVE  WindowInv'
<1> DEFINE x == Entry(item)
           b == [op |-> "inventory", item |-> item]
<1>1. /\ ring' = ring /\ ended' = ended /\ inventory' = inventory /\ ready' = ready
      /\ window' = window /\ outputCursor' = outputCursor /\ shown' = shown
      /\ told' = told /\ reloads' = reloads /\ toMain' = toMain
      /\ touched' = touched /\ sequence' = item.sequence
      /\ delivery' = x /\ handler' = "no"
      /\ toWindow' = IF window = "asked" THEN Append(toWindow, b) ELSE toWindow
  BY DEF Answer, daemon, tab
<1>2. /\ WindowType /\ OnItsWay /\ Shows /\ reloads \in Nat /\ ready \in BOOLEAN
      /\ toWindow \in Seq(ToWindow)
      /\ Loading(delivery, toWindow, toMain, window, handler, ready, outputCursor, ring)
  BY DEF WindowInv, WindowType, PresentInv, Presenting
<1>3. /\ x \in Entries /\ x.of = reloads /\ x.cursor = item.oldest /\ x.inFlight = None
      /\ ~x.pumping /\ (x.pendingExit # None => item.final /\ x.pendingExit = item.next)
  BY <1>2 DEF Entry, Entries, Items
<1>4. b \in ToWindow /\ b.op = "inventory" /\ b.item = item
  BY DEF ToWindow, Inventories
<1> HIDE DEF x, b
<1>5. /\ window \in {"loading", "asked"} /\ ~ready /\ toWindow = <<>> /\ toMain = <<>>
  BY <1>2 DEF Loading
<1>6. x # None /\ item.oldest <= ring.oldest
  BY <1>3, EntryFields DEF Honest
<1>7. Append(<<>>, b) \in Seq(ToWindow) /\ Len(Append(<<>>, b)) = 1 /\ Append(<<>>, b)[1] = b
  BY <1>4, One
<1>8. WindowType'
  <2>1. item.sequence \in Nat
    BY DEF Items
  <2> QED BY <1>1, <1>2, <1>3, <1>5, <1>7, <2>1 DEF WindowType
<1>9. OnItsWay'
  BY <1>1, <1>2 DEF OnItsWay
<1>10. FetchInv'
  <2>1. Pending(x, ring, ended)
    BY <1>3 DEF Honest, Pending
  <2>2. Fetching(x, requests', channel', resolved', reloads, "no", ring, ended)
    BY <1>3, <2>1, NobodySingle DEF Fetching
  <2> QED BY <1>1, <2>2 DEF FetchInv
<1>11. PresentInv'
  <2> DEFINE tw == IF window = "asked" THEN Append(<<>>, b) ELSE <<>>
  <2>1. /\ window = "asked" => Len(tw) = 1 /\ tw[1].op = "inventory" /\ tw[1].item.oldest = x.cursor
        /\ window = "loading" => tw = <<>>
    BY <1>3, <1>4, <1>7
  <2>2. toWindow' = tw
    BY <1>1, <1>5
  <2> HIDE DEF tw
  <2>3. Loading(x, tw, toMain, window, "no", ready, outputCursor, ring)
    BY <1>3, <1>5, <1>6, <2>1 DEF Loading
  <2>4. Presenting(x, tw, toMain, window, "no", ready, outputCursor, ring, ended)
    BY <1>5, <2>3 DEF Presenting, ExitLast
  <2> QED BY <1>1, <2>2, <2>4 DEF PresentInv
<1> QED BY <1>1, <1>8, <1>9, <1>10, <1>11 DEF WindowInv, RingInv, Shows

LEMMA ListedKeeps ==
  ASSUME WindowInv, OnListed
  PROVE  WindowInv'
<1> DEFINE m == Head(resolved)
<1>1. /\ resolved # <<>> /\ m.op = "list" /\ m.to = "window" /\ resolved' = Tail(resolved)
      /\ UNCHANGED <<daemon, channel, drops, inventory, tab, toMain, requests, link, ready>>
  BY DEF OnListed, Continue
<1>2. /\ WindowType /\ OnItsWay /\ requests \in Seq(Requests) /\ channel \in Seq(Frames)
      /\ link \in {"down", "listing", "up"}
  BY DEF WindowInv, WindowType
<1>3. /\ Tail(resolved) \in Seq(Responses) /\ m \in Responses
      /\ AllTruthful(Tail(resolved), ring, ended) /\ Truthful(m, ring, ended)
      /\ Fetching(delivery, requests, channel, Tail(resolved), reloads, handler, ring, ended)
      /\ Awaits(m, reloads) => /\ Expected(m, handler, delivery, ring)
                               /\ Nobody(requests, channel, Tail(resolved), reloads)
  BY <1>1, ResponseTaken
<1>4. /\ handler = "list" /\ Nobody(requests, channel, Tail(resolved), reloads)
      /\ m.item \in Items /\ Honest(m.item, ring, ended)
  BY <1>1, <1>3, ResponseKinds DEF Awaits, Expected, Truthful
<1>5. CASE Answer(m.item)
  BY <1>1, <1>2, <1>3, <1>4, <1>5, AnswerKeeps DEF OnItsWay, Fetching
<1>6. CASE /\ handler' = "control" /\ listed' = m.item
           /\ delivery' = None /\ UNCHANGED <<sequence, toWindow>>
  <2>1. /\ ring' = ring /\ ended' = ended /\ inventory' = inventory /\ ready' = ready
        /\ window' = window /\ outputCursor' = outputCursor /\ shown' = shown
        /\ told' = told /\ reloads' = reloads /\ toMain' = toMain /\ toWindow' = toWindow
        /\ channel' = channel /\ link' = link /\ requests' = requests
        /\ sequence' = sequence /\ touched' = touched
    BY <1>1, <1>6 DEF daemon, tab
  <2> HIDE DEF m
  <2>2. Fetching(None, requests, channel, Tail(resolved), reloads, "control", ring, ended)
    BY <1>3, <1>4, NobodySingle DEF Fetching, Pending
  <2>3. FetchInv'
    BY <1>1, <1>6, <2>1, <2>2 DEF FetchInv
  <2>4. PresentInv'
    <3>1. Loading(delivery, toWindow, toMain, window, handler, ready, outputCursor, ring)
      BY DEF WindowInv, PresentInv, Presenting
    <3>2. window \in {"loading", "asked"} /\ ~ready /\ toWindow = <<>> /\ toMain = <<>>
      BY <1>2, <1>4, <3>1 DEF Loading, WindowType
    <3>3. Loading(None, toWindow, toMain, window, "control", ready, outputCursor, ring)
      BY <3>2 DEF Loading
    <3>4. Presenting(None, toWindow, toMain, window, "control", ready, outputCursor, ring, ended)
      BY <3>2, <3>3 DEF Presenting, ExitLast
    <3> QED BY <1>6, <2>1, <3>4 DEF PresentInv
  <2>5. WindowType'
    BY <1>1, <1>2, <1>3, <1>4, <1>6, <2>1 DEF WindowType
  <2>6. OnItsWay'
    BY <1>1, <1>2, <1>3, <1>4, <1>6, <2>1 DEF OnItsWay
  <2> QED BY <2>1, <2>3, <2>4, <2>5, <2>6 DEF WindowInv, RingInv, Shows
<1> QED BY <1>5, <1>6 DEF OnListed

\* Nobody awaits a frame while the acquisitions are under way.
LEMMA ControlAwaitsNothing ==
  ASSUME WindowInv, handler = "control"
  PROVE  /\ Nobody(requests, channel, resolved, reloads)
         /\ delivery = None /\ listed \in Items /\ Honest(listed, ring, ended)
<1>1. /\ WindowType /\ OnItsWay
      /\ Fetching(delivery, requests, channel, resolved, reloads, handler, ring, ended)
      /\ Loading(delivery, toWindow, toMain, window, handler, ready, outputCursor, ring)
  BY DEF WindowInv, FetchInv, PresentInv, Presenting
<1>2. delivery = None
  BY <1>1 DEF Loading
<1>3. Nobody(requests, channel, resolved, reloads)
  BY <1>1, <1>2, NobodyAwaits
<1> QED BY <1>1, <1>2, <1>3 DEF WindowType, OnItsWay

LEMMA ControlKeeps ==
  ASSUME WindowInv, OnControl
  PROVE  WindowInv'
<1>1. /\ handler = "control" /\ Answer(listed)
      /\ UNCHANGED <<daemon, wire, inventory, ready, tab, toMain>>
  BY DEF OnControl
<1>2. /\ requests' = requests /\ channel' = channel /\ resolved' = resolved /\ link' = link
  BY <1>1 DEF wire
<1>3. /\ WindowType /\ OnItsWay /\ requests \in Seq(Requests) /\ channel \in Seq(Frames)
      /\ resolved \in Seq(Responses) /\ link \in {"down", "listing", "up"}
      /\ Fetching(delivery, requests, channel, resolved, reloads, handler, ring, ended)
  BY DEF WindowInv, WindowType, FetchInv
<1>4. /\ Nobody(requests, channel, resolved, reloads)
      /\ listed \in Items /\ Honest(listed, ring, ended)
  BY <1>1, ControlAwaitsNothing
<1> QED BY <1>1, <1>2, <1>3, <1>4, AnswerKeeps DEF OnItsWay, Fetching

\* An earlier page's terminal-inventory goes on: it replaces an entry, or nothing.
LEMMA OldAnswerKeeps ==
  ASSUME WindowInv, OldAnswer
  PROVE  overwritten' \/ WindowInv'
<1> SUFFICES ASSUME ~overwritten' PROVE WindowInv'
  OBVIOUS
<1>1. /\ ring' = ring /\ ended' = ended /\ requests' = requests /\ channel' = channel
      /\ resolved' = resolved /\ link' = link /\ inventory' = inventory
      /\ handler' = handler /\ listed' = listed /\ delivery' = delivery
      /\ ready' = ready /\ window' = window /\ outputCursor' = outputCursor
      /\ shown' = shown /\ told' = told /\ reloads' = reloads
      /\ toWindow' = toWindow /\ toMain' = toMain
      /\ sequence' = sequence /\ touched' = touched
  BY DEF OldAnswer, daemon, wire, tab, messages
<1> QED BY <1>1, AllKept

-----------------------------------------------------------------------------
(* The connection.                                                         *)

LEMMA EmptyFacts ==
  /\ \A n, h, d, r : AllExpected(<<>>, n, h, d, r)
  /\ \A r, e : AllTruthful(<<>>, r, e)
  /\ \A n, r : Askable(<<>>, n, r)
  /\ \A n : Recent(<<>>, n) /\ Nobody(<<>>, <<>>, <<>>, n)
  /\ FinalLast(<<>>) /\ NoOutput(<<>>)
<1>1. 1..Len(<<>>) = {}
  BY Nothing
<1> QED BY <1>1 DEF AllExpected, AllTruthful, Askable, Recent, Nobody, Awaited, FinalLast,
                    NoOutput

LEMMA DropKeeps ==
  ASSUME WindowInv, Drop
  PROVE  WindowInv'
<1>1. /\ resolved = <<>> /\ link' = "down" /\ channel' = <<>> /\ requests' = <<>>
      /\ resolved' = resolved /\ ring' = ring /\ ended' = ended /\ inventory' = inventory
      /\ ready' = ready /\ outputCursor' = outputCursor /\ shown' = shown /\ told' = told
      /\ reloads' = reloads /\ toMain' = toMain /\ touched' = touched
  BY DEF Drop, daemon
<1>2. /\ WindowType /\ OnItsWay /\ Shows /\ delivery \in Entries \cup {None}
      /\ handler \in {"no", "list", "control"} /\ toWindow \in Seq(ToWindow)
      /\ Fetching(delivery, requests, channel, resolved, reloads, handler, ring, ended)
      /\ Presenting(delivery, toWindow, toMain, window, handler, ready, outputCursor, ring, ended)
  BY DEF WindowInv, WindowType, FetchInv, PresentInv
<1>3. /\ requests' \in Seq(Requests) /\ channel' \in Seq(Frames) /\ resolved' \in Seq(Responses)
  BY <1>1, Nothing
<1>4. CASE handler = "control"
  <2>1. Answer(listed) /\ window' = window
    BY <1>4 DEF Drop
  <2>2. listed \in Items /\ Honest(listed, ring, ended)
    BY <1>2, <1>4 DEF WindowType, OnItsWay
  <2>3. UNCHANGED <<daemon, inventory, ready, tab, toMain>>
    BY <2>1 DEF Drop, tab
  <2> QED BY <1>1, <1>3, <1>4, <2>1, <2>2, <2>3, EmptyFacts, AnswerKeeps
<1>5. CASE handler # "control"
  <2> DEFINE x == IF delivery = None THEN None ELSE [delivery EXCEPT !.pumping = FALSE]
  <2>1. /\ delivery' = x /\ handler' = "no" /\ listed' = listed /\ toWindow' = toWindow
        /\ sequence' = sequence
        /\ window' = IF handler = "list" /\ window = "asked" THEN "failed" ELSE window
    BY <1>5 DEF Drop
  <2>2. \/ delivery = None /\ x = None
        \/ /\ delivery \in Entries /\ x \in Entries /\ x # None /\ delivery # None
           /\ x.of = delivery.of /\ x.cursor = delivery.cursor /\ ~x.pumping
           /\ x.inFlight = delivery.inFlight /\ x.pendingExit = delivery.pendingExit
    <3>1. ASSUME delivery # None
          PROVE  /\ delivery \in Entries /\ x \in Entries
                 /\ x.of = delivery.of /\ x.cursor = delivery.cursor /\ ~x.pumping
                 /\ x.inFlight = delivery.inFlight /\ x.pendingExit = delivery.pendingExit
      BY <1>2, <3>1 DEF Entries
    <3> HIDE DEF x
    <3>2. delivery = None => x = None
      BY DEF x
    <3> QED BY <3>1, <3>2, EntryFields
  <2> HIDE DEF x
  <2>3. FetchInv'
    <3>1. Pending(x, ring, ended) /\ (x # None => x.of = reloads)
      BY <1>2, <2>2 DEF Fetching, Pending
    <3>2. Fetching(x, <<>>, <<>>, <<>>, reloads, "no", ring, ended)
      BY <3>1, EmptyFacts, NobodySingle DEF Fetching
    <3> QED BY <1>1, <2>1, <3>2 DEF FetchInv
  <2>4. PresentInv'
    <3> DEFINE w == IF handler = "list" /\ window = "asked" THEN "failed" ELSE window
    <3>1. Loading(delivery, toWindow, toMain, window, handler, ready, outputCursor, ring)
      BY <1>2 DEF Presenting
    <3>2. Loading(x, toWindow, toMain, w, "no", ready, outputCursor, ring)
      <4>1. CASE handler = "list"
        BY <2>2, <3>1, <4>1 DEF Loading
      <4>2. CASE handler = "no"
        BY <2>2, <3>1, <4>2 DEF Loading
      <4> QED BY <1>2, <1>5, <4>1, <4>2
    <3>3. ready => delivery # None /\ x # None
      BY <2>2, <3>1 DEF Loading
    <3>4. ready => \/ Idle(x, toWindow, toMain, outputCursor)
                   \/ Sending(x, toWindow, toMain, outputCursor, ring)
                   \/ Acknowledging(x, toWindow, toMain, outputCursor)
      BY <1>2, <2>2, <3>3 DEF Presenting, Idle, Sending, Acknowledging
    <3> HIDE DEF w
    <3>5. Presenting(x, toWindow, toMain, w, "no", ready, outputCursor, ring, ended)
      BY <1>2, <3>2, <3>4 DEF Presenting
    <3> QED BY <1>1, <2>1, <3>5 DEF PresentInv, w
  <2>5. WindowType'
    BY <1>1, <1>2, <1>3, <2>1, <2>2 DEF WindowType
  <2>6. OnItsWay'
    BY <1>1, <1>2, <2>1, EmptyFacts DEF OnItsWay
  <2>7. Shows'
    BY <1>1, <1>2, <2>1 DEF Shows
  <2> QED BY <1>1, <2>3, <2>4, <2>5, <2>6, <2>7 DEF WindowInv, RingInv
<1> QED BY <1>4, <1>5

LEMMA ReconnectKeeps ==
  ASSUME WindowInv, Reconnect
  PROVE  WindowInv'
<1> DEFINE q == [op |-> "list", to |-> "connect"]
<1>1. /\ link' = "listing" /\ requests' = <<q>>
      /\ ring' = ring /\ ended' = ended /\ resolved' = resolved /\ channel' = channel
      /\ inventory' = inventory /\ handler' = handler /\ listed' = listed
      /\ delivery' = delivery /\ ready' = ready /\ window' = window
      /\ outputCursor' = outputCursor /\ shown' = shown /\ told' = told
      /\ reloads' = reloads /\ toWindow' = toWindow /\ toMain' = toMain
      /\ sequence' = sequence /\ touched' = touched
  BY DEF Reconnect, daemon, main, tab, messages
<1>2. /\ WindowType /\ OnItsWay
      /\ Fetching(delivery, requests, channel, resolved, reloads, handler, ring, ended)
  BY DEF WindowInv, FetchInv
<1>3. q \in Requests /\ q.op = "list" /\ q.to = "connect"
  BY DEF Requests, Queries
<1> HIDE DEF q
<1>4. <<q>> \in Seq(Requests) /\ Len(<<q>>) = 1 /\ <<q>>[1] = q
  BY <1>3
<1>5. \A i \in 1..Len(<<q>>) : <<q>>[i] = q
  BY <1>4
<1>6. Awaited(<<q>>, reloads) = {}
  BY <1>3, <1>5 DEF Awaited, Awaits
<1>7. /\ Askable(<<q>>, reloads, ring)
      /\ AllExpected(<<q>>, reloads, handler, delivery, ring)
  BY <1>3, <1>5, <1>6 DEF Askable, AllExpected
<1>8. Single(<<q>>, channel, resolved, reloads)
  BY <1>2, <1>6 DEF Fetching, Single
<1>9. FetchInv'
  BY <1>1, <1>2, <1>7, <1>8 DEF FetchInv, Fetching
<1>10. WindowType'
  BY <1>1, <1>2, <1>4 DEF WindowType
<1>11. OnItsWay'
  BY <1>1, <1>2 DEF OnItsWay
<1> QED BY <1>1, <1>9, <1>10, <1>11 DEF WindowInv, RingInv, PresentInv, Shows

-----------------------------------------------------------------------------
(* The window, and what it sends.                                          *)

LEMMA ReloadKeeps ==
  ASSUME WindowInv, Reload
  PROVE  WindowInv'
<1>1. /\ window' = "loading" /\ reloads' = reloads + 1 /\ ready' = FALSE /\ delivery' = None
      /\ toWindow' = <<>> /\ toMain' = <<>> /\ outputCursor' = 0 /\ shown' = <<>>
      /\ told' = FALSE /\ ring' = ring /\ ended' = ended /\ requests' = requests
      /\ channel' = channel /\ resolved' = resolved /\ link' = link
      /\ inventory' = inventory /\ handler' = handler /\ listed' = listed
      /\ sequence' = 0 /\ touched' = touched
  BY DEF Reload, daemon, wire
<1>2. /\ WindowType /\ OnItsWay /\ reloads \in Nat /\ requests \in Seq(Requests)
      /\ channel \in Seq(Frames) /\ resolved \in Seq(Responses)
      /\ Fetching(delivery, requests, channel, resolved, reloads, handler, ring, ended)
      /\ Loading(delivery, toWindow, toMain, window, handler, ready, outputCursor, ring)
      /\ handler = "control" => delivery = None
  BY DEF WindowInv, WindowType, FetchInv, PresentInv, Presenting, Loading
<1> DEFINE n == reloads + 1
<1>3. \A k \in Nat : k <= reloads => k <= n /\ k # n
  BY <1>2
<1> HIDE DEF n
<1>4. ASSUME NEW m, m \in Requests \/ m \in Frames,
             m.op \in {"attach", "slice"} => m.of <= reloads, Awaits(m, n)
      PROVE  /\ Awaits(m, reloads)
             /\ Expected(m, handler, delivery, ring) => Expected(m, handler, None, ring)
  <2>1. m.op \in {"attach", "slice"} => m.of \in Nat
    BY <1>4, RequestKinds, FrameKinds, ResponseKinds
  <2>2. m.op \notin {"attach", "slice"}
    BY <1>3, <1>4, <2>1 DEF Awaits
  <2> QED BY <1>4, <2>2 DEF Awaits, Expected
<1>5. ASSUME NEW i \in 1..Len(requests)
      PROVE  /\ requests[i] \in Requests
             /\ requests[i].op \in {"attach", "slice"} => requests[i].of <= reloads
  <2>1. requests[i] \in Requests
    BY <1>2
  <2> QED BY <1>2, <2>1, RequestKinds DEF Fetching, Askable
<1>6. ASSUME NEW s \in Seq(Frames), Recent(s, reloads), NEW i \in 1..Len(s)
      PROVE  s[i] \in Frames /\ (s[i].op \in {"attach", "slice"} => s[i].of <= reloads)
  <2>1. s[i] \in Frames
    OBVIOUS
  <2> QED BY <1>6, <2>1, FrameKinds DEF Recent
<1>7. ASSUME NEW s,
             \A i \in 1..Len(s) :
               /\ s[i] \in Requests \/ s[i] \in Frames
               /\ s[i].op \in {"attach", "slice"} => s[i].of <= reloads
      PROVE  /\ Awaited(s, n) \subseteq Awaited(s, reloads)
             /\ AllExpected(s, reloads, handler, delivery, ring) =>
                  AllExpected(s, n, handler, None, ring)
  BY <1>4, <1>7 DEF Awaited, AllExpected
<1>8. resolved \in Seq(Frames)
  BY <1>2, ResponsesAreFrames
<1>9. /\ Awaited(requests, n) \subseteq Awaited(requests, reloads)
      /\ AllExpected(requests, n, handler, None, ring)
  BY <1>2, <1>5, <1>7 DEF Fetching
<1>10. /\ Awaited(channel, n) \subseteq Awaited(channel, reloads)
       /\ AllExpected(channel, n, handler, None, ring)
  BY <1>2, <1>6, <1>7 DEF Fetching
<1>11. /\ Awaited(resolved, n) \subseteq Awaited(resolved, reloads)
       /\ AllExpected(resolved, n, handler, None, ring)
  BY <1>2, <1>6, <1>7, <1>8 DEF Fetching
<1>12. Single(requests, channel, resolved, n)
  BY <1>2, <1>9, <1>10, <1>11 DEF Fetching, Single
<1>13. Askable(requests, n, ring) /\ Recent(channel, n) /\ Recent(resolved, n)
  <2>1. \A i \in 1..Len(requests) : requests[i].op = "attach" =>
          requests[i].of \in Nat /\ requests[i].of <= reloads /\ requests[i].cursor <= ring.next
    BY <1>2, <1>5, RequestKinds DEF Fetching, Askable
  <2>2. ASSUME NEW s \in Seq(Frames), Recent(s, reloads) PROVE Recent(s, n)
    <3>1. \A i \in 1..Len(s) : s[i].op = "slice" => s[i].of \in Nat /\ s[i].of <= reloads
      BY <1>6, <2>2, FrameKinds, ResponseKinds
    <3> QED BY <1>3, <3>1 DEF Recent
  <2> QED BY <1>2, <1>3, <1>8, <2>1, <2>2 DEF Askable, Fetching
<1>14. FetchInv'
  BY <1>1, <1>9, <1>10, <1>11, <1>12, <1>13 DEF FetchInv, Fetching, Pending, n
<1>15. PresentInv'
  <2>1. Loading(None, <<>>, <<>>, "loading", handler, FALSE, 0, ring)
    BY DEF Loading
  <2>2. Presenting(None, <<>>, <<>>, "loading", handler, FALSE, 0, ring, ended)
    BY <2>1 DEF Presenting, ExitLast
  <2> QED BY <1>1, <2>2 DEF PresentInv
<1>16. WindowType'
  <2>1. <<>> \in Seq(ToWindow) /\ <<>> \in Seq(ToMain) /\ <<>> \in Seq(Int)
    BY Nothing
  <2>2. reloads + 1 \in Nat /\ 0 \in Nat
    BY <1>2
  <2> QED BY <1>1, <1>2, <2>1, <2>2 DEF WindowType
<1>17. OnItsWay'
  BY <1>1, <1>2 DEF OnItsWay
<1>18. Shows'
  <2>1. ring.next \in Nat /\ ring.oldest \in Nat
    BY RingFacts DEF WindowInv
  <2>2. UpTo(<<>>, 0, ring)
    BY <2>1, Nothing DEF UpTo, LastOf
  <2> QED BY <1>1, <2>1, <2>2 DEF Shows
<1> QED BY <1>1, <1>14, <1>15, <1>16, <1>17, <1>18 DEF WindowInv, RingInv

LEMMA AskKeeps ==
  ASSUME WindowInv, Ask
  PROVE  WindowInv'
<1> DEFINE q == [op |-> "list", to |-> "window"]
<1>1. /\ window = "loading" /\ handler # "list"
      /\ \/ window' = "failed" /\ handler' = "no" /\ requests' = requests
         \/ window' = "asked" /\ handler' = "list" /\ requests' = Append(requests, q)
      /\ ring' = ring /\ ended' = ended /\ channel' = channel /\ resolved' = resolved
      /\ link' = link /\ inventory' = inventory /\ handler' # "control"
      /\ delivery' = delivery /\ ready' = ready
      /\ outputCursor' = outputCursor /\ shown' = shown /\ told' = told
      /\ reloads' = reloads /\ toWindow' = toWindow /\ toMain' = toMain
      /\ sequence' = sequence /\ touched' = touched
  BY DEF Ask, daemon, messages
<1>2. /\ WindowType /\ OnItsWay /\ Shows /\ requests \in Seq(Requests)
      /\ Fetching(delivery, requests, channel, resolved, reloads, handler, ring, ended)
      /\ Loading(delivery, toWindow, toMain, window, handler, ready, outputCursor, ring)
  BY DEF WindowInv, WindowType, FetchInv, PresentInv, Presenting
<1>3. ~ready /\ (delivery # None => ~delivery.pumping)
  BY <1>1, <1>2 DEF Loading
<1>4. Nobody(requests, channel, resolved, reloads)
  BY <1>1, <1>2, <1>3, NobodyAwaits
<1>5. q \in Requests /\ q.op = "list" /\ q.to = "window"
  BY DEF Requests, Queries
<1> HIDE DEF q
<1>6. /\ Append(requests, q) \in Seq(Requests)
      /\ Single(Append(requests, q), channel, resolved, reloads)
      /\ Askable(Append(requests, q), reloads, ring)
      /\ AllExpected(Append(requests, q), reloads, "list", delivery, ring)
      /\ AllExpected(channel, reloads, "list", delivery, ring)
      /\ AllExpected(resolved, reloads, "list", delivery, ring)
  <2>1. Expected(q, "list", delivery, ring)
    BY <1>5 DEF Expected
  <2> QED BY <1>2, <1>4, <1>5, <2>1, Added, AskedSingle, NobodySingle, AddedFacts DEF Fetching
<1>7. FetchInv'
  <2>1. Fetching(delivery, Append(requests, q), channel, resolved, reloads, "list", ring, ended)
    BY <1>2, <1>6 DEF Fetching
  <2>2. Fetching(delivery, requests, channel, resolved, reloads, "no", ring, ended)
    BY <1>2, <1>4, NobodySingle DEF Fetching
  <2> QED BY <1>1, <1>2, <2>1, <2>2 DEF FetchInv
<1>8. PresentInv'
  <2>1. /\ Loading(delivery, toWindow, toMain, "failed", "no", ready, outputCursor, ring)
        /\ Loading(delivery, toWindow, toMain, "asked", "list", ready, outputCursor, ring)
    BY <1>1, <1>2, <1>3 DEF Loading
  <2>2. Loading(delivery, toWindow, toMain, window', handler', ready, outputCursor, ring)
    BY <1>1, <2>1
  <2> QED BY <1>1, <1>3, <2>2 DEF PresentInv, Presenting, ExitLast
<1>9. WindowType'
  BY <1>1, <1>2, <1>6 DEF WindowType
<1>10. OnItsWay'
  BY <1>1, <1>2 DEF OnItsWay
<1>11. Shows'
  BY <1>1, <1>2 DEF Shows
<1> QED BY <1>1, <1>7, <1>8, <1>9, <1>10, <1>11 DEF WindowInv, RingInv

\* What a message to the window leaves alone.
LEMMA GetKeeps ==
  ASSUME WindowInv, NEW op, Get(op), toMain' \in Seq(ToMain),
         window' \in {"loading", "asked", "ready", "failed"},
         outputCursor' \in Nat, shown' \in Seq(Int), told' \in BOOLEAN
  PROVE  /\ toWindow # <<>> /\ Head(toWindow).op = op /\ toWindow' = Tail(toWindow)
         /\ Tail(toWindow) \in Seq(ToWindow) /\ Head(toWindow) \in ToWindow
         /\ Head(toWindow) = toWindow[1]
         /\ ring' = ring /\ ended' = ended /\ handler' = handler /\ delivery' = delivery
         /\ ready' = ready
         /\ RingInv' /\ WindowType' /\ OnItsWay' /\ FetchInv'
<1>1. /\ toWindow # <<>> /\ Head(toWindow).op = op /\ toWindow' = Tail(toWindow)
      /\ ring' = ring /\ ended' = ended /\ requests' = requests /\ channel' = channel
      /\ resolved' = resolved /\ link' = link
      /\ inventory' = inventory /\ handler' = handler /\ listed' = listed
      /\ delivery' = delivery /\ ready' = ready /\ reloads' = reloads
      /\ sequence' = sequence /\ touched' = touched
  BY DEF Get, daemon, wire, main
<1>2. WindowType /\ toWindow \in Seq(ToWindow)
  BY DEF WindowInv, WindowType
<1>3. /\ Tail(toWindow) \in Seq(ToWindow) /\ Head(toWindow) \in ToWindow
      /\ Head(toWindow) = toWindow[1]
  BY <1>1, <1>2, Removed
<1>4. WindowType'
  BY <1>1, <1>2, <1>3 DEF WindowType
<1>5. OnItsWay' /\ FetchInv' /\ RingInv'
  BY <1>1 DEF WindowInv, OnItsWay, FetchInv, RingInv
<1> QED BY <1>1, <1>3, <1>4, <1>5

\* Which window has messages of a kind.
LEMMA WindowOf ==
  ASSUME WindowInv, toWindow # <<>>
  PROVE  /\ window \in {"asked", "ready"}
         /\ window = "asked" =>
              /\ handler = "no" /\ ~ready /\ delivery # None /\ toMain = <<>>
              /\ Len(toWindow) = 1 /\ Head(toWindow).op = "inventory"
              /\ Head(toWindow).item.oldest = delivery.cursor
         /\ window = "ready" => ready /\ handler = "no" /\ Head(toWindow).op \in {"data", "exit"}
<1>1. /\ toWindow \in Seq(ToWindow) /\ window \in {"loading", "asked", "ready", "failed"}
      /\ Presenting(delivery, toWindow, toMain, window, handler, ready, outputCursor, ring, ended)
  BY DEF WindowInv, WindowType, PresentInv
<1>2. Head(toWindow) = toWindow[1] /\ 1 \in 1..Len(toWindow)
  BY <1>1, Removed
<1> QED BY <1>1, <1>2 DEF Presenting, Loading, Idle, Sending, Acknowledging

LEMMA GetInventoryKeeps ==
  ASSUME WindowInv, GetInventory
  PROVE  WindowInv'
<1> DEFINE b == [op |-> "ready"]
           tm == Append(<<>>, b)
<1>1. /\ Get("inventory") /\ toWindow # <<>> /\ Head(toWindow).op = "inventory"
      /\ window' = "ready" /\ outputCursor' = Head(toWindow).item.oldest
      /\ toMain' = Append(toMain, b) /\ shown' = shown /\ told' = told
  BY DEF GetInventory, Get, Send
<1>2. /\ window = "asked" /\ handler = "no" /\ ~ready /\ delivery # None /\ toMain = <<>>
      /\ Len(toWindow) = 1 /\ Head(toWindow).item.oldest = delivery.cursor
  BY <1>1, WindowOf
<1>3. /\ WindowType /\ Shows /\ delivery \in Entries /\ toWindow \in Seq(ToWindow)
      /\ Loading(delivery, toWindow, toMain, window, handler, ready, outputCursor, ring)
      /\ shown \in Seq(Int) /\ told \in BOOLEAN /\ ring.next \in Nat /\ ring.oldest \in Nat
      /\ ring.oldest <= ring.next
  BY <1>2, RingFacts DEF WindowInv, WindowType, PresentInv, Presenting
<1>4. delivery.cursor \in Nat /\ delivery.cursor <= ring.oldest
      /\ delivery.inFlight = None /\ ~delivery.pumping
  BY <1>2, <1>3, EntryFields DEF Loading
<1>5. b \in ToMain /\ b.op = "ready"
  BY DEF ToMain
<1>6. tm \in Seq(ToMain) /\ Len(tm) = 1 /\ tm[1] = b
  <2> HIDE DEF b
  <2> QED BY <1>5, One
<1>7. toMain' = tm /\ outputCursor' = delivery.cursor
  BY <1>1, <1>2
<1> HIDE DEF tm, b
<1>8. /\ toWindow' = <<>> /\ ring' = ring /\ ended' = ended /\ handler' = handler
      /\ delivery' = delivery /\ ready' = ready
      /\ RingInv' /\ WindowType' /\ OnItsWay' /\ FetchInv'
  <2>1. Tail(toWindow) = <<>>
    BY <1>2, <1>3, Nothing
  <2> QED BY <1>1, <1>3, <1>4, <1>6, <1>7, <2>1, GetKeeps
<1>9. PresentInv'
  <2>1. Loading(delivery, <<>>, tm, "ready", "no", FALSE, delivery.cursor, ring)
    BY <1>2, <1>4, <1>5, <1>6 DEF Loading
  <2>2. Presenting(delivery, <<>>, tm, "ready", "no", FALSE, delivery.cursor, ring, ended)
    BY <2>1 DEF Presenting, ExitLast
  <2>3. ready = FALSE
    BY <1>2, <1>3 DEF WindowType
  <2> QED BY <1>1, <1>2, <1>7, <1>8, <2>2, <2>3 DEF PresentInv
<1>10. Shows'
  <2>1. shown = <<>> /\ ~told
    BY <1>2, <1>3 DEF Shows
  <2>2. UpTo(<<>>, delivery.cursor, ring)
    BY <1>3, <1>4, Nothing DEF UpTo, LastOf
  <2>3. delivery.cursor <= ring.next
    BY <1>3, <1>4
  <2> QED BY <1>1, <1>7, <1>8, <2>1, <2>2, <2>3 DEF Shows
<1> QED BY <1>8, <1>9, <1>10 DEF WindowInv

LEMMA GetDataKeeps ==
  ASSUME WindowInv, GetData
  PROVE  WindowInv'
<1> DEFINE s == Head(toWindow).slice
           b == [op |-> "ack", cursor |-> s.end]
           tm == Append(<<>>, b)
<1>1. Get("data") /\ toWindow # <<>> /\ Head(toWindow).op = "data"
      /\ window' = window /\ told' = told
  BY DEF GetData, Get
<1>2. window = "ready" /\ ready /\ handler = "no"
  BY <1>1, WindowOf
<1>3. /\ WindowType /\ Shows /\ toWindow \in Seq(ToWindow) /\ ready \in BOOLEAN
      /\ Presenting(delivery, toWindow, toMain, window, handler, ready, outputCursor, ring, ended)
      /\ shown \in Seq(Int) /\ told \in BOOLEAN /\ outputCursor \in Nat
      /\ ring.next \in Nat /\ ring.oldest \in Nat
  BY RingFacts DEF WindowInv, WindowType, PresentInv
<1>4. /\ Head(toWindow) \in ToWindow /\ Head(toWindow) = toWindow[1]
      /\ 1 \in 1..Len(toWindow)
  BY <1>1, <1>3, Removed
<1>5. Sending(delivery, toWindow, toMain, outputCursor, ring)
  BY <1>1, <1>2, <1>3, <1>4 DEF Presenting, Idle, Acknowledging
<1>6. /\ ~delivery.pumping /\ toMain = <<>> /\ Len(toWindow) = 1
      /\ delivery.inFlight = s.end /\ s.end # outputCursor
      /\ Continues(s, ring, outputCursor) /\ s \in Slice /\ s.end \in Nat
  BY <1>1, <1>4, <1>5, ToWindowKinds DEF Sending, Slice
<1>7. delivery \in Entries
  BY <1>2, <1>3, <1>6 DEF Presenting, Loading, WindowType
<1>8. outputCursor < s.end /\ s.end <= ring.next
  BY <1>3, <1>6, BatchContinues
<1>9. /\ outputCursor' = s.end /\ shown' = shown \o s.data /\ toMain' = tm
  BY SMTT(60), <1>3, <1>6, <1>8 DEF GetData, Send
<1>10. b \in ToMain /\ b.op = "ack" /\ b.cursor = s.end
  BY <1>6 DEF ToMain
<1>11. tm \in Seq(ToMain) /\ Len(tm) = 1 /\ tm[1] = b
  <2> HIDE DEF b
  <2> QED BY <1>10, One
<1>12. /\ shown \o s.data \in Seq(Int) /\ UpTo(shown \o s.data, s.end, ring)
  BY <1>3, <1>6, ShowMore DEF Shows
<1> HIDE DEF s, b, tm
<1>13. /\ toWindow' = <<>> /\ ring' = ring /\ ended' = ended /\ handler' = handler
       /\ delivery' = delivery /\ ready' = ready
       /\ RingInv' /\ WindowType' /\ OnItsWay' /\ FetchInv'
  <2>1. Tail(toWindow) = <<>>
    BY <1>3, <1>6, Nothing
  <2> QED BY <1>1, <1>2, <1>3, <1>6, <1>9, <1>11, <1>12, <2>1, GetKeeps
<1>14. PresentInv'
  <2>1. Acknowledging(delivery, <<>>, tm, s.end)
    BY <1>6, <1>10, <1>11 DEF Acknowledging
  <2>2. ExitLast(<<>>, TRUE, s.end, ring, ended)
    BY Nothing DEF ExitLast
  <2>3. Presenting(delivery, <<>>, tm, "ready", "no", TRUE, s.end, ring, ended)
    BY <1>7, <2>1, <2>2, ReadyPresents
  <2>4. ready = TRUE
    BY <1>2, <1>3
  <2> QED BY <1>1, <1>2, <1>9, <1>13, <2>3, <2>4 DEF PresentInv
<1>15. Shows'
  <2>1. ~told
    BY <1>3, <1>6, <1>8 DEF Shows
  <2> QED BY <1>1, <1>2, <1>8, <1>9, <1>12, <1>13, <2>1 DEF Shows
<1> QED BY <1>13, <1>14, <1>15 DEF WindowInv

LEMMA GetExitKeeps ==
  ASSUME WindowInv, GetExit
  PROVE  WindowInv'
<1>1. /\ Get("exit") /\ toWindow # <<>> /\ Head(toWindow).op = "exit"
      /\ told' = (told \/ Head(toWindow).sequence >= Head(toWindow).after)
      /\ toMain' = toMain /\ window' = window /\ outputCursor' = outputCursor
      /\ shown' = shown
  BY DEF GetExit, Get
<1>2. window = "ready" /\ ready /\ handler = "no"
  BY <1>1, WindowOf
<1>3. /\ WindowType /\ Shows /\ toWindow \in Seq(ToWindow) /\ ready \in BOOLEAN
      /\ Presenting(delivery, toWindow, toMain, window, handler, ready, outputCursor, ring, ended)
      /\ delivery \in Entries \cup {None}
      /\ toMain \in Seq(ToMain) /\ window \in {"loading", "asked", "ready", "failed"}
      /\ outputCursor \in Nat /\ shown \in Seq(Int) /\ told \in BOOLEAN
  BY DEF WindowInv, WindowType, PresentInv
<1>4. /\ Head(toWindow) = toWindow[1] /\ 1 \in 1..Len(toWindow)
      /\ \A i \in 1..Len(Tail(toWindow)) :
           i + 1 \in 1..Len(toWindow) /\ Tail(toWindow)[i] = toWindow[i + 1]
  BY <1>1, <1>3, Removed
<1>5. Idle(delivery, toWindow, toMain, outputCursor)
  BY <1>1, <1>2, <1>3, <1>4 DEF Presenting, Sending, Acknowledging
<1>6. ended /\ outputCursor = ring.next
  BY <1>1, <1>2, <1>3, <1>4 DEF Presenting, ExitLast
<1>7. /\ toWindow' = Tail(toWindow) /\ ring' = ring /\ ended' = ended /\ handler' = handler
      /\ delivery' = delivery /\ ready' = ready
      /\ RingInv' /\ WindowType' /\ OnItsWay' /\ FetchInv'
  <2>1. told' \in BOOLEAN
    BY <1>1
  <2> QED BY <1>1, <1>3, <2>1, GetKeeps
<1>8. PresentInv'
  <2>1. Idle(delivery, Tail(toWindow), toMain, outputCursor)
    BY <1>4, <1>5 DEF Idle
  <2>2. ExitLast(Tail(toWindow), TRUE, outputCursor, ring, ended)
    BY <1>6 DEF ExitLast
  <2>3. delivery \in Entries /\ ready = TRUE
    BY <1>2, <1>3 DEF Presenting, Loading
  <2>4. Presenting(delivery, Tail(toWindow), toMain, "ready", "no", TRUE, outputCursor, ring, ended)
    BY <2>1, <2>2, <2>3, ReadyPresents
  <2> QED BY <1>1, <1>2, <1>7, <2>3, <2>4 DEF PresentInv
<1>9. Shows'
  BY <1>1, <1>2, <1>3, <1>6, <1>7 DEF Shows
<1> QED BY <1>7, <1>8, <1>9 DEF WindowInv

\* What a message from the window wakes.
LEMMA ReceiveKeeps ==
  ASSUME WindowInv, NEW op, Receive(op), NEW d \in Entries, NEW rd \in BOOLEAN,
         ready' = rd, Pump(d, rd),
         Fetching(d, requests, channel, resolved, reloads, handler, ring, ended),
         Presenting(d, toWindow, Tail(toMain), window, handler, rd, outputCursor, ring, ended)
  PROVE  WindowInv'
<1>1. /\ toMain # <<>> /\ toMain' = Tail(toMain)
      /\ ring' = ring /\ ended' = ended /\ channel' = channel /\ resolved' = resolved
      /\ link' = link /\ inventory' = inventory /\ handler' = handler /\ listed' = listed
      /\ window' = window /\ outputCursor' = outputCursor /\ shown' = shown
      /\ told' = told /\ reloads' = reloads /\ sequence' = sequence /\ touched' = touched
  BY DEF Receive, daemon, tab
<1>2. /\ WindowType /\ OnItsWay /\ Shows /\ requests \in Seq(Requests)
      /\ toWindow \in Seq(ToWindow) /\ toMain \in Seq(ToMain) /\ reloads \in Nat
      /\ outputCursor \in Nat /\ ring.next \in Nat /\ outputCursor <= ring.next
      /\ sequence \in Nat
  BY RingFacts DEF WindowInv, WindowType, Shows
<1>3. Tail(toMain) \in Seq(ToMain)
  BY <1>1, <1>2, Removed
<1>4. /\ delivery' \in Entries \cup {None} /\ requests' \in Seq(Requests)
      /\ toWindow' \in Seq(ToWindow)
      /\ Fetching(delivery', requests', channel, resolved, reloads, handler, ring, ended)
      /\ Presenting(delivery', toWindow', Tail(toMain), window, handler, rd, outputCursor,
                    ring, ended)
  BY <1>2, PumpKeeps
<1>5. WindowType'
  BY <1>1, <1>2, <1>3, <1>4 DEF WindowType
<1>6. OnItsWay'
  BY <1>1, <1>2 DEF OnItsWay
<1> QED BY <1>1, <1>4, <1>5, <1>6 DEF WindowInv, RingInv, FetchInv, PresentInv, Shows

\* The window's first message: it has answered the inventory and waits.
LEMMA ReadyIsKept ==
  ASSUME WindowInv, OnReady
  PROVE  WindowInv'
<1>1. /\ Receive("ready") /\ ready' = TRUE /\ Pump(delivery, TRUE)
      /\ toMain # <<>> /\ Head(toMain).op = "ready"
  BY DEF OnReady, Receive
<1>2. /\ toMain \in Seq(ToMain) /\ delivery \in Entries \cup {None} /\ ready \in BOOLEAN
      /\ Fetching(delivery, requests, channel, resolved, reloads, handler, ring, ended)
      /\ Presenting(delivery, toWindow, toMain, window, handler, ready, outputCursor,
                    ring, ended)
      /\ window \in {"loading", "asked", "ready", "failed"}
  BY DEF WindowInv, WindowType, FetchInv, PresentInv
<1>3. Loading(delivery, toWindow, toMain, window, handler, ready, outputCursor, ring)
  BY <1>2 DEF Presenting
<1>4. Head(toMain) = toMain[1] /\ 1 \in 1..Len(toMain)
  BY <1>1, <1>2, Removed
<1>5. window = "ready" /\ handler = "no" /\ delivery # None
  BY <1>1, <1>2, <1>3 DEF Loading
<1>6. ~ready
  BY <1>1, <1>2, <1>4 DEF Presenting, Idle, Sending, Acknowledging
<1>7. /\ delivery.inFlight = None /\ toWindow = <<>> /\ Len(toMain) = 1
      /\ outputCursor = delivery.cursor
  BY <1>3, <1>5, <1>6 DEF Loading
<1>8. Tail(toMain) = <<>>
  BY <1>2, <1>7, Nothing
<1>9. 1..Len(toWindow) = {}
  BY <1>7, Nothing
<1>10. Presenting(delivery, toWindow, Tail(toMain), window, handler, TRUE, outputCursor,
                  ring, ended)
  <2>1. Idle(delivery, toWindow, Tail(toMain), outputCursor)
    BY <1>7, <1>8, <1>9 DEF Idle
  <2>2. ExitLast(toWindow, TRUE, outputCursor, ring, ended)
    BY <1>9 DEF ExitLast
  <2> QED BY <1>2, <1>5, <2>1, <2>2, ReadyPresents
<1> QED BY <1>1, <1>2, <1>5, <1>10, ReceiveKeeps

\* The batch in flight is acknowledged: nothing else is under way, and the next batch
\* goes on where this one ended.
LEMMA AckIsKept ==
  ASSUME WindowInv, OnAck
  PROVE  WindowInv'
<1> DEFINE d == [delivery EXCEPT !.cursor = delivery.inFlight, !.inFlight = None]
<1>1. /\ Receive("ack") /\ ready' = ready
      /\ toMain # <<>> /\ Head(toMain).op = "ack"
      /\ delivery # None /\ delivery.inFlight = Head(toMain).cursor => Pump(d, ready)
  BY DEF OnAck, Receive
<1>2. /\ toMain \in Seq(ToMain) /\ delivery \in Entries \cup {None} /\ ready \in BOOLEAN
      /\ Fetching(delivery, requests, channel, resolved, reloads, handler, ring, ended)
      /\ Presenting(delivery, toWindow, toMain, window, handler, ready, outputCursor,
                    ring, ended)
      /\ window \in {"loading", "asked", "ready", "failed"}
      /\ outputCursor \in Nat /\ ring.next \in Nat /\ outputCursor <= ring.next
  BY RingFacts DEF WindowInv, WindowType, FetchInv, PresentInv, Shows
<1>3. Loading(delivery, toWindow, toMain, window, handler, ready, outputCursor, ring)
  BY <1>2 DEF Presenting
<1>4. Head(toMain) = toMain[1] /\ 1 \in 1..Len(toMain)
  BY <1>1, <1>2, Removed
<1>5. window = "ready" /\ delivery # None
  BY <1>1, <1>2, <1>3 DEF Loading
<1>6. ready
  BY <1>1, <1>3, <1>4, <1>5 DEF Loading
<1>7. handler = "no"
  BY <1>3, <1>5 DEF Loading
<1>8. /\ ~delivery.pumping /\ toWindow = <<>> /\ Len(toMain) = 1
      /\ Head(toMain).cursor = outputCursor /\ delivery.inFlight = outputCursor
  BY <1>1, <1>2, <1>4, <1>6 DEF Presenting, Idle, Sending, Acknowledging
<1>9. Pump(d, ready)
  BY <1>1, <1>5, <1>8
<1>10. /\ d \in Entries /\ d # None /\ d.of = delivery.of /\ d.cursor = outputCursor
       /\ d.inFlight = None /\ d.pumping = delivery.pumping
       /\ d.pendingExit = delivery.pendingExit
  <2>1. delivery \in Entries
    BY <1>2, <1>5
  <2>2. d \in Entries
    BY <1>2, <1>8, <2>1 DEF Entries
  <2> QED BY <1>8, <2>1, <2>2, EntryFields DEF Entries
<1> HIDE DEF d
<1>11. Fetching(d, requests, channel, resolved, reloads, handler, ring, ended)
  <2>1. Nobody(requests, channel, resolved, reloads)
    BY <1>2, <1>7, <1>8, NobodyAwaits
  <2>2. /\ AllExpected(requests, reloads, handler, d, ring)
        /\ AllExpected(channel, reloads, handler, d, ring)
        /\ AllExpected(resolved, reloads, handler, d, ring)
    BY <2>1, NobodySingle
  <2>3. d.of = reloads /\ Pending(d, ring, ended)
    BY <1>2, <1>5, <1>10 DEF Fetching, Pending
  <2> QED BY <1>2, <2>2, <2>3 DEF Fetching
<1>12. Presenting(d, toWindow, Tail(toMain), window, handler, TRUE, outputCursor, ring,
                  ended)
  <2>1. Tail(toMain) = <<>> /\ 1..Len(toWindow) = {}
    BY <1>2, <1>8, Nothing
  <2>2. Idle(d, toWindow, Tail(toMain), outputCursor)
    BY <1>10, <2>1 DEF Idle
  <2>3. ExitLast(toWindow, TRUE, outputCursor, ring, ended)
    BY <2>1 DEF ExitLast
  <2> QED BY <1>5, <1>7, <1>10, <2>2, <2>3, ReadyPresents
<1>13. ready = TRUE
  BY <1>2, <1>6
<1> QED BY <1>1, <1>9, <1>10, <1>11, <1>12, <1>13, ReceiveKeeps

-----------------------------------------------------------------------------
(* The invariant, and what follows.                                        *)

LEMMA InitInv == Init => WindowInv
<1> SUFFICES ASSUME Init PROVE WindowInv
  OBVIOUS
<1>1. /\ ring = EmptyRing /\ ended = FALSE /\ requests = <<>> /\ channel = <<>>
      /\ resolved = <<>> /\ link = "up" /\ inventory = Item /\ handler = "no"
      /\ delivery = None /\ ready = FALSE /\ window = "loading" /\ outputCursor = 0
      /\ shown = <<>> /\ told = FALSE /\ reloads = 0 /\ toWindow = <<>> /\ toMain = <<>>
      /\ touched = 0 /\ sequence = 0
  BY DEF Init
<1>2. RingInv /\ ring.next = 0 /\ ring.oldest = 0
  <2>1. RingInv /\ ring.next = 0
    BY <1>1, EmptyNewest DEF RingInv
  <2> QED BY <1>1, <2>1 DEF EmptyRing
<1>3. /\ inventory.next = 0 /\ inventory.oldest = 0 /\ inventory.final = FALSE
      /\ inventory \in Items
  <2>1. inventory = [next |-> 0, oldest |-> 0, final |-> FALSE, sequence |-> 0]
    BY <1>1, <1>2, Zenon DEF Item
  <2> QED BY <2>1 DEF Items
<1>4. WindowType
  <2>1. /\ <<>> \in Seq(Requests) /\ <<>> \in Seq(Frames) /\ <<>> \in Seq(Responses)
        /\ <<>> \in Seq(ToWindow) /\ <<>> \in Seq(ToMain) /\ <<>> \in Seq(Int)
    BY Nothing
  <2> QED BY <1>1, <1>3, <2>1 DEF WindowType
<1>5. OnItsWay
  BY <1>1, <1>2, <1>3, EmptyFacts DEF OnItsWay, Honest
<1>6. FetchInv
  <2>1. Nobody(<<>>, <<>>, <<>>, 0)
    BY EmptyFacts
  <2>2. Single(<<>>, <<>>, <<>>, 0)
    BY <2>1, NobodySingle
  <2> QED BY <1>1, <2>2, EmptyFacts DEF FetchInv, Fetching, Pending
<1>7. PresentInv
  BY <1>1 DEF PresentInv, Presenting, Loading, ExitLast
<1>8. Shows
  <2>1. UpTo(<<>>, 0, ring)
    BY <1>2, Nothing DEF UpTo, LastOf
  <2> QED BY <1>1, <1>2, <2>1 DEF Shows
<1> QED BY <1>2, <1>4, <1>5, <1>6, <1>7, <1>8 DEF WindowInv

LEMMA StutterKeeps == WindowInv /\ UNCHANGED vars => WindowInv'
<1> SUFFICES ASSUME WindowInv, UNCHANGED vars PROVE WindowInv'
  OBVIOUS
<1>1. /\ ring' = ring /\ ended' = ended /\ requests' = requests /\ channel' = channel
      /\ resolved' = resolved /\ link' = link /\ inventory' = inventory
      /\ handler' = handler /\ listed' = listed /\ delivery' = delivery
      /\ ready' = ready /\ window' = window /\ outputCursor' = outputCursor
      /\ shown' = shown /\ told' = told /\ reloads' = reloads
      /\ toWindow' = toWindow /\ toMain' = toMain
      /\ sequence' = sequence /\ touched' = touched
  BY DEF vars, daemon, wire, main, tab, messages
<1> QED BY <1>1, AllKept

LEMMA StepKeeps == WindowInv /\ [Next]_vars => overwritten' \/ WindowInv'
<1> SUFFICES ASSUME WindowInv, [Next]_vars PROVE overwritten' \/ WindowInv'
  OBVIOUS
<1>1. Output \/ End \/ Touch \/ Serve \/ Drop \/ Reconnect \/ Reload => WindowInv'
  BY OutputKeeps, EndKeeps, TouchKeeps, ServeKeeps, DropKeeps, ReconnectKeeps, ReloadKeeps
<1>2. OnOutputAvailable \/ OnExit \/ OnTouched \/ OnResponse \/ OnBatch \/ OnConnected
        => WindowInv'
  BY OutputAvailableKeeps, ExitHeardKeeps, TouchedKeeps, ResponseKeeps, BatchKeeps,
     ConnectedKeeps
<1>3. OnListed \/ OnControl \/ OnReady \/ OnAck => WindowInv'
  BY ListedKeeps, ControlKeeps, ReadyIsKept, AckIsKept
<1>4. OldAnswer => overwritten' \/ WindowInv'
  BY OldAnswerKeeps
<1>5. Ask \/ GetInventory \/ GetData \/ GetExit => WindowInv'
  BY AskKeeps, GetInventoryKeeps, GetDataKeeps, GetExitKeeps
<1> QED BY <1>1, <1>2, <1>3, <1>4, <1>5, StutterKeeps DEF Next, Main, Window

\* The history is never forgotten.
LEMMA OverwrittenStays == overwritten /\ [Next]_vars => overwritten'
<1> SUFFICES ASSUME overwritten, [Next]_vars PROVE overwritten'
  OBVIOUS
<1>1. Output \/ End \/ Touch \/ Serve \/ Reconnect => overwritten' = overwritten
  BY DEF Output, End, Touch, Serve, Reconnect, main, superseded
<1>2. OnOutputAvailable \/ OnExit \/ OnTouched \/ OnResponse => overwritten' = overwritten
  BY DEF OnOutputAvailable, OnExit, OnTouched, OnResponse, Event, superseded
<1>3. OnBatch \/ OnConnected \/ OnListed \/ OnControl => overwritten' = overwritten
  BY DEF OnBatch, OnConnected, OnListed, OnControl, Continue, superseded
<1>4. OnReady \/ OnAck \/ Drop \/ Reload => overwritten' = overwritten
  BY DEF OnReady, OnAck, Receive, Drop, Reload, superseded
<1>5. Ask \/ GetInventory \/ GetData \/ GetExit => overwritten' = overwritten
  BY DEF Ask, GetInventory, GetData, GetExit, Get, main, superseded
<1>6. OldAnswer => overwritten'
  BY DEF OldAnswer
<1>7. UNCHANGED vars => overwritten' = overwritten
  BY DEF vars, main, superseded
<1> QED BY <1>1, <1>2, <1>3, <1>4, <1>5, <1>6, <1>7 DEF Next, Main, Window

\* The invariant, until an earlier page's handler has replaced an entry: one batch at
\* most is under way between the daemon and the window's present entry, and what the
\* tab has shown goes up to its cursor.
THEOREM WindowInvariant == Spec => [](overwritten \/ WindowInv)
<1>1. Init => overwritten \/ WindowInv
  BY InitInv
<1>2. (overwritten \/ WindowInv) /\ [Next]_vars => (overwritten \/ WindowInv)'
  BY StepKeeps, OverwrittenStays
<1> QED BY <1>1, <1>2, PTL DEF Spec

\* A tab shows the output in order, nothing twice, and misses only what the ring had
\* dropped, through lost connections and reloads (pumpTerminal, applyTerminalEvent),
\* unless an earlier page's handler has replaced its entry.
THEOREM ShownInOrderHolds == Spec => []ShownInOrder
<1>1. overwritten \/ WindowInv => ShownInOrder
  BY DEF WindowInv, Shows, UpTo, ShownInOrder
<1> QED BY <1>1, WindowInvariant, PTL

\* The exit is presented below the last byte of output, never above output that is
\* still fetched, in flight or unacknowledged (sendPendingExit), unless an earlier
\* page's handler has replaced the entry.
THEOREM ExitBelowOutputHolds == Spec => []ExitBelowOutput
<1>1. ASSUME WindowInv, told, ring.next > 0
      PROVE  shown # <<>> /\ Last(shown) = ring.next - 1
  <2>1. /\ ring.next \in Nat /\ ring.oldest \in Nat /\ ring.oldest < ring.next
        /\ outputCursor = ring.next /\ UpTo(shown, outputCursor, ring)
    BY <1>1, RingFacts DEF WindowInv, Shows
  <2>2. LastOf(shown) = ring.next - 1
    <3> HIDE DEF UpTo
    <3>1. LastOf(shown) # ring.next - 1 => ring.oldest >= ring.next
      BY <2>1, Zenon DEF UpTo
    <3> QED BY <2>1, <3>1
  <2>3. shown # <<>>
    BY <1>1, <2>1, <2>2 DEF LastOf
  <2> QED BY <2>2, <2>3 DEF LastOf, Last
<1>2. overwritten \/ WindowInv => ExitBelowOutput
  BY <1>1 DEF ExitBelowOutput
<1> QED BY <1>2, WindowInvariant, PTL

=============================================================================
