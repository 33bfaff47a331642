----------------------------- MODULE OutputRing -----------------------------
(***************************************************************************)
(* The output that the daemon retains of a terminal: chunks in a ring of   *)
(* bounded size, read by cursor.  A cursor is the number of bytes that the *)
(* terminal wrote before; a byte is represented by its cursor, so what a   *)
(* read returns shows which bytes it returned.                             *)
(***************************************************************************)
EXTENDS Integers, Sequences, SequencesExt

CONSTANTS
  RingBytes,   \* OUTPUT_RING_BYTES
  ChunkBytes,  \* OUTPUT_CHUNK_BYTES
  SliceBytes   \* DAEMON_MAX_IO_BYTES

ASSUME RingAssumption ==
  RingBytes \in Nat \ {0} /\ ChunkBytes \in Nat \ {0} /\ SliceBytes \in Nat \ {0}

\* A ring, as appendOutput leaves it.  A chunk's data is what its buffer holds, its
\* size the buffer's; start is what has been dropped of it.
EmptyRing == [chunks |-> <<>>, oldest |-> 0, next |-> 0]

Held(chunk) == Len(chunk.data) - chunk.start

\* One byte, in the last chunk or in a new one.
AppendByte(chunks, byte) ==
  IF chunks # <<>> /\ Len(Last(chunks).data) < Last(chunks).size
  THEN [chunks EXCEPT ![Len(chunks)].data = Append(@, byte)]
  ELSE Append(chunks, [cursor |-> byte, data |-> <<byte>>, start |-> 0,
                       size |-> ChunkBytes])

HeldBy(chunks) == FoldLeft(LAMBDA sum, chunk : sum + Held(chunk), 0, chunks)

\* Fault: the oldest cursor stays at the chunk that was dropped.
DropWhole(ring, excess) ==
  LET chunk == Head(ring.chunks) IN
  [ring EXCEPT !.chunks = Tail(@), !.oldest = chunk.cursor]

\* The first chunk, which is within the excess, goes.
DropFirst(ring, excess) ==
  LET chunk == Head(ring.chunks) IN
  [ring EXCEPT !.chunks = Tail(@), !.oldest = chunk.cursor + Held(chunk)]

\* The first chunk loses its oldest bytes.
TrimFirst(ring, excess) ==
  [ring EXCEPT !.chunks[1].start = @ + excess,
               !.chunks[1].cursor = @ + excess,
               !.oldest = ring.chunks[1].cursor + excess]

\* The loop of appendOutput, which looks at each chunk once.
TrimOnce(ring, chunk) ==
  LET excess == HeldBy(ring.chunks) - RingBytes IN
  IF excess <= 0 THEN ring
  ELSE IF Held(chunk) <= excess THEN DropFirst(ring, excess)
  ELSE TrimFirst(ring, excess)

Trimmed(ring) == FoldLeft(TrimOnce, ring, ring.chunks)

\* appendOutput of n bytes.  As much as the ring holds replaces it.
AppendOutput(ring, n) ==
  LET next == ring.next + n
      bytes == [i \in 1..n |-> ring.next + i - 1]
  IN
  IF n >= RingBytes
  THEN [chunks |-> <<[cursor |-> next - RingBytes, start |-> 0, size |-> RingBytes,
                      data |-> SubSeq(bytes, n - RingBytes + 1, n)]>>,
        oldest |-> next - RingBytes, next |-> next]
  ELSE Trimmed([chunks |-> FoldLeft(AppendByte, ring.chunks, bytes),
                oldest |-> ring.oldest, next |-> next])

Larger(a, b) == IF a > b THEN a ELSE b
Smaller(a, b) == IF a < b THEN a ELSE b

\* Fault: the offset into a chunk forgets what was dropped of the chunk.
TakenFromBuffer(chunk, from, to) ==
  SubSeq(chunk.data, Larger(0, from - chunk.cursor) + 1,
         Smaller(Len(chunk.data), to - chunk.cursor))

\* What a read of [from, to) takes from a chunk.
Taken(chunk, from, to) ==
  SubSeq(chunk.data, chunk.start + Larger(0, from - chunk.cursor) + 1,
         chunk.start + Smaller(Held(chunk), to - chunk.cursor))

\* outputSlice, for a cursor that is not ahead of the terminal.
OutputSlice(ring, cursor) ==
  LET from == Larger(cursor, ring.oldest)
      to == Smaller(ring.next, from + SliceBytes)
      data == FoldLeft(LAMBDA bytes, chunk : bytes \o Taken(chunk, from, to),
                       <<>>, ring.chunks)
  IN  [data |-> data, end |-> from + Len(data), next |-> ring.next]

=============================================================================
