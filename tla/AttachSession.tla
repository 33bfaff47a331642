--------------------------- MODULE AttachSession ---------------------------
(***************************************************************************)
(* A terminal of the daemon and a client attached to it.  The daemon        *)
(* announces output and sends it on request; the client asks again while    *)
(* it is behind, and its session ends when the terminal has ended and        *)
(* everything that the daemon still holds has been shown.  Events and        *)
(* responses travel in order on one connection; the client waits for each   *)
(* response before it makes its next request.                               *)
(***************************************************************************)
EXTENDS OutputRing

CONSTANTS
  None,      \* no request
  Chunks,    \* how many bytes the terminal may write at a time
  MaxBytes   \* bound: bytes of output

\* What the client asks for.
Request == [op : {"attach"}, cursor : Nat] \cup [op : {"control", "resize"}]

ASSUME SessionAssumption ==
  Chunks \subseteq 1..MaxBytes /\ MaxBytes \in Nat /\ None \notin Request

VARIABLES
  ring,      \* the terminal's output
  terminal,  \* "running", "finalized" (exit seen), "final", "exited" (published)
  request,   \* the request under way
  channel,   \* what the daemon has sent and the client not yet handled
  phase,     \* client: "away", "replay", "control", "resize", "ready"
  readOnly,  \* it does not want control
  replay,    \* the first response, until it is shown
  cursor, target,  \* what was shown, and what is known to exist
  queued,    \* outputQueued
  exitPending,
  pumping,   \* pumpOutput awaits a response
  end,       \* how the session ended: "no", "exit", "user", "error", "stuck"
  shown      \* the bytes written to the user's terminal, in order

client == <<phase, readOnly, replay, cursor, target, queued, exitPending, pumping,
            end, shown>>
vars == <<ring, terminal, request, channel, client>>

Ended == end # "no"

Init ==
  /\ ring = EmptyRing /\ terminal = "running"
  /\ request = None /\ channel = <<>>
  /\ phase = "away" /\ readOnly \in BOOLEAN /\ replay = None
  /\ cursor = 0 /\ target = 0
  /\ queued = FALSE /\ exitPending = FALSE /\ pumping = FALSE
  /\ end = "no" /\ shown = <<>>

-----------------------------------------------------------------------------
(* The daemon.                                                             *)

\* What is published, to the clients that are there.
Say(m) == channel' = IF phase = "away" THEN channel ELSE Append(channel, m)

Output ==
  /\ terminal = "running"
  /\ \E n \in Chunks :
       /\ ring.next + n <= MaxBytes
       /\ ring' = AppendOutput(ring, n)
  /\ Say([op |-> "output", next |-> ring'.next])
  /\ UNCHANGED <<terminal, request, client>>

\* The process exits; its result is read; the end is sent and then published.
Exit ==
  /\ \/ terminal = "running" /\ terminal' = "finalized" /\ UNCHANGED channel
     \/ terminal = "finalized" /\ terminal' = "final" /\ UNCHANGED channel
     \/ terminal = "final" /\ terminal' = "exited"
        /\ Say([op |-> "exit", next |-> ring.next])
  /\ UNCHANGED <<ring, request, client>>

Final == terminal \in {"final", "exited"}

\* dispatch of the client's request.  Control is refused when the exit was seen or
\* another client has it, and lost when the terminal is final.
Respond ==
  /\ request # None
  /\ CASE request.op = "attach" ->
            Say([op |-> "slice", slice |-> OutputSlice(ring, request.cursor),
                 final |-> Final])
       [] request.op = "control" ->
            IF terminal # "running" THEN Say([op |-> "not_running"])
            ELSE \E answer \in {"ok", "refused"} : Say([op |-> answer])
       [] request.op = "resize" ->
            IF Final THEN Say([op |-> "refused"])
            ELSE \E answer \in {"ok", "refused"} : Say([op |-> answer])
  /\ request' = None
  /\ UNCHANGED <<ring, terminal, client>>

-----------------------------------------------------------------------------
(* The client.                                                             *)

Hear(op) == ~Ended /\ channel # <<>> /\ Head(channel).op = op
Heard == channel' = Tail(channel)

Finish(how) == end' = how

\* pumpOutput, unless it is under way: the next slice is requested.
Pump(c) ==
  /\ queued' = FALSE /\ pumping' = TRUE
  /\ request' = [op |-> "attach", cursor |-> c]

\* attachTerminal: the client listens, and requests the output from the start.
Attach ==
  /\ phase = "away"
  /\ phase' = "replay" /\ request' = [op |-> "attach", cursor |-> 0]
  /\ UNCHANGED <<ring, terminal, channel, readOnly, replay, cursor, target, queued,
                 exitPending, pumping, end, shown>>

OnOutputAvailable ==
  /\ Hear("output") /\ Heard
  /\ target' = Larger(target, Head(channel).next)
  /\ IF phase = "ready" /\ ~pumping THEN Pump(cursor)
     ELSE queued' = TRUE /\ UNCHANGED <<pumping, request>>
  /\ UNCHANGED <<ring, terminal, phase, readOnly, replay, cursor, exitPending,
                 end, shown>>

\* Fault: the session ends with the terminal.
OnExitAtOnce ==
  /\ Hear("exit") /\ Heard
  /\ exitPending' = TRUE
  /\ IF phase = "ready" THEN Finish("exit") ELSE UNCHANGED end
  /\ UNCHANGED <<ring, terminal, phase, readOnly, replay, cursor, target, shown,
                 queued, pumping, request>>

OnExit ==
  /\ Hear("exit") /\ Heard
  /\ exitPending' = TRUE
  /\ target' = Larger(target, Head(channel).next)
  /\ IF phase # "ready" THEN UNCHANGED <<queued, pumping, request, end>>
     ELSE IF cursor >= target'
     THEN Finish("exit") /\ UNCHANGED <<queued, pumping, request>>
     ELSE /\ IF pumping THEN queued' = TRUE /\ UNCHANGED <<pumping, request>>
             ELSE Pump(cursor)
          /\ UNCHANGED end
  /\ UNCHANGED <<ring, terminal, phase, readOnly, replay, cursor, shown>>

\* Fault: that the terminal was over before the client came is not looked at.
OverAlready(r) == FALSE

\* alreadyFinal, and its use when the replay is shown.
AlreadyFinal(r) == r.final

\* The replay is shown, and the session goes on with what came in meanwhile.
ShowReplay(r, exiting, q) ==
  /\ phase' = "ready" /\ replay' = None
  /\ shown' = shown \o r.slice.data
  /\ cursor' = r.slice.end
  /\ target' = Larger(target, r.slice.next)
  /\ exitPending' = (exiting \/ AlreadyFinal(r))
  /\ IF cursor' < target' \/ q
     THEN Pump(cursor') /\ UNCHANGED end
     ELSE /\ IF exitPending' THEN Finish("exit") ELSE UNCHANGED end
          /\ UNCHANGED <<queued, pumping>> /\ request' = None

\* The replay arrives; a client that wants control asks for it first.
OnReplay ==
  /\ Hear("slice") /\ phase = "replay" /\ Heard
  /\ IF readOnly \/ AlreadyFinal(Head(channel))
     THEN ShowReplay(Head(channel), exitPending, queued)
     ELSE /\ replay' = Head(channel) /\ phase' = "control"
          /\ request' = [op |-> "control"]
          /\ UNCHANGED <<cursor, target, queued, exitPending, pumping, end, shown>>
  /\ UNCHANGED <<ring, terminal, readOnly>>

\* A refusal other than not_running ends the session with an error.
OnControl ==
  /\ phase \in {"control", "resize"}
  /\ \/ /\ Hear("ok") /\ phase = "control"
        /\ phase' = "resize" /\ request' = [op |-> "resize"]
        /\ UNCHANGED <<replay, cursor, target, queued, exitPending, pumping, end, shown>>
     \/ Hear("ok") /\ phase = "resize" /\ ShowReplay(replay, exitPending, queued)
     \/ Hear("not_running") /\ ShowReplay(replay, TRUE, TRUE)
     \/ /\ Hear("refused") /\ Finish("error")
        /\ UNCHANGED <<phase, replay, cursor, target, queued, exitPending, pumping,
                       shown, request>>
  /\ Heard
  /\ UNCHANGED <<ring, terminal, readOnly>>

\* pumpOutput's response.
OnSlice ==
  LET slice == Head(channel).slice IN
  /\ Hear("slice") /\ phase = "ready" /\ Heard
  /\ shown' = shown \o slice.data
  /\ target' = Larger(target, slice.next)
  /\ IF slice.end <= cursor /\ cursor < target'
     THEN Finish("stuck") /\ UNCHANGED <<cursor, queued, pumping, request>>
     ELSE /\ cursor' = slice.end
          /\ IF cursor' >= target' /\ exitPending
             THEN Finish("exit") /\ pumping' = FALSE /\ UNCHANGED <<queued, request>>
             ELSE /\ IF cursor' < target' \/ queued THEN Pump(cursor')
                     ELSE pumping' = FALSE /\ UNCHANGED <<queued, request>>
                  /\ UNCHANGED end
  /\ UNCHANGED <<ring, terminal, phase, readOnly, replay, exitPending>>

\* The user detaches, another client takes control, or the connection is lost.
UserEnds ==
  /\ ~Ended /\ phase = "ready"
  /\ Finish("user")
  /\ UNCHANGED <<ring, terminal, request, channel, phase, readOnly, replay, cursor,
                 target, queued, exitPending, pumping, shown>>

Client == OnOutputAvailable \/ OnExit \/ OnReplay \/ OnControl \/ OnSlice

Next == Output \/ Exit \/ Attach \/ Respond \/ Client \/ UserEnds

Spec == Init /\ [][Next]_vars

\* The daemon answers and publishes, the connection delivers, a process that has
\* exited is finalized.  A process need not exit.
FairSpec ==
  /\ Spec
  /\ WF_vars(Respond) /\ WF_vars(Client) /\ WF_vars(terminal # "running" /\ Exit)

-----------------------------------------------------------------------------
(* Properties.                                                             *)

TypeOK ==
  /\ terminal \in {"running", "finalized", "final", "exited"}
  /\ phase \in {"away", "replay", "control", "resize", "ready"}
  /\ readOnly \in BOOLEAN /\ queued \in BOOLEAN
  /\ exitPending \in BOOLEAN /\ pumping \in BOOLEAN
  /\ cursor \in 0..MaxBytes /\ target \in 0..MaxBytes
  /\ end \in {"no", "exit", "user", "error", "stuck"}
  /\ shown \in Seq(0..MaxBytes)

\* The chunks hold exactly the newest bytes, in order, as many as the ring may have
\* (appendOutput, whatever sizes the output came in).
RingHoldsNewest ==
  /\ ring.oldest = Larger(0, ring.next - RingBytes)
  /\ \E held \in {FoldLeft(LAMBDA bytes, chunk :
                    bytes \o SubSeq(chunk.data, chunk.start + 1, Len(chunk.data)),
                    <<>>, ring.chunks)} :
       held = [i \in 1..(ring.next - ring.oldest) |-> ring.oldest + i - 1]

\* The user sees the output in order, nothing twice, and misses only what the ring
\* had dropped (outputSlice, and the client's cursor).
ShownInOrder ==
  \A i \in 1..Len(shown) :
    LET before == IF i = 1 THEN -1 ELSE shown[i - 1] IN
    /\ before < shown[i]
    /\ shown[i] # before + 1 => ring.oldest >= shown[i]

\* A session that ends because the terminal did has shown its last byte, and a
\* session never finds that its cursor does not advance (attach.ts 194).
EndsWithLastByte ==
  /\ end = "exit" /\ ring.next > 0 => shown # <<>> /\ Last(shown) = ring.next - 1
  /\ end # "stuck"

\* The end of a terminal ends the session, whenever the client attached: before the
\* exit, between the exit and its publication, or afterwards (attach.ts 276 and 328).
SessionEnds == terminal # "running" /\ phase # "away" ~> Ended

=============================================================================
