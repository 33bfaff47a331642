---------------------------- MODULE DaemonProofs ----------------------------
(***************************************************************************)
(* Proofs about the terminal daemon.  For any number of terminals, trees   *)
(* and clients: its types, the admission limits, the agreement on control, *)
(* and what a shutdown leaves behind.  For any number of attempts and of   *)
(* dropped queues: the repository state never goes back, and what the      *)
(* daemon takes for delivered has been received.                           *)
(***************************************************************************)
EXTENDS TerminalDaemon, StateSync, SequenceTheorems, FiniteSetTheorems, TLAPS

\* Terminals that count when another one asks for admission.
Occupied == {t \in Ids : status[t] \in Active \cup {"claimed"}}

RoomInv ==
  /\ Cardinality(Occupied) <= MaxTerminals
  /\ \A t, u \in Occupied : TreeOf[t] = TreeOf[u] => t = u

\* A process belongs to an active terminal; an exit that was seen is an exit.
ProcessInv ==
  \A t \in Ids :
    /\ process[t] = "alive" => status[t] \in Active
    /\ status[t] \in {"absent", "claimed"} => process[t] = "none"
    /\ t \in finalized => process[t] = "gone"
    /\ status[t] \in {"final", "forgotten"} => t \in finalized

\* Past the settling of the starts none is pending, and past the killing no
\* process lives that was not killed.
ClosingInv ==
  /\ closing \in {"waiting", "killing", "severed", "exited"} =>
       \A t \in Ids : status[t] # "claimed"
  /\ closing \in {"killing", "severed", "exited"} =>
       \A t \in Ids : process[t] = "alive" => t \in killed

DaemonInv == TypeOK /\ RoomInv /\ ProcessInv /\ ControlAgrees /\ ClosingInv

-----------------------------------------------------------------------------
(* Types.                                                                  *)

LEMMA StopType ==
  ASSUME TypeOK, NEW S, Stop(S)
  PROVE  status' \in [Ids -> {"absent", "claimed", "final", "forgotten"} \cup Active]
BY DEF Stop, TypeOK, Active

LEMMA DisconnectType ==
  ASSUME TypeOK, NEW C \in SUBSET Clients, Disconnect(C)
  PROVE  /\ controller' \in [Ids -> Clients \cup {Nobody}]
         /\ controlled' \in [Clients -> SUBSET Ids]
         /\ attached' \in [Clients -> SUBSET Ids]
         /\ connected' \subseteq Clients
BY DEF Disconnect, TypeOK

LEMMA TerminalType ==
  ASSUME TypeOK, NEW t \in Ids, OfTerminal(t)
  PROVE  TypeOK'
<1> USE DEF TypeOK, terminals, clients, Active
<1>1. CASE Start(t)
  BY <1>1 DEF Start
<1>2. CASE HostCreated(t)
  BY <1>2 DEF HostCreated
<1>3. CASE HostFails(t)
  BY <1>3 DEF HostFails
<1>4. CASE SetLifecycle(t)
  BY <1>4 DEF SetLifecycle
<1>5. CASE OutputAsks(t)
  BY <1>5 DEF OutputAsks
<1>6. CASE KillTimer(t)
  BY <1>6 DEF KillTimer
<1>7. CASE ProcessExit(t)
  BY <1>7 DEF ProcessExit
<1>8. CASE BeginFinalize(t)
  BY <1>8 DEF BeginFinalize
<1>9. CASE Finalize(t)
  BY <1>9 DEF Finalize
<1>10. CASE Forget(t)
  BY <1>10 DEF Forget
<1> QED
  BY <1>1, <1>2, <1>3, <1>4, <1>5, <1>6, <1>7, <1>8, <1>9, <1>10 DEF OfTerminal

LEMMA ClientType ==
  ASSUME TypeOK, NEW c \in Clients, OfClient(c)
  PROVE  TypeOK'
<1> USE DEF TypeOK, terminals, clients, Active
<1>1. CASE Connect(c)
  BY <1>1 DEF Connect
<1>2. CASE Leave(c)
  BY <1>2, DisconnectType DEF Leave
<1>3. ASSUME NEW t \in Ids, Attach(c, t) PROVE TypeOK'
  BY <1>3 DEF Attach
<1>4. ASSUME NEW t \in Ids, Detach(c, t) PROVE TypeOK'
  BY <1>4 DEF Detach
<1>5. ASSUME NEW t \in Ids, ReleaseControl(c, t) PROVE TypeOK'
  BY <1>5 DEF ReleaseControl
<1>6. ASSUME NEW t \in Ids, NEW takeover \in BOOLEAN, AcquireControl(c, t, takeover)
      PROVE TypeOK'
  BY <1>6 DEF AcquireControl
<1>7. ASSUME NEW t \in Ids, BeginWrite(c, t) PROVE TypeOK'
  BY <1>7 DEF BeginWrite
<1>8. ASSUME NEW t \in Ids, EndWrite(c, t) PROVE TypeOK'
  BY <1>8 DEF EndWrite
<1> QED
  BY <1>1, <1>2, <1>3, <1>4, <1>5, <1>6, <1>7, <1>8 DEF OfClient

LEMMA TypeStep ==
  ASSUME TypeOK, [Next]_vars
  PROVE  TypeOK'
<1> USE DEF TypeOK, terminals, clients, Stages
<1>1. CASE \E t \in Ids : OfTerminal(t)
  BY <1>1, TerminalType
<1>2. CASE \E c \in Clients : OfClient(c)
  BY <1>2, ClientType
<1>3. CASE StopSome
  <2>1. PICK t \in ActiveTerminals : Stop({t})
    BY <1>3 DEF StopSome
  <2> QED BY <1>3, <2>1, StopType DEF StopSome
<1>4. CASE StopAll
  BY <1>4, StopType DEF StopAll
<1>5. CASE BeginClose
  BY <1>5 DEF BeginClose
<1>6. CASE CloseStops
  BY <1>6, StopType DEF CloseStops
<1>7. CASE CloseKills
  BY <1>7 DEF CloseKills, ActiveTerminals
<1>8. CASE CloseSevers
  BY <1>8, DisconnectType DEF CloseSevers
<1>9. CASE Exit \/ UNCHANGED vars
  BY <1>9 DEF Exit, vars
<1> QED
  BY <1>1, <1>2, <1>3, <1>4, <1>5, <1>6, <1>7, <1>8, <1>9 DEF Next

-----------------------------------------------------------------------------
(* Admission.                                                              *)

\* Nothing but Start occupies: what the other actions make of the statuses.
LEMMA FewerOccupied ==
  ASSUME TypeOK, RoomInv, Occupied' \subseteq Occupied
  PROVE  RoomInv'
<1>1. IsFiniteSet(Occupied) /\ IsFiniteSet(Occupied')
  BY DaemonAssumption, FS_Subset DEF Occupied
<1>2. Cardinality(Occupied') <= Cardinality(Occupied)
  BY <1>1, FS_Subset
<1>3. Cardinality(Occupied) \in Nat /\ Cardinality(Occupied') \in Nat
  BY <1>1, FS_CardinalityType
<1>4. Cardinality(Occupied') <= MaxTerminals
  BY <1>2, <1>3, DaemonAssumption DEF RoomInv
<1> QED BY <1>4 DEF RoomInv

\* A start finds room for one more.
LEMMA StartRoom ==
  ASSUME TypeOK, RoomInv, NEW t \in Ids, Start(t)
  PROVE  RoomInv'
<1>1. /\ IsFiniteSet(ActiveTerminals) /\ IsFiniteSet(Claimed)
      /\ IsFiniteSet(ActiveTerminals \cap Claimed)
  BY DaemonAssumption, FS_Subset DEF ActiveTerminals, Claimed
<1>2. Occupied = ActiveTerminals \cup Claimed /\ ActiveTerminals \cap Claimed = {}
  BY DEF Occupied, ActiveTerminals, Claimed, Active
<1>3. Cardinality(Occupied) = Cardinality(ActiveTerminals) + Cardinality(Claimed)
  <2>1. Cardinality(Occupied) = Cardinality(ActiveTerminals) + Cardinality(Claimed)
                                  - Cardinality(ActiveTerminals \cap Claimed)
    BY <1>1, <1>2, FS_Union
  <2>2. Cardinality(ActiveTerminals \cap Claimed) = 0
    BY <1>2, FS_EmptySet
  <2>3. Cardinality(ActiveTerminals) \in Nat /\ Cardinality(Claimed) \in Nat
    BY <1>1, FS_CardinalityType
  <2> QED BY <2>1, <2>2, <2>3
<1>4. IsFiniteSet(Occupied)
  BY DaemonAssumption, FS_Subset DEF Occupied
<1>5. Occupied' = Occupied \cup {t}
  BY DEF Start, Occupied, TypeOK, Active
<1>6. Cardinality(Occupied') <= MaxTerminals
  <2>1. Cardinality(Occupied') <= Cardinality(Occupied) + 1
    <3>1. Cardinality(Occupied') =
            IF t \in Occupied THEN Cardinality(Occupied) ELSE Cardinality(Occupied) + 1
      BY <1>4, <1>5, FS_AddElement
    <3>2. Cardinality(Occupied) \in Nat
      BY <1>4, FS_CardinalityType
    <3> QED BY <3>1, <3>2
  <2>2. Cardinality(Occupied) < MaxTerminals
    BY <1>3 DEF Start, HasRoom
  <2>3. Cardinality(Occupied) \in Nat
    BY <1>4, FS_CardinalityType
  <2>4. Cardinality(Occupied') \in Nat
    BY <1>4, <1>5, FS_AddElement, FS_CardinalityType
  <2> QED BY <2>1, <2>2, <2>3, <2>4, DaemonAssumption
<1>7. \A u \in Occupied : TreeOf[u] # TreeOf[t]
  BY <1>2 DEF Start, HasRoom
<1> QED BY <1>5, <1>6, <1>7 DEF RoomInv

\* A stop leaves the active terminals active and the others as they are.
LEMMA StopKeeps ==
  ASSUME TypeOK, NEW S, Stop(S), NEW t \in Ids
  PROVE  /\ status[t] \in Active <=> status'[t] \in Active
         /\ status[t] \notin Active => status'[t] = status[t]
         /\ status[t] = "stopping" => status'[t] = "stopping"
BY DEF Stop, Stoppable, Active

LEMMA RoomStep ==
  ASSUME TypeOK, RoomInv, ProcessInv, [Next]_vars
  PROVE  RoomInv'
<1> SUFFICES ASSUME ~\E t \in Ids : Start(t)
             PROVE  Occupied' \subseteq Occupied
  BY FewerOccupied, StartRoom
<1> USE DEF TypeOK, terminals, clients, Active, Occupied
<1>1. ASSUME NEW t \in Ids, OfTerminal(t)
      PROVE  Occupied' \subseteq Occupied
  <2>1. CASE HostCreated(t)
    BY <2>1 DEF HostCreated
  <2>2. CASE HostFails(t)
    BY <2>2 DEF HostFails
  <2>3. CASE SetLifecycle(t)
    BY <2>3 DEF SetLifecycle, MayTurn, Present, ProcessInv
  <2>4. CASE OutputAsks(t)
    BY <2>4 DEF OutputAsks
  <2>5. CASE KillTimer(t) \/ ProcessExit(t) \/ BeginFinalize(t)
    BY <2>5 DEF KillTimer, ProcessExit, BeginFinalize
  <2>6. CASE Finalize(t)
    BY <2>6 DEF Finalize
  <2>7. CASE Forget(t)
    BY <2>7 DEF Forget
  <2> QED BY <1>1, <2>1, <2>2, <2>3, <2>4, <2>5, <2>6, <2>7 DEF OfTerminal
<1>2. ASSUME NEW c \in Clients, OfClient(c)
      PROVE  Occupied' \subseteq Occupied
  <2>1. CASE \E t \in Ids : EndWrite(c, t)
    BY <2>1 DEF EndWrite, Answered
  <2>2. CASE ~\E t \in Ids : EndWrite(c, t)
    BY <1>2, <2>2 DEF OfClient, Connect, Leave, Attach, Detach, ReleaseControl,
                      AcquireControl, BeginWrite
  <2> QED BY <2>1, <2>2
<1>3. CASE StopSome
  BY <1>3, StopKeeps DEF StopSome
<1>4. CASE StopAll
  BY <1>4, StopKeeps DEF StopAll
<1>5. CASE CloseStops
  BY <1>5, StopKeeps DEF CloseStops
<1>6. CASE BeginClose \/ CloseKills \/ CloseSevers \/ Exit \/ UNCHANGED vars
  BY <1>6 DEF BeginClose, CloseKills, CloseSevers, Exit, vars
<1> QED BY <1>1, <1>2, <1>3, <1>4, <1>5, <1>6 DEF Next

-----------------------------------------------------------------------------
(* Processes.                                                              *)

\* The statuses change, and nothing else that ProcessInv speaks of: active
\* terminals stay active, and the others as they are.
LEMMA ProcessKept ==
  ASSUME ProcessInv, UNCHANGED <<process, finalized>>,
         \A t \in Ids : /\ status[t] \in Active => status'[t] \in Active
                        /\ status[t] \notin Active => status'[t] = status[t]
  PROVE  ProcessInv'
BY DEF ProcessInv, Active

LEMMA ProcessStep ==
  ASSUME TypeOK, ProcessInv, [Next]_vars
  PROVE  ProcessInv'
<1> USE DEF TypeOK, terminals, clients
<1>1. ASSUME NEW t \in Ids, OfTerminal(t)
      PROVE  ProcessInv'
  <2>1. CASE Start(t)
    BY <2>1 DEF Start, ProcessInv, Active
  <2>2. CASE HostCreated(t)
    BY <2>2 DEF HostCreated, ProcessInv, Active
  <2>3. CASE HostFails(t)
    BY <2>3 DEF HostFails, ProcessInv, Active
  <2>4. CASE SetLifecycle(t)
    BY <2>4, ProcessKept DEF SetLifecycle, MayTurn, Present, ProcessInv, Active
  <2>5. CASE OutputAsks(t)
    BY <2>5, ProcessKept DEF OutputAsks, Active
  <2>6. CASE KillTimer(t)
    BY <2>6 DEF KillTimer, ProcessInv
  <2>7. CASE ProcessExit(t)
    BY <2>7 DEF ProcessExit, ProcessInv, Active
  <2>8. CASE BeginFinalize(t)
    BY <2>8 DEF BeginFinalize, ProcessInv
  <2>9. CASE Finalize(t)
    BY <2>9 DEF Finalize, ProcessInv, Active
  <2>10. CASE Forget(t)
    BY <2>10 DEF Forget, ProcessInv, Active
  <2> QED BY <1>1, <2>1, <2>2, <2>3, <2>4, <2>5, <2>6, <2>7, <2>8, <2>9, <2>10
          DEF OfTerminal
<1>2. ASSUME NEW c \in Clients, OfClient(c)
      PROVE  ProcessInv'
  <2>1. CASE \E t \in Ids : EndWrite(c, t)
    BY <2>1, ProcessKept DEF EndWrite, Answered, Active
  <2>2. CASE ~\E t \in Ids : EndWrite(c, t)
    BY <1>2, <2>2 DEF OfClient, Connect, Leave, Attach, Detach, ReleaseControl,
                      AcquireControl, BeginWrite, ProcessInv
  <2> QED BY <2>1, <2>2
<1>3. CASE StopSome
  BY <1>3, StopKeeps, ProcessKept DEF StopSome
<1>4. CASE StopAll
  BY <1>4, StopKeeps, ProcessKept DEF StopAll
<1>5. CASE CloseStops
  BY <1>5, StopKeeps, ProcessKept DEF CloseStops
<1>6. CASE BeginClose \/ CloseKills \/ CloseSevers \/ Exit \/ UNCHANGED vars
  BY <1>6 DEF BeginClose, CloseKills, CloseSevers, Exit, vars, ProcessInv
<1> QED BY <1>1, <1>2, <1>3, <1>4, <1>5, <1>6 DEF Next

-----------------------------------------------------------------------------
(* Control.                                                                *)

\* What ControlAgrees speaks of changes only in that terminals which nobody
\* controls take another status, or in that active ones stay active.
LEMMA ControlKept ==
  ASSUME TypeOK, ControlAgrees, UNCHANGED <<controller, controlled>>,
         connected \subseteq connected',
         \A t \in Ids : status[t] \in Active => status'[t] \in Active
  PROVE  ControlAgrees'
BY DEF ControlAgrees

LEMMA DisconnectAgrees ==
  ASSUME TypeOK, ControlAgrees, NEW C \in SUBSET Clients, Disconnect(C),
         UNCHANGED status
  PROVE  ControlAgrees'
BY DaemonAssumption DEF Disconnect, ControlAgrees, TypeOK

LEMMA ControlStep ==
  ASSUME TypeOK, ProcessInv, ControlAgrees, [Next]_vars
  PROVE  ControlAgrees'
<1> USE DEF TypeOK, terminals, clients
<1>1. ASSUME NEW t \in Ids, OfTerminal(t)
      PROVE  ControlAgrees'
  <2>1. CASE Start(t) \/ HostCreated(t) \/ HostFails(t)
    BY <2>1, ControlKept DEF Start, HostCreated, HostFails, Active
  <2>2. CASE SetLifecycle(t)
    BY <2>2, ControlKept DEF SetLifecycle, Active
  <2>3. CASE OutputAsks(t)
    BY <2>3, ControlKept DEF OutputAsks, Active
  <2>4. CASE KillTimer(t) \/ ProcessExit(t) \/ BeginFinalize(t)
    BY <2>4, ControlKept DEF KillTimer, ProcessExit, BeginFinalize
  <2>5. CASE Finalize(t)
    BY <2>5, DaemonAssumption DEF Finalize, ControlAgrees
  <2>6. CASE Forget(t)
    BY <2>6, DaemonAssumption DEF Forget, ControlAgrees, Active
  <2> QED BY <1>1, <2>1, <2>2, <2>3, <2>4, <2>5, <2>6 DEF OfTerminal
<1>2. ASSUME NEW c \in Clients, OfClient(c)
      PROVE  ControlAgrees'
  <2>1. CASE Connect(c)
    BY <2>1, ControlKept DEF Connect
  <2>2. CASE Leave(c)
    BY <2>2, DisconnectAgrees DEF Leave
  <2>3. ASSUME NEW t \in Ids, Attach(c, t) \/ BeginWrite(c, t)
        PROVE ControlAgrees'
    BY <2>3, ControlKept DEF Attach, BeginWrite
  <2>4. ASSUME NEW t \in Ids, Detach(c, t) PROVE ControlAgrees'
    BY <2>4, DaemonAssumption DEF Detach, ControlAgrees
  <2>5. ASSUME NEW t \in Ids, ReleaseControl(c, t) PROVE ControlAgrees'
    BY <2>5, DaemonAssumption DEF ReleaseControl, ControlAgrees
  <2>6. ASSUME NEW t \in Ids, NEW takeover \in BOOLEAN, AcquireControl(c, t, takeover)
        PROVE ControlAgrees'
    <3>1. status[t] \in Active
      BY <2>6 DEF AcquireControl, Present, ProcessInv
    <3> QED BY <2>6, <3>1, DaemonAssumption DEF AcquireControl, ControlAgrees
  <2>7. ASSUME NEW t \in Ids, EndWrite(c, t) PROVE ControlAgrees'
    BY <2>7, ControlKept DEF EndWrite, Answered, Active
  <2> QED BY <1>2, <2>1, <2>2, <2>3, <2>4, <2>5, <2>6, <2>7 DEF OfClient
<1>3. CASE StopSome
  BY <1>3, StopKeeps, ControlKept DEF StopSome
<1>4. CASE StopAll
  BY <1>4, StopKeeps, ControlKept DEF StopAll
<1>5. CASE CloseStops
  BY <1>5, StopKeeps, ControlKept DEF CloseStops
<1>6. CASE BeginClose \/ CloseKills \/ Exit \/ UNCHANGED vars
  BY <1>6, ControlKept DEF BeginClose, CloseKills, Exit, vars
<1>7. CASE CloseSevers
  BY <1>7, DisconnectAgrees DEF CloseSevers
<1> QED BY <1>1, <1>2, <1>3, <1>4, <1>5, <1>6, <1>7 DEF Next

-----------------------------------------------------------------------------
(* Shutdown.                                                               *)

\* No start begins or ends and no process appears: what ClosingInv says stays.
LEMMA ClosingKept ==
  ASSUME ClosingInv, closing' = closing, killed \subseteq killed',
         \A t \in Ids : /\ status'[t] = "claimed" => status[t] = "claimed"
                        /\ process'[t] = "alive" => process[t] = "alive"
  PROVE  ClosingInv'
BY DEF ClosingInv

LEMMA ClosingStep ==
  ASSUME TypeOK, ProcessInv, ClosingInv, [Next]_vars
  PROVE  ClosingInv'
<1> USE DEF TypeOK, terminals, clients
<1>1. ASSUME NEW t \in Ids, OfTerminal(t)
      PROVE  ClosingInv'
  <2>1. CASE Start(t)
    BY <2>1 DEF Start, ClosingInv
  <2>2. CASE HostCreated(t)
    BY <2>2 DEF HostCreated, ClosingInv
  <2>3. CASE HostFails(t)
    BY <2>3, ClosingKept DEF HostFails
  <2>4. CASE SetLifecycle(t) \/ OutputAsks(t)
    BY <2>4, ClosingKept DEF SetLifecycle, OutputAsks
  <2>5. CASE KillTimer(t)
    BY <2>5, ClosingKept DEF KillTimer
  <2>6. CASE ProcessExit(t) \/ BeginFinalize(t)
    BY <2>6, ClosingKept DEF ProcessExit, BeginFinalize
  <2>7. CASE Finalize(t) \/ Forget(t)
    BY <2>7, ClosingKept DEF Finalize, Forget
  <2> QED BY <1>1, <2>1, <2>2, <2>3, <2>4, <2>5, <2>6, <2>7 DEF OfTerminal
<1>2. ASSUME NEW c \in Clients, OfClient(c)
      PROVE  ClosingInv'
  <2>1. CASE \E t \in Ids : EndWrite(c, t)
    BY <2>1, ClosingKept DEF EndWrite
  <2>2. CASE ~\E t \in Ids : EndWrite(c, t)
    BY <1>2, <2>2, ClosingKept
    DEF OfClient, Connect, Leave, Attach, Detach, ReleaseControl, AcquireControl,
        BeginWrite
  <2> QED BY <2>1, <2>2
<1>3. CASE StopSome
  BY <1>3, ClosingKept DEF StopSome, Stop
<1>4. CASE StopAll
  BY <1>4, ClosingKept DEF StopAll, Stop
<1>5. CASE BeginClose
  BY <1>5 DEF BeginClose, ClosingInv
<1>6. CASE CloseStops
  BY <1>6 DEF CloseStops, StartupsSettled, Claimed, Stop, ClosingInv
<1>7. CASE CloseKills
  BY <1>7 DEF CloseKills, ActiveTerminals, ProcessInv, ClosingInv
<1>8. CASE CloseSevers \/ Exit
  BY <1>8 DEF CloseSevers, Exit, ClosingInv
<1>9. CASE UNCHANGED vars
  BY <1>9, ClosingKept DEF vars
<1> QED BY <1>1, <1>2, <1>3, <1>4, <1>5, <1>6, <1>7, <1>8, <1>9 DEF Next

-----------------------------------------------------------------------------
(* Theorems.                                                               *)

LEMMA InitDaemon == Init => DaemonInv
<1> SUFFICES ASSUME Init PROVE DaemonInv
  OBVIOUS
<1>1. TypeOK
  BY DEF Init, TypeOK, Stages
<1>2. RoomInv
  <2>1. Occupied = {}
    BY DEF Init, Occupied, Active
  <2> QED BY <2>1, FS_EmptySet, DaemonAssumption DEF RoomInv
<1>3. ProcessInv /\ ControlAgrees /\ ClosingInv
  BY DaemonAssumption DEF Init, ProcessInv, ControlAgrees, ClosingInv
<1> QED BY <1>1, <1>2, <1>3 DEF DaemonInv

\* The inductive invariant of the daemon's terminals (server.mjs startTerminal to
\* close).
THEOREM DaemonInvariant == Spec => []DaemonInv
<1>1. DaemonInv /\ [Next]_vars => DaemonInv'
  BY TypeStep, RoomStep, ProcessStep, ControlStep, ClosingStep DEF DaemonInv
<1> QED BY <1>1, InitDaemon, PTL DEF Spec

\* However many starts are pending, fail or succeed: no more processes live or are
\* about to than the daemon admits, and no two in one working tree (startTerminal).
THEOREM CapacityHolds == Spec => []WithinCapacity
<1>1. DaemonInv => WithinCapacity
  <2> SUFFICES ASSUME DaemonInv PROVE WithinCapacity
    OBVIOUS
  <2> DEFINE occupied == Claimed \cup {t \in Ids : process[t] = "alive"}
  <2>1. occupied \subseteq Occupied
    BY DEF DaemonInv, ProcessInv, Occupied, Claimed
  <2>2. IsFiniteSet(Occupied) /\ IsFiniteSet(occupied)
    <3>1. IsFiniteSet(Occupied)
      BY DaemonAssumption, FS_Subset DEF Occupied
    <3> QED BY <2>1, <3>1, FS_Subset
  <2>3. Cardinality(occupied) <= Cardinality(Occupied)
    BY <2>1, <2>2, FS_Subset
  <2>4. Cardinality(occupied) \in Nat /\ Cardinality(Occupied) \in Nat
    BY <2>2, FS_CardinalityType
  <2>5. Cardinality(occupied) <= MaxTerminals
    BY <2>3, <2>4, DaemonAssumption DEF DaemonInv, RoomInv
  <2> QED BY <2>1, <2>5 DEF WithinCapacity, DaemonInv, RoomInv
<1> QED BY <1>1, DaemonInvariant, PTL

\* A terminal's controller is connected and the only client that takes itself for
\* it; a terminal that has ended has none (dispatch, finalize, the connection's
\* close).
THEOREM ControlAgreesHolds == Spec => []ControlAgrees
BY DaemonInvariant, PTL DEF DaemonInv

\* A daemon that has shut down leaves no process behind that it has not killed
\* (close).
THEOREM NothingIsLeftRunning == Spec => []NothingLeftRunning
<1>1. DaemonInv => NothingLeftRunning
  BY DEF DaemonInv, ClosingInv, NothingLeftRunning
<1> QED BY <1>1, DaemonInvariant, PTL

\* A stop that was accepted is not undone, and an end neither (transitionTerminal,
\* and the answer to an input in dispatch).
THEOREM NoWayBackHolds == Spec => NoWayBack
<1> DEFINE Forward ==
      \A t \in Ids :
        /\ status[t] = "stopping" => status'[t] \in {"stopping", "final"}
        /\ status[t] = "final" => status'[t] \in {"final", "forgotten"}
        /\ status[t] = "forgotten" => status'[t] = "forgotten"
<1>1. DaemonInv /\ [Next]_vars => Forward
  <2> SUFFICES ASSUME DaemonInv, [Next]_vars PROVE Forward
    OBVIOUS
  <2>0. TypeOK /\ ProcessInv
    BY DEF DaemonInv
  <2> USE DEF TypeOK, terminals, clients
  <2>1. ASSUME NEW t \in Ids, OfTerminal(t) PROVE Forward
    <3>1. CASE Start(t)
      BY <2>0, <3>1 DEF Start
    <3>2. CASE HostCreated(t) \/ HostFails(t)
      BY <2>0, <3>2 DEF HostCreated, HostFails
    <3>3. CASE SetLifecycle(t)
      BY <2>0, <3>3 DEF SetLifecycle, MayTurn, Present, Active, ProcessInv
    <3>4. CASE OutputAsks(t)
      BY <2>0, <3>4 DEF OutputAsks
    <3>5. CASE KillTimer(t) \/ ProcessExit(t) \/ BeginFinalize(t)
      BY <3>5 DEF KillTimer, ProcessExit, BeginFinalize
    <3>6. CASE Finalize(t)
      BY <2>0, <3>6 DEF Finalize, Active
    <3>7. CASE Forget(t)
      BY <2>0, <3>7 DEF Forget
    <3> QED BY <2>1, <3>1, <3>2, <3>3, <3>4, <3>5, <3>6, <3>7 DEF OfTerminal
  <2>2. ASSUME NEW c \in Clients, OfClient(c) PROVE Forward
    <3>1. CASE \E t \in Ids : EndWrite(c, t)
      BY <2>0, <3>1 DEF EndWrite, Answered
    <3>2. CASE ~\E t \in Ids : EndWrite(c, t)
      BY <2>2, <3>2 DEF OfClient, Connect, Leave, Attach, Detach, ReleaseControl,
                        AcquireControl, BeginWrite
    <3> QED BY <3>1, <3>2
  <2>3. CASE StopSome \/ StopAll \/ CloseStops
    BY <2>0, <2>3, StopKeeps DEF StopSome, StopAll, CloseStops, Active
  <2>4. CASE BeginClose \/ CloseKills \/ CloseSevers \/ Exit \/ UNCHANGED vars
    BY <2>4 DEF BeginClose, CloseKills, CloseSevers, Exit, vars
  <2> QED BY <2>1, <2>2, <2>3, <2>4 DEF Next
<1> QED BY <1>1, DaemonInvariant, PTL DEF Spec, NoWayBack

-----------------------------------------------------------------------------
(* What the daemon tells the repository state.                             *)
(*                                                                         *)
(* The argument compares what was taken of the terminal at different       *)
(* times: a snapshot with the end is younger than every snapshot without   *)
(* it, whether under way or received (Before), so a call that comes late   *)
(* is refused by its sequence number; and whoever awaits a task awaits one *)
(* that carries the end (Carries).                                         *)

Queues == {queue} \cup {detached[i] : i \in 1..Len(detached)}

\* No snapshot without the end is younger than x, if x has the end.
Before(x, y) == x.ended /\ ~y.ended => y.seq < x.seq

\* A snapshot of the terminal, taken by now.
Taken(x) ==
  /\ x.seq <= seq /\ (x.ended => ended)
  /\ ended /\ ~x.ended => x.seq < seq

Carries(c) == c.awaited # {} \/ c.priority = "final" => c.ended

Waits(t) == t.awaited # {} \/ t.priority = "final" => ended

CallsTaken ==
  \A q \in Queues : q.call # None =>
    /\ Taken(q.call) /\ Carries(q.call)
    /\ Before(q.call, received) /\ Before(received, q.call)
    /\ q.call.applied /\ q.call.ended => received.ended

CallsOrdered ==
  \A p, q \in Queues : p.call # None /\ q.call # None => Before(p.call, q.call)

TasksWait == \A q \in Queues : q.next # None => Waits(q.next)

DetachedCalls == \A i \in 1..Len(detached) : detached[i].call # None

EndKnown ==
  /\ finalizing \in {"await", "sleep", "done"} => ended
  /\ finalizing = "sleep" => attempts < Attempts

SyncInv ==
  /\ SyncTypeOK /\ DetachedCalls /\ EndKnown
  /\ Taken(received)
  /\ CallsTaken /\ CallsOrdered /\ TasksWait
  /\ ClearedMeansReceived

-----------------------------------------------------------------------------
(* What a step does to the queues.                                         *)

\* A call that begins with this step.
Fresh(c) ==
  /\ c.ended = ended' /\ ~c.applied /\ Carries(c)
  /\ seq <= c.seq /\ c.seq <= seq'
  /\ ended' /\ ~ended => seq < c.seq

Onward == seq <= seq' /\ (ended => ended') /\ (ended' /\ ~ended => seq < seq')

\* The calls and tasks of q were there, or begin with this step.
Follows(q) ==
  /\ q.call # None => Fresh(q.call) \/ \E p \in Queues : p.call = q.call
  /\ q.next # None =>
       \/ q.next.awaited # {} \/ q.next.priority = "final" => ended'
       \/ \E p \in Queues : p.next = q.next

LEMMA QueuesTyped ==
  ASSUME SyncTypeOK
  PROVE  /\ Queues \subseteq Queue
         /\ \A q \in Queues :
              q.call \in Call \cup {None} /\ q.next \in Task \cup {None}
<1>1. \A i \in 1..Len(detached) : detached[i] \in Queue
  BY ElementOfSeq DEF SyncTypeOK
<1>2. Queues \subseteq Queue
  BY <1>1 DEF Queues, SyncTypeOK
<1> QED BY <1>2 DEF Queue

\* Calls that begin with a step are younger than all that were there.
LEMMA StepTaken ==
  ASSUME SyncTypeOK, SyncTypeOK', Taken(received), CallsTaken, CallsOrdered, TasksWait,
         Onward, received' = received, \A q \in Queues' : Follows(q)
  PROVE  Taken(received)' /\ CallsTaken' /\ CallsOrdered' /\ TasksWait'
<1> USE SyncAssumption
<1>0. /\ seq \in Nat /\ seq' \in Nat /\ ended \in BOOLEAN /\ ended' \in BOOLEAN
      /\ received.seq \in Nat /\ received.ended \in BOOLEAN
  BY DEF SyncTypeOK, Snapshot
<1>1. Taken(received)'
  BY <1>0 DEF Taken, Onward
<1>2. \A q \in Queues' : q.call # None =>
        q.call \in Call /\ q.call.seq \in Nat /\ q.call.ended \in BOOLEAN
  <2>1. \A i \in 1..Len(detached') : detached'[i] \in Queue
    BY ElementOfSeq DEF SyncTypeOK
  <2>2. Queues' \subseteq Queue
    BY <2>1 DEF Queues, SyncTypeOK
  <2> QED BY <2>2 DEF Queue, Call
<1>3. \A p \in Queues : p.call # None =>
        p.call \in Call /\ p.call.seq \in Nat /\ p.call.ended \in BOOLEAN
  BY QueuesTyped DEF Call
<1>4. ASSUME NEW q \in Queues', q.call # None
      PROVE  /\ Taken(q.call)' /\ Carries(q.call)'
             /\ Before(q.call, received') /\ Before(received', q.call)
             /\ q.call.applied /\ q.call.ended => received'.ended
  <2>1. CASE Fresh(q.call)
    BY <1>0, <1>2, <1>4, <2>1 DEF Fresh, Onward, Taken, Carries, Before
  <2>2. CASE \E p \in Queues : p.call = q.call
    BY <1>0, <1>2, <1>3, <1>4, <2>2 DEF CallsTaken, Onward, Taken, Carries, Before
  <2> QED BY <1>4, <2>1, <2>2 DEF Follows
<1>5. CallsTaken'
  BY <1>4 DEF CallsTaken
<1>6. CallsOrdered'
  <2> SUFFICES ASSUME NEW p \in Queues', NEW q \in Queues',
                      p.call # None, q.call # None
               PROVE  Before(p.call, q.call)
    BY DEF CallsOrdered
  <2>1. CASE Fresh(p.call) /\ Fresh(q.call)
    BY <2>1 DEF Fresh, Before
  <2>2. CASE Fresh(p.call) /\ \E r \in Queues : r.call = q.call
    BY <1>0, <1>2, <1>3, <2>2 DEF Fresh, Before, CallsTaken, Taken
  <2>3. CASE Fresh(q.call) /\ \E r \in Queues : r.call = p.call
    BY <1>0, <1>2, <1>3, <2>3 DEF Fresh, Before, CallsTaken, Taken, Onward
  <2>4. CASE (\E r \in Queues : r.call = p.call) /\ (\E r \in Queues : r.call = q.call)
    BY <2>4 DEF CallsOrdered
  <2> QED BY <2>1, <2>2, <2>3, <2>4 DEF Follows
<1>7. TasksWait'
  BY DEF TasksWait, Follows, Waits, Onward
<1> QED BY <1>1, <1>5, <1>6, <1>7

\* A call that is applied while others are under way: it is refused if it is older
\* than what was received, and the end is never older.
LEMMA ReceiveTaken ==
  ASSUME SyncTypeOK, SyncTypeOK', Taken(received), CallsTaken, CallsOrdered, TasksWait,
         UNCHANGED terminal,
         NEW o \in Queues, o.call # None, Received(o.call),
         \A q \in Queues' :
           /\ q.call # None =>
                \E p \in Queues :
                  /\ p.call # None
                  /\ q.call.seq = p.call.seq /\ q.call.ended = p.call.ended
                  /\ q.call.awaited = p.call.awaited
                  /\ q.call.priority = p.call.priority
                  /\ q.call.applied => p.call.applied \/ p.call = o.call
           /\ q.next # None => \E p \in Queues : p.next = q.next
  PROVE  /\ Taken(received)' /\ CallsTaken' /\ CallsOrdered' /\ TasksWait'
         /\ received'.seq >= received.seq /\ (received.ended => received'.ended)
<1> USE SyncAssumption
<1>0. /\ seq \in Nat /\ received.seq \in Nat /\ received.ended \in BOOLEAN
      /\ seq' = seq /\ ended' = ended /\ ended \in BOOLEAN
  BY DEF SyncTypeOK, Snapshot, terminal
<1>1. \A p \in Queues : p.call # None =>
        p.call \in Call /\ p.call.seq \in Nat /\ p.call.ended \in BOOLEAN
  BY QueuesTyped DEF Call
<1>3. Before(o.call, received) /\ Before(received, o.call)
  BY DEF CallsTaken
<1>2. \/ received'.seq = o.call.seq /\ received'.ended = o.call.ended
         /\ o.call.seq >= received.seq
      \/ received' = received /\ (o.call.ended => received.ended)
  <2>1. CASE o.call.ended
    <3>1. CASE received.ended
      BY <2>1, <3>1 DEF Received
    <3>2. CASE ~received.ended
      <4>1. received.seq < o.call.seq
        BY <1>3, <2>1, <3>2 DEF Before
      <4>2. o.call.seq \in Nat /\ o.call.ended = TRUE
        BY <1>1, <2>1
      <4>3. received' = [seq |-> Later(o.call.seq, received.seq), ended |-> TRUE]
        BY <2>1, <3>2 DEF Received
      <4>4. Later(o.call.seq, received.seq) = o.call.seq
        BY <1>0, <4>1, <4>2 DEF Later
      <4>5. received' = [seq |-> o.call.seq, ended |-> TRUE]
        BY <4>3, <4>4
      <4>6. received'.seq = o.call.seq /\ received'.ended = o.call.ended
        BY <4>2, <4>5
      <4>7. o.call.seq >= received.seq
        BY <1>0, <4>1, <4>2
      <4> QED BY <4>6, <4>7
    <3> QED BY <3>1, <3>2
  <2>2. CASE ~o.call.ended
    BY <1>0, <1>1, <2>2 DEF Received
  <2> QED BY <2>1, <2>2
<1>4. received'.seq >= received.seq /\ (received.ended => received'.ended)
      /\ (o.call.ended => received'.ended)
  BY <1>0, <1>1, <1>2, <1>3 DEF Before
<1>5. Taken(received)'
  BY <1>0, <1>1, <1>2 DEF CallsTaken, Taken
<1>6. CallsTaken'
  <2> SUFFICES ASSUME NEW q \in Queues', q.call # None
               PROVE  /\ Taken(q.call)' /\ Carries(q.call)'
                      /\ Before(q.call, received') /\ Before(received', q.call)
                      /\ q.call.applied /\ q.call.ended => received'.ended
    BY DEF CallsTaken
  <2>1. PICK p \in Queues :
          /\ p.call # None
          /\ q.call.seq = p.call.seq /\ q.call.ended = p.call.ended
          /\ q.call.awaited = p.call.awaited
          /\ q.call.priority = p.call.priority
          /\ q.call.applied => p.call.applied \/ p.call = o.call
    OBVIOUS
  <2>2. /\ Taken(p.call) /\ Carries(p.call)
        /\ Before(p.call, received) /\ Before(received, p.call)
        /\ p.call.applied /\ p.call.ended => received.ended
    BY <2>1 DEF CallsTaken
  <2>3. Before(p.call, o.call) /\ Before(o.call, p.call)
    BY <2>1 DEF CallsOrdered
  <2>4. Taken(q.call)' /\ Carries(q.call)'
    BY <1>0, <2>1, <2>2 DEF Taken, Carries
  <2>5. Before(q.call, received') /\ Before(received', q.call)
    BY <1>2, <2>1, <2>2, <2>3 DEF Before
  <2>6. q.call.applied /\ q.call.ended => received'.ended
    BY <1>4, <2>1, <2>2
  <2> QED BY <2>4, <2>5, <2>6
<1>7. CallsOrdered'
  BY DEF CallsOrdered, Before
<1>8. TasksWait'
  BY <1>0 DEF TasksWait, Waits
<1> QED BY <1>4, <1>5, <1>6, <1>7, <1>8

-----------------------------------------------------------------------------
(* The queue's operations.                                                 *)

LEMMA BegunFrom ==
  ASSUME NEW q \in Queue, NEW s \in 0..MaxSeq, NEW e \in BOOLEAN
  PROVE  /\ Begun(q, s, e) \in Queue
         /\ \/ Begun(q, s, e) = q /\ (q.call # None \/ q.next = None)
            \/ /\ q.call = None /\ q.next \in Task
               /\ Begun(q, s, e).call # None /\ Begun(q, s, e).next = None
               /\ Begun(q, s, e).call = [priority |-> q.next.priority,
                    awaited |-> q.next.awaited, seq |-> s, ended |-> e, applied |-> FALSE]
<1>1. CASE q.call = None /\ q.next # None
  <2> DEFINE c == [priority |-> q.next.priority, awaited |-> q.next.awaited,
                   seq |-> s, ended |-> e, applied |-> FALSE]
  <2>1. q.next \in Task
    BY <1>1 DEF Queue
  <2>2. c \in Call
    BY <2>1 DEF Task, Call
  <2>3. Begun(q, s, e) = [call |-> c, next |-> None]
    BY <1>1 DEF Begun
  <2>4. c # None
    BY <2>2, NoneAssumption
  <2> HIDE DEF c
  <2>5. [call |-> c, next |-> None] \in Queue
    BY <2>2 DEF Queue
  <2> QED BY <1>1, <2>1, <2>3, <2>4, <2>5 DEF c
<1>2. CASE ~(q.call = None /\ q.next # None)
  BY <1>2 DEF Begun
<1> QED BY <1>1, <1>2

LEMMA WithoutOne ==
  ASSUME NEW S, NEW s \in Seq(S), NEW i \in 1..Len(s)
  PROVE  /\ Without(s, i) \in Seq(S)
         /\ \A j \in 1..Len(Without(s, i)) :
              \E k \in 1..Len(s) : Without(s, i)[j] = s[k]
<1> DEFINE a == SubSeq(s, 1, i - 1)
           b == SubSeq(s, i + 1, Len(s))
<1>1. Len(s) \in Nat /\ i \in Nat /\ 1 <= i /\ i <= Len(s)
  BY LenProperties
<1>2. \A k \in 1..(i - 1) : s[k] \in S
  BY <1>1, ElementOfSeq
<1>3. \A k \in (i + 1)..Len(s) : s[k] \in S
  BY <1>1, ElementOfSeq
<1>4. /\ a \in Seq(S) /\ Len(a) = i - 1
      /\ \A j \in 1..(i - 1) : a[j] = s[j]
  <2>1. /\ a \in Seq(S)
        /\ Len(a) = IF 1 <= i - 1 THEN i - 1 - 1 + 1 ELSE 0
        /\ \A j \in 1..(i - 1 - 1 + 1) : a[j] = s[1 + j - 1]
    BY <1>1, <1>2, SubSeqProperties
  <2> HIDE DEF a
  <2> QED BY <1>1, <2>1
<1>5. /\ b \in Seq(S) /\ Len(b) = Len(s) - i
      /\ \A j \in 1..(Len(s) - i) : b[j] = s[i + j]
  <2>1. /\ b \in Seq(S)
        /\ Len(b) = IF i + 1 <= Len(s) THEN Len(s) - (i + 1) + 1 ELSE 0
        /\ \A j \in 1..(Len(s) - (i + 1) + 1) : b[j] = s[i + 1 + j - 1]
    BY <1>1, <1>3, SubSeqProperties
  <2> HIDE DEF b
  <2> QED BY <1>1, <2>1
<1> HIDE DEF a, b
<1>6. /\ a \o b \in Seq(S) /\ Len(a \o b) = Len(a) + Len(b)
      /\ \A j \in 1..Len(a) + Len(b) :
           (a \o b)[j] = IF j <= Len(a) THEN a[j] ELSE b[j - Len(a)]
  BY ZenonT(60), <1>4, <1>5, ConcatProperties
<1> DEFINE c == a \o b
<1>8. /\ c \in Seq(S) /\ Len(c) = Len(s) - 1
      /\ \A j \in 1..(Len(s) - 1) : c[j] = IF j <= i - 1 THEN a[j] ELSE b[j - (i - 1)]
  BY <1>1, <1>4, <1>5, <1>6
<1> HIDE DEF c
<1>7. ASSUME NEW j \in 1..Len(c)
      PROVE  \E k \in 1..Len(s) : c[j] = s[k]
  <2>0. j \in Nat /\ 1 <= j /\ j <= Len(s) - 1
    BY <1>1, <1>8
  <2>1. CASE j <= i - 1
    <3>1. c[j] = s[j] /\ j \in 1..Len(s)
      BY <1>1, <1>4, <1>8, <2>0, <2>1
    <3> QED BY <3>1
  <2>2. CASE j > i - 1
    <3>1. j - (i - 1) \in 1..(Len(s) - i) /\ i + (j - (i - 1)) = j + 1
      BY <1>1, <2>0, <2>2
    <3>2. c[j] = b[j - (i - 1)] /\ b[j - (i - 1)] = s[i + (j - (i - 1))]
      BY <1>1, <1>5, <1>8, <2>0, <2>2, <3>1
    <3>3. c[j] = s[j + 1] /\ j + 1 \in 1..Len(s)
      BY SMTT(60), <1>1, <2>0, <3>1, <3>2
    <3> QED BY <3>3
  <2> QED BY <1>1, <2>0, <2>1, <2>2
<1> QED BY <1>7, <1>8 DEF Without, a, b, c

\* What syncTerminal adds to the queue.
LEMMA SyncFollows ==
  ASSUME SyncTypeOK, TasksWait, Onward, seq' \in 0..MaxSeq, ended' \in BOOLEAN,
         NEW p \in DOMAIN Priority, NEW who \in SUBSET Callers,
         who # {} \/ p = "final" => ended',
         SyncTerminal(p, who, seq', ended'), detached' = detached
  PROVE  queue' \in Queue /\ \A q \in Queues' : Follows(q)
<1> DEFINE n == IF queue.next = None THEN [priority |-> p, awaited |-> who]
                ELSE [priority |-> Higher(p, queue.next.priority),
                      awaited |-> queue.next.awaited \cup who]
<1>1. queue \in Queue /\ queue \in Queues
      /\ queue.call \in Call \cup {None} /\ queue.next \in Task \cup {None}
  BY QueuesTyped DEF SyncTypeOK, Queues
<1>2. n \in Task /\ n # None
  BY <1>1, NoneAssumption DEF Task, Higher
<1>3. n.awaited # {} \/ n.priority = "final" => ended'
  <2>1. CASE queue.next = None
    BY <2>1
  <2>2. CASE queue.next # None
    <3>1. Waits(queue.next)
      BY <1>1, <2>2 DEF TasksWait
    <3> QED BY <2>2, <3>1 DEF Waits, Higher, Onward
  <2> QED BY <2>1, <2>2
<1>4. Queued(queue, p, who) = [queue EXCEPT !.next = n]
  BY DEF Queued
<1> HIDE DEF n
<1> DEFINE m == [queue EXCEPT !.next = n]
<1>5. m \in Queue /\ m.call = queue.call /\ m.next = n
  BY <1>1, <1>2 DEF Queue
<1>6. queue' = Begun(m, seq', ended')
  BY <1>4 DEF SyncTerminal
<1> HIDE DEF m
<1>7. queue' \in Queue
  BY <1>5, <1>6, BegunFrom
<1>8. Follows(queue')
  <2>1. CASE queue' = m
    BY <1>1, <1>3, <1>5, <2>1 DEF Follows
  <2>2. CASE /\ queue'.call # None /\ queue'.next = None
             /\ queue'.call = [priority |-> n.priority, awaited |-> n.awaited,
                               seq |-> seq', ended |-> ended', applied |-> FALSE]
    <3>1. seq \in Nat /\ seq' \in Nat
      BY SyncAssumption DEF SyncTypeOK
    <3>2. Fresh(queue'.call)
      BY <1>3, <2>2, <3>1 DEF Fresh, Carries, Onward
    <3> QED BY <2>2, <3>2 DEF Follows
  <2> QED BY <1>5, <1>6, <2>1, <2>2, BegunFrom
<1>9. \A i \in 1..Len(detached') : Follows(detached'[i])
  BY DEF Follows, Queues
<1> QED BY <1>7, <1>8, <1>9 DEF Queues

\* What is left of a queue whose call has ended.
LEMMA AfterFrom ==
  ASSUME SyncTypeOK, TasksWait, NEW q \in Queues, NEW ok \in BOOLEAN
  PROVE  /\ After(q, ok) \in Queue
         /\ \/ After(q, ok) = Empty
            \/ /\ After(q, ok).call # None /\ After(q, ok).next = None
               /\ After(q, ok).call.seq = seq /\ After(q, ok).call.ended = ended
               /\ ~After(q, ok).call.applied /\ Carries(After(q, ok).call)
<1>1. q.next \in Task \cup {None} /\ seq \in 0..MaxSeq /\ ended \in BOOLEAN
  BY QueuesTyped DEF SyncTypeOK
<1> DEFINE n == IF Answers(q, ok) THEN None ELSE q.next
           r == [call |-> None, next |-> n]
<1>2. r \in Queue /\ r.call = None /\ r.next = n
  BY <1>1 DEF Queue
<1>3. After(q, ok) = Begun(r, seq, ended)
  BY DEF After
<1>4. n # None => n = q.next /\ Waits(n)
  BY DEF TasksWait
<1>5. n = None => r = Empty
  BY DEF Empty
<1> HIDE DEF n, r
<1>6. CASE Begun(r, seq, ended) = r /\ n = None
  BY <1>2, <1>3, <1>5, <1>6
<1>7. CASE /\ n # None
           /\ Begun(r, seq, ended).call # None /\ Begun(r, seq, ended).next = None
           /\ Begun(r, seq, ended).call = [priority |-> n.priority,
                awaited |-> n.awaited, seq |-> seq, ended |-> ended, applied |-> FALSE]
  <2>1. Carries(Begun(r, seq, ended).call)
    BY <1>4, <1>7 DEF Carries, Waits
  <2> QED BY <1>1, <1>2, <1>3, <1>7, <2>1, BegunFrom
<1>8. n \in Task => n # None
  BY NoneAssumption
<1> QED BY <1>1, <1>2, <1>6, <1>7, <1>8, BegunFrom

\* Answering callers moves neither the status nor the attempts.
LEMMA SettleOnward ==
  ASSUME SyncTypeOK, EndKnown, NEW good, NEW bad, Settle(good, bad)
  PROVE  /\ Onward /\ ended' = ended /\ attempts' = attempts
         /\ seq' \in 0..MaxSeq /\ pending' \in BOOLEAN
         /\ finalizing' \in {"no", "result", "await", "sleep", "done"}
         /\ EndKnown'
         /\ ~pending' => ~pending \/ good # {}
<1>1. /\ ended' = ended /\ attempts' = attempts
      /\ seq' \in 0..MaxSeq /\ seq <= seq'
  BY SyncAssumption DEF Settle, SyncTypeOK
<1>2. pending' = (pending /\ good = {})
  BY DEF Settle
<1>3. finalizing' = finalizing \/ finalizing = "await"
  BY DEF Settle
<1>4. /\ finalizing' \in {"no", "result", "await", "sleep", "done"}
      /\ finalizing' = "sleep" => finalizing = "sleep" \/ attempts < Attempts
  BY DEF Settle, SyncTypeOK
<1>5. EndKnown'
  BY <1>1, <1>3, <1>4 DEF EndKnown
<1> QED BY <1>1, <1>2, <1>4, <1>5 DEF Onward, SyncTypeOK

\* Whoever is answered awaits a call that carried the end and was applied.
LEMMA AnsweredReceived ==
  ASSUME CallsTaken, NEW q \in Queues, q.call # None, q.call.applied,
         AwaitedBy(q, TRUE) # {}
  PROVE  received.ended
<1>1. q.call.awaited # {} \/ q.call.priority = "final"
  BY DEF AwaitedBy, Answers
<1> QED BY <1>1 DEF CallsTaken, Carries

\* The queues after a call has been applied.
LEMMA AppliedQueue ==
  ASSUME NEW q \in Queue, q.call # None,
         NEW r, r = [q EXCEPT !.call.applied = TRUE]
  PROVE  /\ r \in Queue /\ r.call # None /\ r.next = q.next
         /\ r.call.seq = q.call.seq /\ r.call.ended = q.call.ended
         /\ r.call.awaited = q.call.awaited /\ r.call.priority = q.call.priority
<1> DEFINE c == [q.call EXCEPT !.applied = TRUE]
<1>1. q.call \in Call
  BY DEF Queue
<1>2. /\ c \in Call /\ c.seq = q.call.seq /\ c.ended = q.call.ended
      /\ c.awaited = q.call.awaited /\ c.priority = q.call.priority
  BY <1>1 DEF Call
<1>3. r = [q EXCEPT !.call = c]
  OBVIOUS
<1> HIDE DEF c
<1>4. r \in Queue /\ r.call = c /\ r.next = q.next
  BY <1>2, <1>3 DEF Queue
<1> QED BY <1>2, <1>4, NoneAssumption

\* Dropping the queue.
LEMMA DropFollows ==
  ASSUME SyncInv, Drop, received' = received
  PROVE  /\ queue' \in Queue /\ detached' \in Seq(Queue) /\ DetachedCalls'
         /\ Onward /\ \A q \in Queues' : Follows(q)
<1> DEFINE d == [queue EXCEPT !.next = None]
<1>1. SyncTypeOK /\ DetachedCalls /\ EndKnown /\ queue \in Queue /\ queue \in Queues
  BY DEF SyncInv, SyncTypeOK, Queues
<1>2. Onward
  BY <1>1, SettleOnward DEF Drop
<1>3. Empty \in Queue /\ Follows(Empty)
  BY DEF Empty, Queue, Follows
<1>4. d \in Queue /\ d.call = queue.call /\ d.next = None
  BY <1>1 DEF Queue
<1>5. Follows(d)
  BY <1>1, <1>4 DEF Follows
<1> HIDE DEF d
<1>6. \A i \in 1..Len(detached) : Follows(detached[i])
  BY DEF Follows, Queues
<1>7. queue' = Empty
  BY DEF Drop
<1>8. CASE detached' = detached
  BY <1>1, <1>2, <1>3, <1>6, <1>7, <1>8 DEF DetachedCalls, Queues, SyncTypeOK
<1>9. CASE queue.call # None /\ detached' = Append(detached, d)
  <2>1. /\ detached' \in Seq(Queue) /\ Len(detached') = Len(detached) + 1
        /\ \A i \in 1..Len(detached) : detached'[i] = detached[i]
        /\ detached'[Len(detached) + 1] = d
    BY <1>1, <1>4, <1>9, AppendProperties DEF SyncTypeOK
  <2>2. Len(detached) \in Nat
    BY <1>1, LenProperties DEF SyncTypeOK
  <2>3. \A i \in 1..Len(detached') : i \in 1..Len(detached) \/ i = Len(detached) + 1
    BY <2>1, <2>2
  <2>4. DetachedCalls'
    BY <1>1, <1>4, <1>9, <2>1, <2>3 DEF DetachedCalls
  <2>5. \A i \in 1..Len(detached') : Follows(detached'[i])
    BY <1>5, <1>6, <2>1, <2>3
  <2> QED BY <1>2, <1>3, <1>7, <2>1, <2>4, <2>5 DEF Queues
<1> QED BY <1>8, <1>9 DEF Drop, d

-----------------------------------------------------------------------------
(* The actions.                                                            *)

\* What one step may do to what was received.
Forward == received'.seq >= received.seq /\ (received.ended => received'.ended)

LEMMA KeepsReceived ==
  ASSUME SyncInv, SyncTypeOK', DetachedCalls', EndKnown', Onward, received' = received,
         \A q \in Queues' : Follows(q), ClearedMeansReceived'
  PROVE  SyncInv' /\ Forward
<1>1. Taken(received)' /\ CallsTaken' /\ CallsOrdered' /\ TasksWait'
  BY StepTaken DEF SyncInv
<1>2. received.seq \in Nat
  BY SyncAssumption DEF SyncInv, SyncTypeOK, Snapshot
<1> QED BY <1>1, <1>2 DEF SyncInv, Forward

LEMMA UnchangedQueues ==
  ASSUME UNCHANGED <<queue, detached>>
  PROVE  \A q \in Queues' : Follows(q)
BY DEF Queues, Follows

LEMMA TransitionInv ==
  SyncInv /\ Transition => SyncInv' /\ Forward
<1> SUFFICES ASSUME SyncInv, Transition PROVE SyncInv' /\ Forward
  OBVIOUS
<1>1. /\ SyncTypeOK /\ TasksWait /\ DetachedCalls /\ EndKnown /\ ~ended /\ ended' = FALSE
      /\ UNCHANGED <<finalizing, attempts, pending, detached, forgotten, shut, received>>
  BY DEF SyncInv, Transition, SyncTypeOK
<1>2. Onward /\ seq' \in 0..MaxSeq
  BY <1>1, SyncAssumption DEF Onward, Transition, SyncTypeOK
<1>3. queue' \in Queue /\ \A q \in Queues' : Follows(q)
  BY <1>1, <1>2, SyncFollows DEF Transition, Priority, Callers
<1>4. SyncTypeOK' /\ DetachedCalls' /\ EndKnown'
  BY <1>1, <1>2, <1>3 DEF SyncTypeOK, DetachedCalls, EndKnown
<1>5. ClearedMeansReceived'
  BY <1>1 DEF ClearedMeansReceived
<1> QED BY <1>1, <1>2, <1>3, <1>4, <1>5, KeepsReceived

LEMMA TouchInv ==
  SyncInv /\ Touch => SyncInv' /\ Forward
<1> SUFFICES ASSUME SyncInv, Touch PROVE SyncInv' /\ Forward
  OBVIOUS
<1>1. /\ SyncTypeOK /\ DetachedCalls /\ EndKnown /\ ClearedMeansReceived
      /\ UNCHANGED <<ended, finalizing, attempts, pending, queue, detached,
                    forgotten, shut, received>>
  BY DEF SyncInv, Touch
<1>2. Onward /\ seq' \in 0..MaxSeq
  BY <1>1, SyncAssumption DEF Onward, Touch, SyncTypeOK
<1>3. SyncTypeOK' /\ DetachedCalls' /\ EndKnown' /\ ClearedMeansReceived'
  BY <1>1, <1>2 DEF SyncTypeOK, DetachedCalls, EndKnown, ClearedMeansReceived
<1> QED BY <1>1, <1>2, <1>3, UnchangedQueues, KeepsReceived

LEMMA HeartbeatInv ==
  SyncInv /\ Heartbeat => SyncInv' /\ Forward
<1> SUFFICES ASSUME SyncInv, Heartbeat PROVE SyncInv' /\ Forward
  OBVIOUS
<1>1. /\ SyncTypeOK /\ TasksWait /\ DetachedCalls /\ EndKnown /\ ClearedMeansReceived
      /\ UNCHANGED <<terminal, detached, forgotten, shut, received>>
      /\ ended \in BOOLEAN
  BY DEF SyncInv, Heartbeat, SyncTypeOK
<1>2. Onward /\ seq' = seq /\ ended' = ended
  BY <1>1, SyncAssumption DEF Onward, SyncTypeOK, terminal
<1> DEFINE who == IF ended THEN {"heartbeat"} ELSE {}
<1>3. who \in SUBSET Callers /\ (who # {} => ended')
  BY <1>2 DEF Callers
<1>4. SyncTerminal("heartbeat", who, seq', ended')
  BY <1>2 DEF Heartbeat
<1> HIDE DEF who
<1>5. queue' \in Queue /\ \A q \in Queues' : Follows(q)
  BY <1>1, <1>2, <1>3, <1>4, SyncFollows DEF Priority, SyncTypeOK
<1>6. SyncTypeOK' /\ DetachedCalls' /\ EndKnown' /\ ClearedMeansReceived'
  BY <1>1, <1>2, <1>5 DEF SyncTypeOK, DetachedCalls, EndKnown, ClearedMeansReceived,
                             terminal
<1> QED BY <1>1, <1>2, <1>5, <1>6, KeepsReceived

LEMMA BeginFinalizeInv ==
  SyncInv /\ FinalizeBegins => SyncInv' /\ Forward
<1> SUFFICES ASSUME SyncInv, FinalizeBegins PROVE SyncInv' /\ Forward
  OBVIOUS
<1>1. /\ SyncTypeOK /\ DetachedCalls /\ ClearedMeansReceived
      /\ UNCHANGED <<seq, ended, attempts, pending, queue, detached, forgotten,
                    shut, received>>
      /\ finalizing' = "result"
  BY DEF SyncInv, FinalizeBegins
<1>2. Onward
  BY <1>1, SyncAssumption DEF Onward, SyncTypeOK
<1>3. SyncTypeOK' /\ DetachedCalls' /\ EndKnown' /\ ClearedMeansReceived'
  BY <1>1 DEF SyncTypeOK, DetachedCalls, EndKnown, ClearedMeansReceived
<1> QED BY <1>1, <1>2, <1>3, UnchangedQueues, KeepsReceived

LEMMA FinalizeInv ==
  SyncInv /\ FinalizeSyncs => SyncInv' /\ Forward
<1> SUFFICES ASSUME SyncInv, FinalizeSyncs PROVE SyncInv' /\ Forward
  OBVIOUS
<1>1. /\ SyncTypeOK /\ TasksWait /\ DetachedCalls
      /\ UNCHANGED <<detached, forgotten, shut, received>>
      /\ ended' = TRUE /\ seq' = seq + 1 /\ pending' = TRUE
      /\ finalizing' = "await" /\ attempts' = 1
  BY DEF SyncInv, FinalizeSyncs
<1>2. Onward /\ seq' \in 0..MaxSeq /\ attempts' \in 0..Attempts
  BY <1>1, SyncAssumption DEF Onward, FinalizeSyncs, SyncTypeOK
<1>3. queue' \in Queue /\ \A q \in Queues' : Follows(q)
  BY <1>1, <1>2, SyncFollows DEF FinalizeSyncs, Priority, Callers
<1>4. SyncTypeOK' /\ DetachedCalls' /\ EndKnown' /\ ClearedMeansReceived'
  BY <1>1, <1>2, <1>3 DEF SyncTypeOK, DetachedCalls, EndKnown, ClearedMeansReceived
<1> QED BY <1>1, <1>2, <1>3, <1>4, KeepsReceived

LEMMA RetryInv ==
  SyncInv /\ Retry => SyncInv' /\ Forward
<1> SUFFICES ASSUME SyncInv, Retry PROVE SyncInv' /\ Forward
  OBVIOUS
<1>1. /\ SyncTypeOK /\ TasksWait /\ DetachedCalls /\ EndKnown /\ ClearedMeansReceived
      /\ finalizing = "sleep" /\ finalizing' = "await" /\ attempts' = attempts + 1
      /\ UNCHANGED <<seq, ended, pending, detached, forgotten, shut, received>>
  BY DEF SyncInv, Retry
<1>2. ended' /\ attempts' \in 0..Attempts
  BY <1>1, SyncAssumption DEF EndKnown, SyncTypeOK
<1>3. Onward /\ seq' \in 0..MaxSeq /\ ended' \in BOOLEAN
  BY <1>1, SyncAssumption DEF Onward, SyncTypeOK
<1>4. queue' \in Queue /\ \A q \in Queues' : Follows(q)
  BY <1>1, <1>2, <1>3, SyncFollows DEF Retry, Priority, Callers
<1>5. SyncTypeOK' /\ DetachedCalls' /\ EndKnown' /\ ClearedMeansReceived'
  BY <1>1, <1>2, <1>4 DEF SyncTypeOK, DetachedCalls, EndKnown, ClearedMeansReceived
<1> QED BY <1>1, <1>3, <1>4, <1>5, KeepsReceived

LEMMA DroppedInv ==
  ASSUME SyncInv, Drop, forgotten' \in BOOLEAN,
         shut' \in {"no", "closing", "severed", "exited"}, received' = received
  PROVE  SyncInv' /\ Forward
<1>1. /\ SyncTypeOK /\ EndKnown /\ ClearedMeansReceived
      /\ \E bad : Settle({}, bad)
  BY DEF SyncInv, Drop
<1>2. /\ Onward /\ ended' = ended /\ attempts' = attempts
      /\ seq' \in 0..MaxSeq /\ pending' \in BOOLEAN
      /\ finalizing' \in {"no", "result", "await", "sleep", "done"}
      /\ EndKnown' /\ (~pending' => ~pending)
  BY <1>1, SettleOnward
<1>3. /\ queue' \in Queue /\ detached' \in Seq(Queue) /\ DetachedCalls'
      /\ \A q \in Queues' : Follows(q)
  BY DropFollows
<1>4. SyncTypeOK' /\ ClearedMeansReceived'
  BY <1>1, <1>2, <1>3 DEF SyncTypeOK, ClearedMeansReceived
<1> QED BY <1>2, <1>3, <1>4, KeepsReceived

LEMMA ForgetInv ==
  SyncInv /\ ForgetSync => SyncInv' /\ Forward
BY DroppedInv DEF ForgetSync, SyncInv, SyncTypeOK

LEMMA CloseInv ==
  SyncInv /\ Close => SyncInv' /\ Forward
BY DroppedInv DEF Close, SyncInv, SyncTypeOK

\* What follows on close() touches nothing that SyncInv speaks of.
LEMMA ClosingInvariant ==
  SyncInv /\ (Sever \/ DaemonExits) => SyncInv' /\ Forward
<1> SUFFICES ASSUME SyncInv, Sever \/ DaemonExits PROVE SyncInv' /\ Forward
  OBVIOUS
<1>1. /\ SyncTypeOK /\ DetachedCalls /\ EndKnown /\ ClearedMeansReceived
      /\ UNCHANGED <<terminal, queue, detached, forgotten, received>>
      /\ shut' \in {"no", "closing", "severed", "exited"}
  BY DEF SyncInv, Sever, DaemonExits
<1>2. Onward
  BY <1>1, SyncAssumption DEF Onward, SyncTypeOK, terminal
<1>3. SyncTypeOK' /\ DetachedCalls' /\ EndKnown' /\ ClearedMeansReceived'
  BY <1>1 DEF SyncTypeOK, DetachedCalls, EndKnown, ClearedMeansReceived, terminal
<1> QED BY <1>1, <1>2, <1>3, UnchangedQueues, KeepsReceived

LEMMA ReceivedTyped ==
  ASSUME SyncTypeOK, NEW q \in Queue, q.call # None, Received(q.call)
  PROVE  received' \in Snapshot
<1>1. q.call \in Call
  BY DEF Queue
<1> QED BY <1>1, SyncAssumption DEF Received, Later, SyncTypeOK, Call, Snapshot

LEMMA ApplyInv ==
  SyncInv /\ Apply => SyncInv' /\ Forward
<1> SUFFICES ASSUME SyncInv, Apply PROVE SyncInv' /\ Forward
  OBVIOUS
<1>1. /\ SyncTypeOK /\ queue.call # None /\ Received(queue.call)
      /\ queue' = [queue EXCEPT !.call.applied = TRUE]
      /\ UNCHANGED <<terminal, detached, forgotten, shut>>
      /\ queue \in Queue /\ queue \in Queues
  BY DEF SyncInv, Apply, SyncTypeOK, Queues
<1>2. /\ queue' \in Queue /\ queue'.call # None /\ queue'.next = queue.next
      /\ queue'.call.seq = queue.call.seq /\ queue'.call.ended = queue.call.ended
      /\ queue'.call.awaited = queue.call.awaited
      /\ queue'.call.priority = queue.call.priority
  BY <1>1, AppliedQueue
<1>3. \A q \in Queues' : q = queue' \/ q \in Queues
  BY <1>1 DEF Queues
<1>4. \A q \in Queues' :
        /\ q.call # None =>
             \E p \in Queues :
               /\ p.call # None
               /\ q.call.seq = p.call.seq /\ q.call.ended = p.call.ended
               /\ q.call.awaited = p.call.awaited
               /\ q.call.priority = p.call.priority
               /\ q.call.applied => p.call.applied \/ p.call = queue.call
        /\ q.next # None => \E p \in Queues : p.next = q.next
  BY <1>1, <1>2, <1>3
<1>5. SyncTypeOK'
  BY <1>1, <1>2, ReceivedTyped DEF SyncTypeOK, terminal
<1>6. /\ Taken(received)' /\ CallsTaken' /\ CallsOrdered' /\ TasksWait' /\ Forward
  BY <1>1, <1>4, <1>5, ReceiveTaken DEF SyncInv, Forward
<1>7. DetachedCalls' /\ EndKnown' /\ ClearedMeansReceived'
  BY <1>1, <1>6
     DEF SyncInv, DetachedCalls, EndKnown, ClearedMeansReceived, terminal, Forward
<1> QED BY <1>5, <1>6, <1>7 DEF SyncInv

LEMMA ApplyDetachedInv ==
  ASSUME SyncInv, NEW i \in 1..Len(detached), ApplyDetached(i)
  PROVE  SyncInv' /\ Forward
<1> DEFINE o == detached[i]
           r == [o EXCEPT !.call.applied = TRUE]
<1>1. /\ SyncTypeOK /\ DetachedCalls /\ o.call # None /\ Received(o.call)
      /\ UNCHANGED <<terminal, queue, forgotten, shut>>
      /\ o \in Queue /\ o \in Queues /\ detached \in Seq(Queue)
  BY QueuesTyped DEF SyncInv, ApplyDetached, SyncTypeOK, Queues, DetachedCalls
<1>2. /\ r \in Queue /\ r.call # None /\ r.next = o.next
      /\ r.call.seq = o.call.seq /\ r.call.ended = o.call.ended
      /\ r.call.awaited = o.call.awaited /\ r.call.priority = o.call.priority
  BY <1>1, AppliedQueue
<1>3. detached' = [detached EXCEPT ![i] = r]
  BY DEF ApplyDetached
<1> HIDE DEF r
<1>4. /\ detached' \in Seq(Queue) /\ Len(detached') = Len(detached)
      /\ \A j \in 1..Len(detached) : detached'[j] = IF j = i THEN r ELSE detached[j]
  BY <1>1, <1>2, <1>3, ExceptSeq
<1>5. \A q \in Queues' : q = r \/ q \in Queues
  BY <1>1, <1>4 DEF Queues
<1>6. \A q \in Queues' :
        /\ q.call # None =>
             \E p \in Queues :
               /\ p.call # None
               /\ q.call.seq = p.call.seq /\ q.call.ended = p.call.ended
               /\ q.call.awaited = p.call.awaited
               /\ q.call.priority = p.call.priority
               /\ q.call.applied => p.call.applied \/ p.call = o.call
        /\ q.next # None => \E p \in Queues : p.next = q.next
  BY <1>1, <1>2, <1>5
<1>7. SyncTypeOK'
  BY <1>1, <1>4, ReceivedTyped DEF SyncTypeOK, terminal
<1>8. /\ Taken(received)' /\ CallsTaken' /\ CallsOrdered' /\ TasksWait' /\ Forward
  <2> HIDE DEF o
  <2> QED BY <1>1, <1>6, <1>7, ReceiveTaken DEF SyncInv, Forward
<1>9. DetachedCalls'
  BY <1>1, <1>2, <1>4 DEF DetachedCalls
<1>10. EndKnown' /\ ClearedMeansReceived'
  BY <1>1, <1>8 DEF SyncInv, EndKnown, ClearedMeansReceived, terminal, Forward
<1> QED BY <1>7, <1>8, <1>9, <1>10 DEF SyncInv

\* A call of queue q returns, and the queues change as they may.
LEMMA ReturnedInv ==
  ASSUME SyncInv, NEW q \in Queues, q.call # None,
         NEW ok \in BOOLEAN, ok => q.call.applied,
         IF ok THEN Settle(AwaitedBy(q, ok), {})
         ELSE Settle({}, q.call.awaited),
         UNCHANGED <<forgotten, shut, received>>,
         queue' \in Queue, detached' \in Seq(Queue), DetachedCalls',
         \A r \in Queues' : r \in Queues \/ r = Empty \/ r = After(q, ok)
  PROVE  SyncInv' /\ Forward
<1>1. /\ SyncTypeOK /\ EndKnown /\ TasksWait /\ CallsTaken /\ ClearedMeansReceived
      /\ seq \in Nat
  BY SyncAssumption DEF SyncInv, SyncTypeOK
<1> DEFINE good == IF ok THEN AwaitedBy(q, ok) ELSE {}
<1>2. \E bad : Settle(good, bad)
  OBVIOUS
<1>3. good # {} => received.ended
  BY <1>1, AnsweredReceived
<1> HIDE DEF good
<1>4. /\ Onward /\ ended' = ended /\ attempts' = attempts
      /\ seq' \in 0..MaxSeq /\ pending' \in BOOLEAN
      /\ finalizing' \in {"no", "result", "await", "sleep", "done"}
      /\ EndKnown' /\ (~pending' => ~pending \/ good # {})
  BY <1>1, <1>2, SettleOnward
<1>5. SyncTypeOK' /\ ClearedMeansReceived'
  BY <1>1, <1>3, <1>4 DEF SyncTypeOK, ClearedMeansReceived
<1>6. ASSUME NEW r \in Queues' PROVE Follows(r)
  <2>1. CASE r \in Queues
    BY <2>1 DEF Follows
  <2>2. CASE r = Empty
    BY <2>2 DEF Follows, Empty
  <2>3. CASE r = After(q, ok) /\ r # Empty
    <3>1. /\ r.call # None /\ r.next = None /\ r.call.seq = seq
          /\ r.call.ended = ended /\ ~r.call.applied /\ Carries(r.call)
      BY <1>1, <2>3, AfterFrom
    <3>2. Fresh(r.call)
      BY <1>1, <1>4, <3>1 DEF Fresh, Onward
    <3> QED BY <3>1, <3>2 DEF Follows
  <2> QED BY <2>1, <2>2, <2>3
<1> QED BY <1>4, <1>5, <1>6, KeepsReceived

LEMMA ReturnInv ==
  ASSUME SyncInv, NEW ok \in BOOLEAN, Return(ok)
  PROVE  SyncInv' /\ Forward
<1>1. /\ SyncTypeOK /\ TasksWait /\ DetachedCalls /\ queue \in Queues /\ queue.call # None
      /\ queue' = After(queue, ok) /\ detached' = detached
      /\ UNCHANGED <<forgotten, shut, received>>
  BY DEF SyncInv, Return, Queues
<1>2. queue' \in Queue
  BY <1>1, AfterFrom
<1>3. \A r \in Queues' : r \in Queues \/ r = After(queue, ok)
  BY <1>1 DEF Queues
<1>4. detached' \in Seq(Queue) /\ DetachedCalls'
  BY <1>1 DEF SyncTypeOK, DetachedCalls
<1> QED BY <1>1, <1>2, <1>3, <1>4, ReturnedInv DEF Return

LEMMA ReturnDetachedInv ==
  ASSUME SyncInv, NEW i \in 1..Len(detached), NEW ok \in BOOLEAN,
         ReturnDetached(i, ok)
  PROVE  SyncInv' /\ Forward
<1> DEFINE q == detached[i]
           rest == After(q, ok)
           w == Without(detached, i)
<1>1. /\ SyncTypeOK /\ TasksWait /\ DetachedCalls /\ q \in Queues /\ q.call # None
      /\ queue \in Queue /\ queue \in Queues /\ detached \in Seq(Queue)
      /\ \A j \in 1..Len(detached) : detached[j] \in Queues
  BY DEF SyncInv, Queues, DetachedCalls, SyncTypeOK
<1>2. rest \in Queue /\ (rest # Empty => rest.call # None)
  BY <1>1, AfterFrom
<1>3. /\ w \in Seq(Queue)
      /\ \A j \in 1..Len(w) : \E k \in 1..Len(detached) : w[j] = detached[k]
  BY <1>1, WithoutOne
<1>4. \A j \in 1..Len(w) : w[j] \in Queues /\ w[j].call # None
  BY <1>1, <1>3 DEF DetachedCalls
<1>5. Empty \in Queue
  BY DEF Empty, Queue
<1> HIDE DEF w
<1>6. CASE rest # Empty /\ detached' = [detached EXCEPT ![i] = rest] /\ queue' = queue
  <2>1. /\ detached' \in Seq(Queue) /\ Len(detached') = Len(detached)
        /\ \A j \in 1..Len(detached) :
             detached'[j] = IF j = i THEN rest ELSE detached[j]
    BY <1>1, <1>2, <1>6, ExceptSeq
  <2>2. DetachedCalls'
    BY <1>1, <1>2, <1>6, <2>1 DEF DetachedCalls
  <2>3. \A r \in Queues' : r \in Queues \/ r = rest
    BY <1>1, <1>6, <2>1 DEF Queues
  <2> QED BY <1>1, <1>6, <2>1, <2>2, <2>3, ReturnedInv DEF ReturnDetached
<1>7. CASE queue.call # None /\ detached' = Append(w, queue) /\ queue' = Empty
  <2>1. /\ detached' \in Seq(Queue) /\ Len(detached') = Len(w) + 1
        /\ \A j \in 1..Len(w) : detached'[j] = w[j]
        /\ detached'[Len(w) + 1] = queue
    BY <1>1, <1>3, <1>7, AppendProperties
  <2>2. Len(w) \in Nat
    BY <1>3, LenProperties
  <2>3. \A j \in 1..Len(detached') : j \in 1..Len(w) \/ j = Len(w) + 1
    BY <2>1, <2>2
  <2>4. DetachedCalls'
    BY <1>4, <1>7, <2>1, <2>3 DEF DetachedCalls
  <2>5. \A r \in Queues' : r \in Queues \/ r = Empty
    <3>1. \A j \in 1..Len(detached') : detached'[j] \in Queues
      BY <1>1, <1>4, <2>1, <2>3 DEF Queues
    <3> QED BY <1>7, <3>1 DEF Queues
  <2> QED BY <1>1, <1>5, <1>7, <2>1, <2>4, <2>5, ReturnedInv DEF ReturnDetached
<1>8. CASE detached' = w /\ queue' = queue
  <2>1. DetachedCalls'
    BY <1>4, <1>8 DEF DetachedCalls
  <2>2. \A r \in Queues' : r \in Queues
    BY <1>1, <1>4, <1>8 DEF Queues
  <2> QED BY <1>1, <1>3, <1>8, <2>1, <2>2, ReturnedInv DEF ReturnDetached
<1> QED BY <1>6, <1>7, <1>8 DEF ReturnDetached, w

LEMMA NextInv ==
  SyncInv /\ [SyncNext]_syncVars => SyncInv' /\ Forward
<1> SUFFICES ASSUME SyncInv, [SyncNext]_syncVars PROVE SyncInv' /\ Forward
  OBVIOUS
<1>1. CASE UNCHANGED syncVars
  <2>1. received.seq \in Nat
    BY SyncAssumption DEF SyncInv, SyncTypeOK, Snapshot
  <2> QED BY <1>1, <2>1 DEF syncVars, terminal, SyncInv, SyncTypeOK, DetachedCalls, EndKnown,
       Taken, CallsTaken, CallsOrdered, TasksWait, Waits, Queues, ClearedMeansReceived,
       Forward
<1> QED BY <1>1, TransitionInv, TouchInv, HeartbeatInv, BeginFinalizeInv, FinalizeInv,
           RetryInv, ForgetInv, CloseInv, ClosingInvariant, ApplyInv, ApplyDetachedInv,
           ReturnInv, ReturnDetachedInv DEF SyncNext

LEMMA InitInv ==
  SyncInit => SyncInv
<1> SUFFICES ASSUME SyncInit PROVE SyncInv
  OBVIOUS
<1>1. SyncTypeOK
  <2>1. Empty \in Queue /\ <<>> \in Seq(Queue)
    BY EmptySeq DEF Empty, Queue
  <2>2. received \in Snapshot /\ seq \in 0..MaxSeq /\ attempts \in 0..Attempts
    BY SyncAssumption DEF SyncInit, Snapshot
  <2> QED BY <2>1, <2>2 DEF SyncInit, SyncTypeOK
<1>2. Queues = {Empty}
  BY DEF SyncInit, Queues
<1>3. CallsTaken /\ CallsOrdered /\ TasksWait
  BY <1>2 DEF CallsTaken, CallsOrdered, TasksWait, Empty
<1> QED BY <1>1, <1>3
        DEF SyncInit, SyncInv, DetachedCalls, EndKnown, Taken, ClearedMeansReceived

-----------------------------------------------------------------------------
(* The theorems.                                                           *)

\* For any number of attempts, of dropped queues and of sequence numbers, what is
\* under way and what was received are snapshots of the terminal in its order
\* (server.mjs 375-470, 1307-1392).
THEOREM SyncInvariant ==
  SyncSpec => []SyncInv
<1>1. SyncInv /\ [SyncNext]_syncVars => SyncInv'
  BY NextInv
<1> QED BY InitInv, <1>1, PTL DEF SyncSpec

\* What the daemon takes for delivered, the repository state has.
THEOREM ClearedHolds ==
  SyncSpec => []ClearedMeansReceived
<1>1. SyncInv => ClearedMeansReceived
  BY DEF SyncInv
<1> QED BY SyncInvariant, <1>1, PTL

\* The repository state never goes back to an older snapshot, or from the end.
THEOREM NeverBackHolds ==
  SyncSpec => NeverBack
<1>1. SyncInv /\ [SyncNext]_syncVars =>
        [/\ received'.seq >= received.seq
         /\ received.ended => received'.ended]_syncVars
  BY NextInv DEF Forward
<1> QED BY SyncInvariant, <1>1, PTL DEF SyncSpec, NeverBack

=============================================================================
