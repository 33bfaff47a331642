----------------------------- MODULE RunsProofs -----------------------------
(***************************************************************************)
(* Proofs about Runs: its types, then that a worktree has one writer, from *)
(* an invariant that relates providers, leases and history, then what one  *)
(* step may do to the history of a run and to its lease.                   *)
(***************************************************************************)
EXTENDS Runs, SequenceTheorems, TLAPS

\* The ledger stays a sequence of operation ids.
LEMMA RecordType ==
  ASSUME recentOperations \in Seq(OpIds), NEW op \in OpIds, Record(op)
  PROVE  recentOperations' \in Seq(OpIds)
<1> DEFINE all == Append(recentOperations, op)
           m == Bigger(1, Len(all) - LedgerLimit + 1)
<1>1. all \in Seq(OpIds) /\ Len(all) \in Nat \ {0}
  BY AppendProperties
<1>2. m \in 1..Len(all)+1
  BY <1>1, RunsAssumption DEF Bigger
<1>3. SubSeq(all, m, Len(all)) \in Seq(OpIds)
  BY <1>1, <1>2, SubSeqProperties
<1> QED BY <1>3 DEF Record

\* What the mutations of the state make of the leases and the history.
LEMMA RunType ==
  ASSUME TypeOK, NEW l \in Launchers
  PROVE  Run(l) \in RunIds
BY RunsAssumption DEF TypeOK, Run, RunIds

LEMMA MarkOrphanedType ==
  ASSUME TypeOK, LeasesMatchHistory, NEW R \in SUBSET RunIds, MarkOrphaned(R)
  PROVE  /\ runs' \in [RunIds -> Lease \cup {None}]
         /\ agentHistory' \in [RunIds -> History \cup {None}]
<1>1. ASSUME NEW lease \in Lease PROVE OrphanedLease(lease) \in Lease
  BY DEF OrphanedLease, Lease, LeaseStatuses
<1>2. ASSUME NEW lease \in Lease, NEW run \in History
      PROVE OrphanedRun(run, lease) \in History
  BY DEF OrphanedRun, Lease, History, LeaseStatuses, Bigger
<1> QED BY <1>1, <1>2 DEF MarkOrphaned, TypeOK, LeasesMatchHistory, Leased

LEMMA EndRunType ==
  ASSUME TypeOK, NEW r \in RunIds, agentHistory[r] # None, NEW who \in Enders,
         NEW life \in LeaseStatuses \cup {"closed"}, NEW seq \in Nat,
         EndRun(r, who, life, seq)
  PROVE  /\ runs' \in [RunIds -> Lease \cup {None}]
         /\ agentHistory' \in [RunIds -> History \cup {None}]
<1>1. ASSUME NEW run \in History PROVE EndedRun(run, who, life, seq) \in History
  BY DEF EndedRun, History, Bigger
<1> QED BY <1>1 DEF EndRun, TypeOK

LEMMA ObservedType ==
  ASSUME TypeOK, NEW o \in Snapshot, o.status # "exited"
  PROVE  /\ \A lease \in Lease : ObservedLease(lease, o) \in Lease
         /\ \A run \in History : ObservedRun(run, o) \in History
<1>1. o.status \in ActiveStatuses /\ o.seq \in Nat /\ o.daemon \in 0..MaxDaemon
  BY RunsAssumption DEF Snapshot
<1>0. boot \in 1..MaxBoots
  BY DEF TypeOK
<1>2. ASSUME NEW lease \in Lease PROVE ObservedLease(lease, o) \in Lease
  BY <1>0, <1>1 DEF ObservedLease, Lease, LeaseStatuses
<1>3. ASSUME NEW run \in History PROVE ObservedRun(run, o) \in History
  BY <1>1 DEF ObservedRun, History, LeaseStatuses
<1> QED BY <1>2, <1>3

-----------------------------------------------------------------------------
(* Types                                                                   *)

LEMMA InitType == Init => TypeOK
BY RunsAssumption, EmptySeq
DEF Init, TypeOK, IdleReconciler, Reconcilers, Lease, History, Snapshot, ActiveStatuses

\* Where an update that was applied leads.
LEMMA AppliedFacts ==
  ASSUME TypeOK, NEW l, NEW p, NEW q, Applied(l, p, q)
  PROVE  /\ faults' \in 0..MaxFaults /\ crashes' \in 0..MaxCrashes
         /\ Goto(l, p) \/ Goto(l, q)
<1>1. faults \in 0..MaxFaults /\ crashes' = crashes /\ (Goto(l, p) \/ Goto(l, q))
  BY DEF Applied, bounds, TypeOK
<1>2. faults' = faults \/ (faults < MaxFaults /\ faults' = faults + 1)
  BY DEF Applied, bounds
<1> QED BY <1>1, <1>2, RunsAssumption DEF TypeOK

LEMMA LaunchType ==
  ASSUME TypeOK, LeasesMatchHistory, HistoryOwned, NEW l \in Launchers,
         \/ Prepare(l) \/ Launch(l) \/ ProviderExit(l) \/ UpdateFails(l)
         \/ Crash(l)
  PROVE  TypeOK'
<1> USE RunsAssumption
<1>0. /\ Run(l) \in RunIds
      /\ LaunchOp(l) \in OpIds /\ FinalizeOp(l) \in OpIds /\ OrphanOp(l) \in OpIds
  BY RunType DEF LaunchOp, FinalizeOp, OrphanOp, OpIds
<1>1. CASE Prepare(l)
  <2>1. term' \in [Terminals -> {"none", "exited", "synced", "lost"} \cup ActiveStatuses]
    BY <1>1 DEF Prepare, TypeOK, ActiveStatuses
  <2>2. sess' \in [Launchers -> 1..MaxSession] /\ UNCHANGED state
    BY <1>1 DEF Prepare, TypeOK, state
  <2> QED BY <1>1, <2>1, <2>2 DEF Prepare, Goto, TypeOK, state, bounds
<1>2. CASE Insert(l)
  <2>1. recentOperations' \in Seq(OpIds)
    BY <1>2, <1>0, RecordType DEF Insert, TypeOK
  <2>2. /\ runs' \in [RunIds -> Lease \cup {None}]
        /\ agentHistory' \in [RunIds -> History \cup {None}]
    BY <1>2, <1>0 DEF Insert, TypeOK, Lease, History, LeaseStatuses, ActiveStatuses
  <2>3. /\ faults' \in 0..MaxFaults /\ crashes' \in 0..MaxCrashes
        /\ Goto(l, "inserted") \/ Goto(l, "leaving")
    BY <1>2, AppliedFacts DEF Insert
  <2> QED BY <1>2, <2>1, <2>2, <2>3 DEF Insert, Goto, TypeOK, terminals
<1>3. CASE AlreadyStarted(l)
  <2>1. recentOperations' \in Seq(OpIds)
    BY <1>3, <1>0, RecordType DEF AlreadyStarted, TypeOK
  <2> QED BY <1>3, <2>1 DEF AlreadyStarted, Goto, TypeOK, terminals, bounds
<1>4. CASE Reject(l) \/ Spawn(l) \/ ProviderExit(l)
  BY ZenonT(60), <1>4 DEF Reject, Spawn, ProviderExit, Goto, TypeOK, state, terminals, bounds
<1>8. CASE UpdateFails(l)
  <2>1. faults' \in 0..MaxFaults
    BY <1>8 DEF UpdateFails, TypeOK
  <2>2. PICK p \in {"orphaning", "leaving", "gone"} : Goto(l, p)
    BY <1>8 DEF UpdateFails
  <2> QED BY <1>8, <2>1, <2>2 DEF UpdateFails, Goto, TypeOK, state, terminals
<1>9. CASE Crash(l)
  BY <1>9 DEF Crash, Goto, TypeOK, state, terminals
<1>5. CASE Finalize(l)
  <2>1. recentOperations' \in Seq(OpIds)
    BY <1>5, <1>0, RecordType DEF Finalize, TypeOK, state
  <2>2. /\ runs' \in [RunIds -> Lease \cup {None}]
        /\ agentHistory' \in [RunIds -> History \cup {None}]
    <3>1. CASE sess[l] = sessionId /\ EndRun(Run(l), "launcher", "closed", 0)
      <4>1. agentHistory[Run(l)] # None
        BY <1>5, <3>1 DEF Finalize, HistoryOwned, Inserted
      <4> QED BY <3>1, <4>1, <1>0, EndRunType DEF Enders
    <3> QED BY <1>5, <3>1 DEF Finalize, TypeOK, state
  <2>3. /\ faults' \in 0..MaxFaults /\ crashes' \in 0..MaxCrashes
        /\ Goto(l, "leaving") \/ Goto(l, "orphaning")
    BY <1>5, AppliedFacts DEF Finalize
  <2> QED BY <1>5, <2>1, <2>2, <2>3 DEF Finalize, Goto, TypeOK, state, terminals
<1>6. CASE OrphanFinalize(l)
  <2>1. recentOperations' \in Seq(OpIds)
    BY <1>6, <1>0, RecordType DEF OrphanFinalize, TypeOK, state
  <2>2. /\ runs' \in [RunIds -> Lease \cup {None}]
        /\ agentHistory' \in [RunIds -> History \cup {None}]
    BY <1>6, <1>0, MarkOrphanedType DEF OrphanFinalize, TypeOK, state
  <2> QED BY <1>6, <2>1, <2>2
          DEF OrphanFinalize, Goto, TypeOK, state, terminals, bounds
<1>7. CASE Leave(l)
  <2>1. /\ runs' \in [RunIds -> Lease \cup {None}]
        /\ agentHistory' \in [RunIds -> History \cup {None}]
    BY <1>7, MarkOrphanedType DEF Leave, Leased
  <2> QED BY <1>7, <2>1 DEF Leave, Goto, TypeOK, terminals, bounds
<1> QED BY <1>1, <1>2, <1>3, <1>4, <1>5, <1>6, <1>7, <1>8, <1>9 DEF Launch

LEMMA FinalizeTerminalType ==
  ASSUME TypeOK, NEW t \in Terminals, NEW who \in Enders, NEW seq \in Nat,
         FinalizeTerminalRun(t, who, seq)
  PROVE  /\ sessionId' = sessionId /\ taskActive' = taskActive
         /\ recentOperations' \in Seq(OpIds)
         /\ runs' \in [RunIds -> Lease \cup {None}]
         /\ agentHistory' \in [RunIds -> History \cup {None}]
<1>1. CASE UNCHANGED state
  BY <1>1 DEF state, TypeOK
<1>2. CASE /\ \E r \in Of(t) : EndRun(r, who, "closed", seq)
           /\ Record(DaemonOp(t))
           /\ UNCHANGED <<sessionId, taskActive>>
  <2>1. DaemonOp(t) \in OpIds
    BY DEF DaemonOp, OpIds
  <2>2. recentOperations' \in Seq(OpIds)
    BY <1>2, <2>1, RecordType DEF TypeOK
  <2>3. PICK r \in Of(t) : EndRun(r, who, "closed", seq)
    BY <1>2
  <2>4. r \in RunIds /\ agentHistory[r] # None
    BY DEF Of
  <2> QED BY <1>2, <2>2, <2>3, <2>4, EndRunType
<1> QED BY <1>1, <1>2 DEF FinalizeTerminalRun

LEMMA DaemonType ==
  ASSUME TypeOK, LeasesMatchHistory,
         \/ DaemonCrash \/ Reboot
         \/ \E t \in Terminals :
              \/ Transition(t) \/ TerminalExit(t) \/ Sync(t) \/ SyncFails(t)
              \/ Observe(t) \/ ObserveExit(t) \/ Register(t)
  PROVE  TypeOK'
<1> USE RunsAssumption, NoneAssumption
<1>1. CASE DaemonCrash
  <2>1. term' \in [Terminals -> {"none", "exited", "synced", "lost"} \cup ActiveStatuses]
    BY <1>1 DEF DaemonCrash
  <2>2. daemon' \in 1..MaxDaemon
    BY <1>1 DEF DaemonCrash, TypeOK
  <2> QED BY <1>1, <2>1, <2>2 DEF DaemonCrash, TypeOK, state, launching, bounds
<1>2. ASSUME NEW t \in Terminals, Transition(t) \/ TerminalExit(t)
      PROVE  TypeOK'
  <2>1. PICK s \in ActiveStatuses \cup {"exited"} : SetTerm(t, s)
    BY <1>2 DEF Transition, TerminalExit, ActiveStatuses
  <2>2. /\ term' \in [Terminals -> {"none", "exited", "synced", "lost"} \cup ActiveStatuses]
        /\ sequence' \in [Terminals -> Nat]
    BY <2>1 DEF SetTerm, TypeOK
  <2>3. UNCHANGED <<state, launching, syncing, daemon, boot, reconciler, finisher, bounds>>
    BY <1>2 DEF Transition, TerminalExit
  <2> QED BY <2>2, <2>3 DEF TypeOK, state, launching, bounds
<1>3. ASSUME NEW t \in Terminals, Sync(t) PROVE TypeOK'
  <2>1. [status |-> term[t], seq |-> sequence[t], daemon |-> daemon] \in Snapshot
    BY <1>3 DEF Sync, TypeOK, Snapshot
  <2> QED BY <1>3, <2>1 DEF Sync, TypeOK, state, launching, bounds
<1>4. ASSUME NEW t \in Terminals, SyncFails(t) PROVE TypeOK'
  BY <1>4 DEF SyncFails, TypeOK, state, launching, bounds
<1>5. ASSUME NEW t \in Terminals, Observe(t) PROVE TypeOK'
  <2>1. syncing[t] \in Snapshot /\ syncing[t].status # "exited"
    BY <1>5 DEF Observe, TypeOK
  <2>2. runs' \in [RunIds -> Lease \cup {None}]
    BY <1>5, <2>1, ObservedType DEF Observe, TypeOK, Leased
  <2>3. agentHistory' \in [RunIds -> History \cup {None}]
    BY <1>5, <2>1, ObservedType DEF Observe, TypeOK, Of
  <2>4. syncing' \in [Terminals -> Snapshot \cup {None}]
    BY <1>5 DEF Observe, TypeOK
  <2> QED BY <1>5, <2>2, <2>3, <2>4 DEF Observe, TypeOK, launching, bounds
<1>6. ASSUME NEW t \in Terminals, ObserveExit(t) PROVE TypeOK'
  <2>1. syncing[t].seq \in Nat
    BY <1>6 DEF ObserveExit, TypeOK, Snapshot
  <2>2. "daemon" \in Enders
    BY DEF Enders
  <2> QED BY ZenonT(60), <1>6, <2>1, <2>2, FinalizeTerminalType
          DEF ObserveExit, TypeOK, launching, bounds
<1>7. ASSUME NEW t \in Terminals, Register(t) PROVE TypeOK'
  <2>1. PICK r \in Leased : runs' = [runs EXCEPT ![r].bridge = TRUE]
    BY <1>7 DEF Register
  <2>2. r \in RunIds /\ runs[r] \in Lease
    BY DEF Leased, TypeOK
  <2>3. [runs[r] EXCEPT !.bridge = TRUE] \in Lease
    BY <2>2 DEF Lease
  <2>4. runs' \in [RunIds -> Lease \cup {None}]
    BY <2>1, <2>2, <2>3 DEF TypeOK
  <2> QED BY <1>7, <2>4 DEF Register, TypeOK, launching, terminals, bounds
<1>8. CASE Reboot
  <2>1. term' \in [Terminals -> {"none", "exited", "synced", "lost"} \cup ActiveStatuses]
    BY <1>8 DEF Reboot
  <2>2. daemon' \in 1..MaxDaemon /\ boot' \in 1..MaxBoots
    BY <1>8 DEF Reboot, TypeOK
  <2>3. provider' \in [Launchers -> {"none", "alive", "gone"}]
    BY <1>8 DEF Reboot, TypeOK
  <2>4. pc' \in [Launchers -> {"idle", "prepared", "inserted", "started",
                               "orphaning", "leaving", "gone"}]
    BY <1>8 DEF Reboot, TypeOK
  <2>5. reconciler' \in Reconcilers
    BY <1>8 DEF Reboot, IdleReconciler, Reconcilers
  <2>6. finisher' \in [Finishers -> 0..MaxSession]
    BY <1>8 DEF Reboot
  <2>7. syncing' \in [Terminals -> Snapshot \cup {None}]
    BY <1>8 DEF Reboot
  <2> QED BY <1>8, <2>1, <2>2, <2>3, <2>4, <2>5, <2>6, <2>7
          DEF Reboot, TypeOK, state, bounds
<1> QED BY <1>1, <1>2, <1>3, <1>4, <1>5, <1>6, <1>7, <1>8

LEMMA ReconcilerType ==
  ASSUME TypeOK, LeasesMatchHistory,
         FetchInventory \/ Reconcile \/ ReconcileFinalize \/ ReconcileLocally
  PROVE  TypeOK'
<1> USE RunsAssumption, NoneAssumption
<1>1. CASE FetchInventory
  BY <1>1 DEF FetchInventory, TypeOK, Reconcilers, state, launching, terminals, bounds
<1>2. CASE Reconcile
  <2>1. ASSUME NEW r \in Leased
        PROVE  /\ runs[r] \in Lease /\ agentHistory[r] \in History
               /\ OrphanedLease(runs[r]) \in Lease
               /\ [runs[r] EXCEPT !.owner = reconciler.daemon, !.boot = boot] \in Lease
               /\ OrphanedRun(agentHistory[r], runs[r]) \in History
    <3>1. runs[r] \in Lease /\ agentHistory[r] \in History
      BY DEF TypeOK, LeasesMatchHistory, Leased
    <3>2. reconciler.daemon \in 0..MaxDaemon /\ boot \in 1..MaxBoots
      BY DEF TypeOK, Reconcilers
    <3> QED BY <3>1, <3>2 DEF OrphanedLease, OrphanedRun, Lease, History,
                              LeaseStatuses, Bigger
  <2>2. Leased \subseteq RunIds
    BY DEF Leased
  <2>3. runs' \in [RunIds -> Lease \cup {None}]
    BY <1>2, <2>1, <2>2 DEF Reconcile, TypeOK
  <2>4. agentHistory' \in [RunIds -> History \cup {None}]
    BY <1>2, <2>1, <2>2 DEF Reconcile, TypeOK
  <2>5. reconciler' \in Reconcilers
    <3> DEFINE gone == {r \in Leased : /\ runs[r].by \in Terminals
                                       /\ runs[r].by \notin reconciler.inventory
                                       /\ TerminalGone(runs[r])}
    <3>1. reconciler'.candidates = {[terminal |-> runs[r].by, seq |-> runs[r].seq] : r \in gone}
          /\ reconciler' = [fetched |-> FALSE, inventory |-> {}, daemon |-> 1,
                             candidates |-> reconciler'.candidates]
      BY <1>2 DEF Reconcile, IdleReconciler
    <3>2. \A r \in gone : [terminal |-> runs[r].by, seq |-> runs[r].seq] \in Candidate
      BY <2>1 DEF Lease, Candidate
    <3>3. reconciler'.candidates \in SUBSET Candidate
      BY <3>1, <3>2
    <3>4. ASSUME NEW C \in SUBSET Candidate
          PROVE  [fetched |-> FALSE, inventory |-> {}, daemon |-> 1,
                  candidates |-> C] \in Reconcilers
      BY DEF Reconcilers
    <3> HIDE DEF gone
    <3> QED BY <3>1, <3>3, <3>4
  <2> QED BY <1>2, <2>3, <2>4, <2>5 DEF Reconcile, TypeOK, launching, terminals, bounds
<1>3. CASE ReconcileFinalize
  <2>1. PICK c \in reconciler.candidates :
          /\ \/ /\ FinalizeTerminalRun(c.terminal, "reconcile", c.seq)
                /\ reconciler' = [reconciler EXCEPT !.candidates = @ \ {c}]
             \/ UNCHANGED state /\ reconciler' = IdleReconciler
          /\ UNCHANGED <<launching, terminals, finisher, bounds>>
    BY <1>3 DEF ReconcileFinalize
  <2>2. c.terminal \in Terminals /\ c.seq \in Nat /\ "reconcile" \in Enders
    BY DEF TypeOK, Enders, Reconcilers, Candidate
  <2>3. IdleReconciler \in Reconcilers
    BY DEF IdleReconciler, Reconcilers
  <2>4. [reconciler EXCEPT !.candidates = @ \ {c}] \in Reconcilers
    BY DEF TypeOK, Reconcilers
  <2>5. reconciler' \in Reconcilers
    BY <2>1, <2>3, <2>4
  <2> QED BY <2>1, <2>2, <2>5, FinalizeTerminalType
          DEF TypeOK, state, launching, terminals, bounds
<1>4. CASE ReconcileLocally
  BY <1>4, MarkOrphanedType DEF ReconcileLocally, TypeOK, Leased, launching,
                                terminals, bounds
<1> QED BY SMTT(60), <1>1, <1>2, <1>3, <1>4

LEMMA UserType ==
  ASSUME TypeOK, LeasesMatchHistory,
         \/ \E r \in RunIds : RecoverOrphanedRun(r)
         \/ \E f \in Finishers : BeginFinish(f) \/ Finish(f)
         \/ StartTask
  PROVE  TypeOK'
<1> USE RunsAssumption, NoneAssumption
<1>1. ASSUME NEW r \in RunIds, RecoverOrphanedRun(r) PROVE TypeOK'
  <2>1. agentHistory[r] \in History /\ agentHistory[r] # None
    BY <1>1 DEF RecoverOrphanedRun, LeasesMatchHistory, TypeOK
  <2>2. agentHistory[r].life \in LeaseStatuses \cup {"closed"} /\ "recover" \in Enders
    BY <2>1 DEF History, Enders
  <2>3. EndRun(r, "recover", agentHistory[r].life, 0)
    BY <1>1 DEF RecoverOrphanedRun
  <2>4. /\ runs' \in [RunIds -> Lease \cup {None}]
        /\ agentHistory' \in [RunIds -> History \cup {None}]
    BY <2>1, <2>2, <2>3, EndRunType
  <2> QED BY <1>1, <2>4 DEF RecoverOrphanedRun, TypeOK, launching, terminals, bounds
<1>2. ASSUME NEW f \in Finishers, BeginFinish(f) \/ Finish(f) PROVE TypeOK'
  <2>1. CASE BeginFinish(f)
    BY <2>1 DEF BeginFinish, TypeOK, state, launching, terminals, bounds
  <2>2. CASE Finish(f)
    BY <2>2 DEF Finish, TypeOK, launching, terminals, bounds
  <2> QED BY <1>2, <2>1, <2>2
<1>3. CASE StartTask
  <2>1. recentOperations' \in Seq(OpIds)
    BY <1>3, EmptySeq DEF StartTask
  <2>2. sessionId' \in 1..MaxSession
    BY <1>3 DEF StartTask, TypeOK
  <2> QED BY <1>3, <2>1, <2>2 DEF StartTask, TypeOK, launching, terminals, bounds
<1> QED BY <1>1, <1>2, <1>3

-----------------------------------------------------------------------------
(* A worktree has at most one writer.                                      *)

\* What a mutation other than a launch or the start of a task does: the runs
\* of E end, and the leases of the others stay with those who have them.
Ends(E) ==
  /\ sessionId' = sessionId /\ taskActive' = taskActive
  /\ \A r \in RunIds :
       /\ agentHistory'[r] # None <=> agentHistory[r] # None
       /\ agentHistory[r] # None =>
            /\ agentHistory'[r].by = agentHistory[r].by
            /\ agentHistory'[r].endedBy # None
                 <=> agentHistory[r].endedBy # None \/ r \in E
       /\ runs'[r] # None <=> runs[r] # None /\ r \notin E
       /\ runs'[r] # None =>
            /\ runs'[r].by = runs[r].by
            /\ runs'[r].seq <= agentHistory'[r].seq
            /\ runs'[r].boot \in {runs[r].boot, boot}

\* The leases go on matching the history, and the claims not ended still hold.
LEMMA EndsKeeps ==
  ASSUME TypeOK, TypeOK', LeasesMatchHistory, NEW E \in SUBSET RunIds, Ends(E),
         sess' = sess
  PROVE  /\ LeasesMatchHistory'
         /\ \A l \in Launchers : Claims(l) /\ Run(l) \notin E => Claims(l)'
<1>1. \A r \in RunIds : r \in Leased' <=> r \in Leased /\ r \notin E
  BY DEF Ends, Leased
<1>2. \A r \in RunIds : Ended(r)' <=> Ended(r) \/ (agentHistory[r] # None /\ r \in E)
  BY DEF Ends, Ended
<1>3. \A r \in RunIds : r \in Leased' <=> agentHistory'[r] # None /\ ~Ended(r)'
  BY <1>1, <1>2 DEF LeasesMatchHistory, Ends
<1>4. Leased' \subseteq Leased /\ Leased \subseteq RunIds
  BY <1>1 DEF Leased
<1>5. \A r \in Leased' :
        /\ r[1] = sessionId' /\ taskActive'
        /\ runs'[r].by = agentHistory'[r].by /\ runs'[r].by = runs[r].by
        /\ runs'[r].seq <= agentHistory'[r].seq
  BY <1>3, <1>4 DEF LeasesMatchHistory, Ends, Leased
<1>6. \A q, r \in Leased' :
        WorktreeOf[runs'[q].by] = WorktreeOf[runs'[r].by] => q = r
  BY <1>4, <1>5 DEF LeasesMatchHistory
<1>7. LeasesMatchHistory'
  BY <1>3, <1>5, <1>6 DEF LeasesMatchHistory
<1>8. ASSUME NEW l \in Launchers, Claims(l), Run(l) \notin E PROVE Claims(l)'
  <2>1. Run(l)' = Run(l) /\ Run(l) \in RunIds
    BY RunType DEF Run
  <2> QED BY <1>8, <2>1 DEF Claims, Ends
<1> QED BY <1>7, <1>8

\* The history stays its launchers', as long as no launcher goes back.
LEMMA OwnedKept ==
  ASSUME TypeOK, HistoryOwned, NEW E \in SUBSET RunIds, Ends(E), sess' = sess,
         \A l \in Launchers : Inserted(l)' => Inserted(l),
         \A l \in Launchers :
           pc'[l] \in {"idle", "prepared"} => pc[l] \in {"idle", "prepared"}
  PROVE  HistoryOwned'
<1>1. \A l \in Launchers : Run(l)' = Run(l) /\ Run(l) \in RunIds
  BY RunType DEF Run
<1>2. \A r \in RunIds : agentHistory[r] # None => agentHistory[r].by \in Launchers
  BY DEF TypeOK, History
<1>3. ASSUME NEW r \in RunIds, agentHistory'[r] # None
      PROVE  /\ r[1] = sessionId' /\ Run(agentHistory[r].by)' = r
             /\ pc'[agentHistory'[r].by] \notin {"idle", "prepared"}
  <2>1. agentHistory[r] # None /\ agentHistory'[r].by = agentHistory[r].by
    BY <1>3 DEF Ends
  <2> QED BY <2>1, <1>1, <1>2 DEF HistoryOwned, Ends
<1>4. ASSUME NEW l \in Launchers
      PROVE  /\ sess'[l] <= sessionId'
             /\ Inserted(l)' /\ sess'[l] = sessionId' =>
                  agentHistory'[Run(l)'] # None /\ agentHistory'[Run(l)'].by = l
  BY <1>1 DEF HistoryOwned, Ends
<1> QED BY <1>3, <1>4 DEF HistoryOwned

\* Nobody comes back to the leases of an earlier boot.
LEMMA GoneKept ==
  ASSUME EarlierBootGone, NEW E \in SUBSET RunIds, Ends(E), boot' = boot,
         TypeOK, \A l \in Launchers : pc[l] = "gone" => pc'[l] = "gone"
  PROVE  EarlierBootGone'
<1> SUFFICES ASSUME NEW r \in Leased', runs'[r].boot # boot'
             PROVE  pc'[runs'[r].by] = "gone"
  BY DEF EarlierBootGone
<1>1. r \in RunIds /\ runs'[r] # None
  BY DEF Leased
<1>2. r \in Leased /\ runs'[r].by = runs[r].by /\ runs'[r].boot = runs[r].boot
  BY <1>1 DEF Ends, Leased
<1>3. runs[r].by \in Launchers
  BY <1>2 DEF TypeOK, Lease, Leased
<1> QED BY <1>2, <1>3 DEF EarlierBootGone

-----------------------------------------------------------------------------
(* Which mutations end what.                                               *)

LEMMA NothingEnds ==
  ASSUME TypeOK, LeasesMatchHistory, UNCHANGED state
  PROVE  Ends({})
BY DEF state, Ends, TypeOK, LeasesMatchHistory, Leased

LEMMA MarkOrphanedEnds ==
  ASSUME TypeOK, LeasesMatchHistory, NEW R \in SUBSET RunIds, MarkOrphaned(R),
         UNCHANGED <<sessionId, taskActive>>
  PROVE  Ends({})
<1>1. ASSUME NEW r \in Leased
      PROVE  /\ runs[r] \in Lease /\ agentHistory[r] \in History
             /\ runs[r].seq <= agentHistory[r].seq /\ agentHistory[r].endedBy = None
  BY DEF TypeOK, LeasesMatchHistory, Leased, Ended
<1>2. ASSUME NEW r \in Leased
      PROVE  /\ OrphanedLease(runs[r]).by = runs[r].by
             /\ OrphanedLease(runs[r]).seq = runs[r].seq
             /\ OrphanedLease(runs[r]).boot = runs[r].boot
             /\ OrphanedLease(runs[r]) # None
             /\ OrphanedRun(agentHistory[r], runs[r]).by = agentHistory[r].by
             /\ OrphanedRun(agentHistory[r], runs[r]).endedBy = None
             /\ OrphanedRun(agentHistory[r], runs[r]).seq >= runs[r].seq
             /\ OrphanedRun(agentHistory[r], runs[r]) # None
  <2>1. ASSUME NEW lease \in Lease
        PROVE  /\ OrphanedLease(lease) \in Lease
               /\ OrphanedLease(lease).by = lease.by
               /\ OrphanedLease(lease).seq = lease.seq
               /\ OrphanedLease(lease).boot = lease.boot
    BY DEF OrphanedLease, Lease, LeaseStatuses
  <2>2. ASSUME NEW run \in History, NEW lease \in Lease, run.endedBy = None
        PROVE  /\ OrphanedRun(run, lease) \in History
               /\ OrphanedRun(run, lease).by = run.by
               /\ OrphanedRun(run, lease).endedBy = None
               /\ OrphanedRun(run, lease).seq >= lease.seq
    <3>1. OrphanedRun(run, lease) \in History
      BY DEF OrphanedRun, Lease, History, LeaseStatuses, Bigger
    <3>2. Bigger(run.seq, lease.seq) >= lease.seq
      BY DEF Bigger, Lease, History
    <3>3. OrphanedRun(run, lease) =
            [run EXCEPT !.life = "orphaned", !.seq = Bigger(run.seq, lease.seq)]
      BY <2>2 DEF OrphanedRun
    <3> QED BY <2>2, <3>1, <3>2, <3>3 DEF History
  <2> QED BY <1>1, <2>1, <2>2, NoneAssumption
<1>3. ASSUME NEW r \in RunIds, r \in R \cap Leased
      PROVE  /\ runs'[r] = OrphanedLease(runs[r])
             /\ agentHistory'[r] = OrphanedRun(agentHistory[r], runs[r])
             /\ runs[r] # None /\ agentHistory[r] # None
  <2>1. runs[r] # None /\ agentHistory[r] # None
    BY <1>1, <1>3, NoneAssumption DEF Leased
  <2> QED BY <2>1, <1>3 DEF MarkOrphaned
<1>4. ASSUME NEW r \in RunIds, r \notin R \cap Leased
      PROVE  runs'[r] = runs[r] /\ agentHistory'[r] = agentHistory[r]
  BY <1>4 DEF MarkOrphaned
<1>5. ASSUME NEW r \in RunIds, runs[r] # None
      PROVE  runs[r].seq <= agentHistory[r].seq
  BY <1>1, <1>5 DEF Leased
<1> QED BY <1>1, <1>2, <1>3, <1>4, <1>5 DEF Ends

LEMMA EndRunEnds ==
  ASSUME TypeOK, LeasesMatchHistory, NEW r \in RunIds, agentHistory[r] # None,
         NEW who \in Enders, NEW life \in LeaseStatuses \cup {"closed"},
         NEW seq \in Nat, EndRun(r, who, life, seq),
         UNCHANGED <<sessionId, taskActive>>
  PROVE  Ends({r})
<1>1. agentHistory[r] \in History
  BY DEF TypeOK
<1>2. EndedRun(agentHistory[r], who, life, seq) \in History
  BY <1>1 DEF EndedRun, History, Bigger
<1>3. /\ EndedRun(agentHistory[r], who, life, seq) # None
      /\ EndedRun(agentHistory[r], who, life, seq).by = agentHistory[r].by
      /\ EndedRun(agentHistory[r], who, life, seq).endedBy # None
  BY <1>1, <1>2, NoneAssumption DEF EndedRun, History
<1>4. /\ runs'[r] = None
      /\ agentHistory'[r] = EndedRun(agentHistory[r], who, life, seq)
  BY DEF EndRun, TypeOK
<1>5. \A q \in RunIds \ {r} : runs'[q] = runs[q] /\ agentHistory'[q] = agentHistory[q]
  BY DEF EndRun, TypeOK
<1>6. \A q \in RunIds : runs[q] # None => runs[q].seq <= agentHistory[q].seq
  BY DEF LeasesMatchHistory, Leased
<1> QED BY <1>3, <1>4, <1>5, <1>6 DEF Ends

-----------------------------------------------------------------------------
(* The steps of the invariant, by who takes them.                          *)

\* What others than launchers do: they end only runs whose launcher is gone.
LEMMA OutsideStep ==
  ASSUME WriterInv, TypeOK', TreeGone', UNCHANGED launching, boot' = boot,
         NEW E \in SUBSET RunIds, Ends(E),
         \A r \in E : agentHistory[r] # None =>
           pc[agentHistory[r].by] = "gone" /\ ~Running(agentHistory[r].by)
  PROVE  WriterInv'
<1>1. pc' = pc /\ sess' = sess /\ provider' = provider
  BY DEF launching
<1>2. LeasesMatchHistory'
  BY <1>1, EndsKeeps DEF WriterInv
<1>3. HistoryOwned'
  BY <1>1, OwnedKept DEF WriterInv, Inserted
<1>4. SpawnedOnce'
  BY <1>1 DEF WriterInv, SpawnedOnce, Run
<1>5. ASSUME NEW l \in Launchers PROVE Placed(l)'
  <2>1. Placed(l)
    BY DEF WriterInv
  <2>2. ASSUME pc[l] = "inserted" \/ Running(l) PROVE Claims(l)'
    <3>1. Claims(l) /\ Inserted(l) /\ Run(l) \in RunIds
      BY <2>1, <2>2, RunType DEF Placed, Inserted, Running, WriterInv
    <3>2. agentHistory[Run(l)] # None /\ agentHistory[Run(l)].by = l
      BY <3>1 DEF WriterInv, HistoryOwned, Claims
    <3>3. Run(l) \notin E
      BY <2>2, <3>2
    <3> QED BY <1>1, <3>1, <3>3, EndsKeeps DEF WriterInv
  <2> QED BY <1>1, <2>1, <2>2 DEF Placed, Running
<1>6. EarlierBootGone'
  BY <1>1, GoneKept DEF WriterInv
<1> QED BY <1>2, <1>3, <1>4, <1>5, <1>6 DEF WriterInv

\* What a launcher does once its run is inserted, or refused: it ends at most
\* its own run, and that only when its provider is gone.
LEMMA LauncherStep ==
  ASSUME WriterInv, TypeOK', NEW l \in Launchers, sess' = sess,
         UNCHANGED <<terminals, reconciler>>,
         NEW p \in {"orphaning", "leaving", "gone"}, Goto(l, p),
         pc[l] \notin {"idle", "gone"},
         \/ provider' = provider
         \/ provider[l] # "none" /\ provider' = [provider EXCEPT ![l] = "gone"],
         NEW E \in SUBSET {Run(l)}, Ends(E),
         E # {} => sess[l] = sessionId /\ Inserted(l) /\ provider'[l] # "alive",
         provider'[l] = "alive" => p = "gone" /\ l \notin Terminals,
         p = "orphaning" => provider[l] # "none"
  PROVE  WriterInv'
<1> USE DEF Goto
<1>0. TypeOK /\ Run(l) \in RunIds /\ E \in SUBSET RunIds
  BY RunType DEF WriterInv
<1>1. /\ pc'[l] = p
      /\ \A k \in Launchers \ {l} : pc'[k] = pc[k] /\ provider'[k] = provider[k]
      /\ \A k \in Launchers :
           /\ provider'[k] # "none" <=> provider[k] # "none"
           /\ Running(k)' => Running(k)
  BY <1>0 DEF TypeOK, Running
<1>2. LeasesMatchHistory'
  BY <1>0, EndsKeeps DEF WriterInv
<1>3. HistoryOwned'
  <2>1. \A k \in Launchers : Inserted(k)' => Inserted(k)
    BY <1>1 DEF Inserted
  <2>2. \A k \in Launchers :
          pc'[k] \in {"idle", "prepared"} => pc[k] \in {"idle", "prepared"}
    BY <1>1
  <2> QED BY <1>0, <2>1, <2>2, OwnedKept DEF WriterInv
<1>4. SpawnedOnce'
  BY <1>1 DEF WriterInv, SpawnedOnce, Run
<1>5. TreeGone'
  <2>1. \A k \in Launchers : pc[k] = "gone" => pc'[k] = "gone"
    BY <1>1
  <2>2. \A c \in reconciler.candidates : c.terminal \in Terminals
    BY <1>0 DEF TypeOK, Reconcilers, Candidate
  <2>3. \A t \in Terminals : pc'[t] = "gone" => ~Running(t)'
    BY <1>1, RunsAssumption DEF WriterInv, TreeGone, Running
  <2> QED BY <2>1, <2>2, <2>3, RunsAssumption DEF WriterInv, TreeGone, terminals
<1>6. ASSUME NEW k \in Launchers PROVE Placed(k)'
  <2>1. Placed(k)
    BY DEF WriterInv
  <2>2. ASSUME pc'[k] = "inserted" \/ Running(k)' PROVE Claims(k)'
    <3>1. pc[k] = "inserted" \/ Running(k)
      BY <1>1, <2>2
    <3>2. Claims(k) /\ Inserted(k) /\ Run(k) \in RunIds
      BY <2>1, <3>1, <1>0, RunType DEF Placed, Inserted, Running
    <3>3. agentHistory[Run(k)] # None /\ agentHistory[Run(k)].by = k
      BY <3>2 DEF WriterInv, HistoryOwned, Claims
    <3>4. Run(k) \notin E
      <4>1. CASE k = l
        BY <4>1, <2>2, <1>1 DEF Running
      <4>2. CASE k # l /\ E # {}
        BY <4>2, <3>3 DEF WriterInv, HistoryOwned
      <4> QED BY <4>1, <4>2
    <3> QED BY <1>0, <3>2, <3>4, EndsKeeps DEF WriterInv
  <2> QED BY <1>1, <2>1, <2>2 DEF Placed, Running
<1>7. EarlierBootGone'
  <2>1. \A k \in Launchers : pc[k] = "gone" => pc'[k] = "gone"
    BY <1>1
  <2>2. boot' = boot
    BY DEF terminals
  <2> QED BY <1>0, <2>1, <2>2, GoneKept DEF WriterInv
<1> QED BY <1>2, <1>3, <1>4, <1>5, <1>6, <1>7 DEF WriterInv

-----------------------------------------------------------------------------
(* Every action keeps the invariant.                                       *)

LEMMA PrepareKeeps ==
  ASSUME WriterInv, TypeOK', NEW l \in Launchers, Prepare(l)
  PROVE  WriterInv'
<1>1. /\ UNCHANGED <<state, provider, syncing, boot, reconciler>> /\ pc[l] = "idle"
      /\ pc' = [pc EXCEPT ![l] = "prepared"] /\ sess' = [sess EXCEPT ![l] = sessionId]
      /\ \A t \in Terminals : term'[t] = "exited" => term[t] = "exited"
  BY DEF Prepare, Goto
<1>2. TypeOK /\ provider[l] = "none" /\ ~Inserted(l)
  BY <1>1 DEF WriterInv, Placed, Inserted
<1>3. \A k \in Launchers \ {l} :
        pc'[k] = pc[k] /\ sess'[k] = sess[k] /\ Run(k)' = Run(k)
  BY <1>1, <1>2 DEF TypeOK, Run
<1>4. pc'[l] = "prepared" /\ sess'[l] = sessionId /\ provider'[l] = "none"
  BY <1>1, <1>2 DEF TypeOK
<1>5. LeasesMatchHistory'
  BY <1>1 DEF WriterInv, LeasesMatchHistory, Leased, Ended, state
<1>6. HistoryOwned'
  <2>1. ASSUME NEW r \in RunIds, agentHistory[r] # None
        PROVE  agentHistory[r].by \in Launchers \ {l}
    BY SMTT(60), <2>1, <1>1, <1>2 DEF TypeOK, History, WriterInv, HistoryOwned
  <2>2. ASSUME NEW r \in RunIds, agentHistory'[r] # None
        PROVE  /\ r[1] = sessionId' /\ Run(agentHistory[r].by)' = r
               /\ pc'[agentHistory'[r].by] \notin {"idle", "prepared"}
    BY <2>1, <2>2, <1>1, <1>3 DEF WriterInv, HistoryOwned, state
  <2>3. ASSUME NEW k \in Launchers
        PROVE  /\ sess'[k] <= sessionId'
               /\ Inserted(k)' /\ sess'[k] = sessionId' =>
                    agentHistory'[Run(k)'] # None /\ agentHistory'[Run(k)'].by = k
    <3>1. CASE k = l
      BY <3>1, <1>1, <1>2, <1>4 DEF TypeOK, Inserted, state
    <3>2. CASE k # l
      BY <3>2, <1>1, <1>3 DEF WriterInv, HistoryOwned, Inserted, state
    <3> QED BY <3>1, <3>2
  <2> QED BY <1>1, <2>2, <2>3 DEF HistoryOwned, state
<1>7. TreeGone'
  <2>1. \A k \in Launchers : pc'[k] = "gone" <=> pc[k] = "gone"
    BY <1>1, <1>3, <1>4
  <2>2. \A c \in reconciler.candidates : c.terminal \in Launchers
    BY <1>2, RunsAssumption DEF TypeOK, Reconcilers, Candidate
  <2> QED BY <1>1, <2>1, <2>2, RunsAssumption DEF WriterInv, TreeGone, Running
<1>8. SpawnedOnce'
  BY <1>1, <1>2, <1>3 DEF WriterInv, SpawnedOnce
<1>9. ASSUME NEW k \in Launchers PROVE Placed(k)'
  <2>1. CASE k = l
    BY <2>1, <1>4 DEF Placed, Running
  <2>2. CASE k # l
    BY <2>2, <1>1, <1>3 DEF WriterInv, Placed, Running, Claims, state
  <2> QED BY <2>1, <2>2
<1>10. EarlierBootGone'
  <2>1. \A r \in Leased : runs[r].by \in Launchers
    BY <1>2 DEF TypeOK, Lease, Leased
  <2>2. \A k \in Launchers : pc[k] = "gone" => pc'[k] = "gone"
    BY <1>1, <1>3
  <2> QED BY <1>1, <2>1, <2>2 DEF WriterInv, EarlierBootGone, Leased, state
<1> QED BY <1>5, <1>6, <1>7, <1>8, <1>9, <1>10 DEF WriterInv

\* The insertion: no run of this id, no lease on this worktree.
LEMMA InsertKeeps ==
  ASSUME WriterInv, TypeOK', NEW l \in Launchers, Insert(l)
  PROVE  WriterInv'
<1> DEFINE r0 == Run(l)
<1>1. /\ UNCHANGED <<sessionId, taskActive, sess, provider, terminals, reconciler>>
      /\ pc[l] = "prepared"
      /\ \/ pc' = [pc EXCEPT ![l] = "inserted"] \/ pc' = [pc EXCEPT ![l] = "leaving"]
      /\ sess[l] = sessionId /\ taskActive /\ agentHistory[r0] = None
      /\ WorktreeFree(WorktreeOf[l])
  BY AppliedFacts DEF Insert, Goto, WriterInv
<1>2. TypeOK /\ r0 \in RunIds /\ provider[l] = "none" /\ r0[1] = sessionId
  BY <1>1, RunType DEF WriterInv, Placed, Run
<1>3. /\ agentHistory'[r0] = [life |-> "running", seq |-> 0, by |-> l, endedBy |-> None]
      /\ runs'[r0] = [status |-> "running", seq |-> 0, by |-> l, owner |-> 0,
                      boot |-> boot, bridge |-> FALSE]
      /\ \A r \in RunIds \ {r0} :
           agentHistory'[r] = agentHistory[r] /\ runs'[r] = runs[r]
  BY <1>2 DEF Insert, TypeOK
<1>4. agentHistory'[r0] # None /\ runs'[r0] # None
  <2>1. agentHistory'[r0] \in History
    BY <1>3 DEF History, LeaseStatuses, ActiveStatuses
  <2>2. runs'[r0] \in Lease
    BY <1>2, <1>3, RunsAssumption DEF Lease, LeaseStatuses, ActiveStatuses, TypeOK
  <2> QED BY <2>1, <2>2, NoneAssumption
<1>5. \A k \in Launchers : Run(k)' = Run(k) /\ Run(k) \in RunIds
  BY <1>1, <1>2, RunType DEF Run
<1>6. pc'[l] \in {"inserted", "leaving"} /\ \A k \in Launchers \ {l} : pc'[k] = pc[k]
  BY SMTT(60), <1>1, <1>2 DEF TypeOK
<1> HIDE DEF r0
<1>7. LeasesMatchHistory'
  <2>1. Leased' = Leased \cup {r0} /\ r0 \notin Leased
    BY <1>1, <1>2, <1>3, <1>4 DEF Leased, WriterInv, LeasesMatchHistory
  <2>2. ASSUME NEW r \in RunIds
        PROVE  r \in Leased' <=> agentHistory'[r] # None /\ ~Ended(r)'
    BY <2>1, <1>2, <1>3, <1>4 DEF WriterInv, LeasesMatchHistory, Ended
  <2>3. ASSUME NEW r \in Leased'
        PROVE  /\ r[1] = sessionId' /\ taskActive'
               /\ runs'[r].by = agentHistory'[r].by
               /\ runs'[r].seq <= agentHistory'[r].seq
    <3>1. CASE r = r0
      BY <3>1, <1>1, <1>2, <1>3
    <3>2. CASE r # r0
      <4>1. r \in Leased /\ r \in RunIds
        BY <3>2, <2>1 DEF Leased
      <4> QED BY <3>2, <4>1, <1>1, <1>3 DEF WriterInv, LeasesMatchHistory
    <3> QED BY <3>1, <3>2
  <2>4. ASSUME NEW q \in Leased', NEW r \in Leased',
               WorktreeOf[runs'[q].by] = WorktreeOf[runs'[r].by]
        PROVE  q = r
    <3>1. \A s \in Leased : s # r0 /\ runs'[s] = runs[s]
                             /\ WorktreeOf[runs'[s].by] # WorktreeOf[l]
      BY <2>1, <1>1, <1>3 DEF WorktreeFree, Leased
    <3>2. runs'[r0].by = l
      BY <1>3
    <3> QED BY <2>1, <2>4, <3>1, <3>2 DEF WriterInv, LeasesMatchHistory
  <2> QED BY <2>2, <2>3, <2>4 DEF LeasesMatchHistory
<1>8. HistoryOwned'
  <2>1. ASSUME NEW r \in RunIds, agentHistory'[r] # None
        PROVE  /\ r[1] = sessionId' /\ Run(agentHistory'[r].by) = r
               /\ agentHistory'[r].by \in Launchers
               /\ pc'[agentHistory'[r].by] \notin {"idle", "prepared"}
    <3>1. CASE r = r0
      BY <3>1, <1>1, <1>2, <1>3, <1>6 DEF r0
    <3>2. CASE r # r0
      <4>1. agentHistory[r] # None /\ agentHistory[r].by \in Launchers
        BY <3>2, <2>1, <1>2, <1>3 DEF TypeOK, History
      <4> QED BY <3>2, <4>1, <1>1, <1>3, <1>6 DEF WriterInv, HistoryOwned
    <3> QED BY <3>1, <3>2
  <2>2. ASSUME NEW k \in Launchers
        PROVE  /\ sess'[k] <= sessionId'
               /\ Inserted(k)' /\ sess'[k] = sessionId' =>
                    agentHistory'[Run(k)] # None /\ agentHistory'[Run(k)].by = k
    <3>1. CASE k = l
      BY <3>1, <1>1, <1>2, <1>3, <1>4 DEF WriterInv, HistoryOwned, r0
    <3>2. CASE k # l
      <4>1. Inserted(k)' <=> Inserted(k)
        BY <3>2, <1>1, <1>6 DEF Inserted
      <4>2. Run(k) = r0 => ~(Inserted(k) /\ sess[k] = sessionId)
        BY <1>1 DEF WriterInv, HistoryOwned
      <4> QED BY <4>1, <4>2, <1>1, <1>3, <1>5 DEF WriterInv, HistoryOwned
    <3> QED BY <3>1, <3>2
  <2>3. \A r \in RunIds : agentHistory'[r] # None => Run(agentHistory[r].by)' = r
    BY <2>1, <1>1 DEF Run
  <2> QED BY <2>1, <2>2, <2>3, <1>5 DEF HistoryOwned
<1>9. TreeGone'
  <2>1. \A k \in Launchers : pc'[k] = "gone" <=> pc[k] = "gone"
    BY <1>1, <1>6
  <2>2. \A c \in reconciler.candidates : c.terminal \in Launchers
    BY <1>2, RunsAssumption DEF TypeOK, Reconcilers, Candidate
  <2> QED BY <1>1, <2>1, <2>2, RunsAssumption DEF WriterInv, TreeGone, Running, terminals
<1>10. SpawnedOnce'
  BY <1>1, <1>5 DEF WriterInv, SpawnedOnce
<1>11. ASSUME NEW k \in Launchers PROVE Placed(k)'
  <2>1. CASE k = l
    BY <2>1, <1>1, <1>2, <1>3, <1>4, <1>5, <1>6 DEF Placed, Running, Claims, r0
  <2>2. CASE k # l
    <3>1. Claims(k) => Claims(k)'
      <4>1. Claims(k) => Run(k) # r0
        BY <1>1, <1>5 DEF Claims, WriterInv, LeasesMatchHistory, Leased
      <4> QED BY <4>1, <1>1, <1>3, <1>5 DEF Claims
    <3> QED BY <2>2, <3>1, <1>1, <1>6 DEF WriterInv, Placed, Running
  <2> QED BY <2>1, <2>2
<1>12. EarlierBootGone'
  <2>1. ASSUME NEW r \in Leased', runs'[r].boot # boot'
        PROVE  pc'[runs'[r].by] = "gone"
    <3>1. r \in RunIds /\ runs'[r] # None /\ boot' = boot
      BY <1>1 DEF Leased, terminals
    <3>2. r # r0
      BY <2>1, <1>3, <3>1
    <3>3. r \in Leased /\ runs'[r] = runs[r] /\ runs[r].by \in Launchers
      BY <3>1, <3>2, <1>2, <1>3 DEF Leased, TypeOK, Lease
    <3> QED BY <2>1, <3>1, <3>3, <1>1, <1>6 DEF WriterInv, EarlierBootGone
  <2> QED BY <2>1 DEF EarlierBootGone
<1> QED BY <1>7, <1>8, <1>9, <1>10, <1>11, <1>12 DEF WriterInv

\* host.start: another launcher that has spawned this run would own its entry.
LEMMA SpawnKeeps ==
  ASSUME WriterInv, TypeOK', NEW l \in Launchers, Spawn(l)
  PROVE  WriterInv'
<1>1. PICK p \in {"alive", "gone"} : provider' = [provider EXCEPT ![l] = p]
  BY DEF Spawn
<1>2. /\ UNCHANGED <<state, sess, terminals, reconciler>>
      /\ pc[l] = "inserted" /\ pc' = [pc EXCEPT ![l] = "started"]
  BY DEF Spawn, Goto
<1>3. TypeOK /\ Placed(l) /\ Claims(l) /\ Inserted(l)
  BY <1>2 DEF WriterInv, Placed, Inserted
<1>4. /\ \A k \in Launchers \ {l} : pc'[k] = pc[k] /\ provider'[k] = provider[k]
      /\ pc'[l] = "started" /\ provider'[l] = p
      /\ \A k \in Launchers : Run(k)' = Run(k) /\ Run(k) \in RunIds
  BY <1>1, <1>2, <1>3, RunType DEF TypeOK, Run
<1>5. Ends({})
  BY <1>2, NothingEnds DEF WriterInv
<1>6. LeasesMatchHistory' /\ \A k \in Launchers : Claims(k) => Claims(k)'
  BY <1>2, <1>3, <1>5, EndsKeeps DEF WriterInv
<1>7. HistoryOwned'
  BY <1>2, <1>3, <1>4, <1>5, OwnedKept DEF WriterInv, Inserted
<1>8. TreeGone'
  <2>1. \A k \in Launchers : pc'[k] = "gone" <=> pc[k] = "gone"
    BY <1>2, <1>4
  <2>2. \A c \in reconciler.candidates : c.terminal \in Launchers
    BY <1>3, RunsAssumption DEF TypeOK, Reconcilers, Candidate
  <2>3. \A t \in Terminals : pc'[t] = "gone" => ~Running(t)'
    BY <2>1, <1>4, RunsAssumption DEF WriterInv, TreeGone, Running
  <2> QED BY <1>2, <2>1, <2>2, <2>3, RunsAssumption DEF WriterInv, TreeGone, terminals
<1>9. SpawnedOnce'
  <2>1. ASSUME NEW k \in Launchers, provider[k] # "none", Run(k) = Run(l)
        PROVE  k = l
    <3>1. sess[k] = sessionId /\ sess[l] = sessionId
      BY <2>1, <1>3 DEF Run, Claims
    <3> QED BY <2>1, <3>1, <1>3 DEF WriterInv, HistoryOwned, Inserted
  <2> QED BY <2>1, <1>4 DEF WriterInv, SpawnedOnce
<1>10. ASSUME NEW k \in Launchers PROVE Placed(k)'
  BY <1>3, <1>4, <1>6 DEF WriterInv, Placed, Running
<1>11. EarlierBootGone'
  <2>1. \A k \in Launchers : pc[k] = "gone" => pc'[k] = "gone"
    BY <1>2, <1>4
  <2> QED BY <1>2, <1>3, <1>5, <2>1, GoneKept DEF WriterInv, terminals
<1> QED BY <1>6, <1>7, <1>8, <1>9, <1>10, <1>11 DEF WriterInv

LEMMA ProviderExitKeeps ==
  ASSUME WriterInv, TypeOK', NEW l \in Launchers, ProviderExit(l)
  PROVE  WriterInv'
<1>1. /\ UNCHANGED <<state, pc, sess, terminals, reconciler>>
      /\ provider[l] = "alive" /\ provider' = [provider EXCEPT ![l] = "gone"]
  BY DEF ProviderExit
<1>2. /\ TypeOK
      /\ \A k \in Launchers : /\ provider'[k] # "none" <=> provider[k] # "none"
                              /\ Running(k)' => Running(k)
                              /\ Run(k)' = Run(k)
  BY <1>1 DEF WriterInv, TypeOK, Running, Run
<1>3. Ends({})
  BY <1>1, NothingEnds DEF WriterInv
<1>4. LeasesMatchHistory' /\ \A k \in Launchers : Claims(k) => Claims(k)'
  BY <1>1, <1>2, <1>3, EndsKeeps DEF WriterInv
<1>5. HistoryOwned'
  BY <1>1, <1>2, <1>3, OwnedKept DEF WriterInv, Inserted
<1>6. TreeGone'
  BY <1>1, <1>2, RunsAssumption DEF WriterInv, TreeGone, terminals
<1>7. SpawnedOnce'
  BY <1>2 DEF WriterInv, SpawnedOnce
<1>8. ASSUME NEW k \in Launchers PROVE Placed(k)'
  <2>1. provider'[k] = "none" <=> provider[k] = "none"
    BY <1>2
  <2> QED BY <2>1, <1>1, <1>2, <1>4 DEF WriterInv, Placed
<1>9. EarlierBootGone'
  BY <1>1, <1>2, <1>3, GoneKept DEF WriterInv, terminals
<1> QED BY <1>4, <1>5, <1>6, <1>7, <1>8, <1>9 DEF WriterInv

LEMMA LaunchKeeps ==
  ASSUME WriterInv, NEW l \in Launchers,
         \/ Prepare(l) \/ Launch(l) \/ ProviderExit(l) \/ UpdateFails(l)
         \/ Crash(l)
  PROVE  WriterInv'
<1>0. /\ TypeOK /\ TypeOK' /\ LeasesMatchHistory /\ Placed(l)
      /\ Run(l) \in RunIds /\ {} \in SUBSET {Run(l)}
  BY LaunchType, RunType DEF WriterInv
<1>1. CASE Prepare(l) \/ Insert(l) \/ Spawn(l) \/ ProviderExit(l)
  BY <1>0, <1>1, PrepareKeeps, InsertKeeps, SpawnKeeps, ProviderExitKeeps
<1>2. CASE AlreadyStarted(l)
  <2>1. Ends({})
    BY <1>2, <1>0 DEF AlreadyStarted, Ends, LeasesMatchHistory, Leased
  <2> QED BY <1>0, <1>2, <2>1, LauncherStep DEF AlreadyStarted, Placed
<1>3. CASE Reject(l)
  BY <1>0, <1>3, NothingEnds, LauncherStep DEF Reject, Placed
<1>4. CASE Finalize(l)
  <2>1. /\ sess' = sess /\ provider' = provider /\ UNCHANGED <<terminals, reconciler>>
        /\ pc[l] = "started" /\ provider[l] = "gone" /\ Inserted(l)
    BY <1>4 DEF Finalize, Inserted
  <2>4. PICK p \in {"orphaning", "leaving"} : Goto(l, p)
    BY <1>0, <1>4, AppliedFacts DEF Finalize
  <2>2. CASE sess[l] = sessionId /\ EndRun(Run(l), "launcher", "closed", 0)
             /\ UNCHANGED <<sessionId, taskActive>>
    <3>1. agentHistory[Run(l)] # None
      BY <2>1, <2>2 DEF WriterInv, HistoryOwned
    <3>2. Ends({Run(l)})
      BY <3>1, <2>2, <1>0, EndRunEnds DEF Enders
    <3> QED BY <1>0, <2>1, <2>2, <2>4, <3>2, LauncherStep
  <2>3. CASE UNCHANGED <<sessionId, taskActive, runs, agentHistory>>
    <3>1. Ends({})
      BY <2>3, <1>0 DEF Ends, LeasesMatchHistory, Leased
    <3> QED BY <1>0, <2>1, <2>4, <3>1, LauncherStep
  <2> QED BY <1>4, <2>2, <2>3 DEF Finalize, state
<1>5. CASE UpdateFails(l)
  <2>1. PICK p \in {"orphaning", "leaving", "gone"} :
          /\ Goto(l, p) /\ provider[l] # "alive"
          /\ p = "orphaning" => provider[l] # "none"
    BY <1>0, <1>5 DEF UpdateFails, Placed, Running
  <2> QED BY <1>0, <1>5, <2>1, NothingEnds, LauncherStep DEF UpdateFails
<1>6. CASE OrphanFinalize(l)
  <2>1. Ends({})
    BY <1>0, <1>6, NothingEnds, MarkOrphanedEnds DEF OrphanFinalize
  <2>2. provider[l] # "alive"
    BY <1>0, <1>6 DEF OrphanFinalize, Placed, Running
  <2> QED BY <1>0, <1>6, <2>1, <2>2, LauncherStep DEF OrphanFinalize
<1>7. CASE Leave(l)
  <2>1. {r \in Leased : runs[r].by = l /\ runs[r].owner = 0} \in SUBSET RunIds
    BY DEF Leased
  <2>2. Ends({})
    BY <1>0, <1>7, <2>1, MarkOrphanedEnds DEF Leave
  <2>3. provider[l] # "alive"
    BY <1>0, <1>7 DEF Leave, Placed, Running
  <2> QED BY <1>0, <1>7, <2>2, <2>3, LauncherStep DEF Leave
<1>8. CASE Crash(l)
  <2>1. /\ Ends({}) /\ sess' = sess /\ UNCHANGED <<terminals, reconciler>>
        /\ Goto(l, "gone") /\ pc[l] \notin {"idle", "gone"}
    BY <1>0, <1>8, NothingEnds DEF Crash, LauncherAlive
  <2>2. CASE l \in Terminals /\ provider[l] = "alive"
    BY <1>0, <1>8, <2>1, <2>2, LauncherStep DEF Crash, TypeOK
  <2>3. CASE ~(l \in Terminals /\ provider[l] = "alive")
    <3>1. provider' = provider
      BY <1>0, <1>8, <2>3 DEF Crash, TypeOK
    <3> QED BY <1>0, <2>1, <2>3, <3>1, LauncherStep
  <2> QED BY <2>2, <2>3
<1> QED BY <1>1, <1>2, <1>3, <1>4, <1>5, <1>6, <1>7, <1>8 DEF Launch

\* What finalizeTerminalRun ends, its launcher has left.
LEMMA FinalizeTerminalEnds ==
  ASSUME WriterInv, NEW t \in Terminals, NEW who \in Enders, NEW seq \in Nat,
         FinalizeTerminalRun(t, who, seq), pc[t] = "gone", TypeOK', TreeGone',
         UNCHANGED launching, boot' = boot
  PROVE  WriterInv'
<1>0. TypeOK /\ LeasesMatchHistory /\ ~Running(t)
  BY DEF WriterInv, TreeGone
<1>1. CASE UNCHANGED state
  BY <1>0, <1>1, NothingEnds, OutsideStep
<1>2. CASE \E r \in Of(t) : EndRun(r, who, "closed", seq)
           /\ UNCHANGED <<sessionId, taskActive>>
  <2>1. PICK r \in RunIds : /\ agentHistory[r] # None /\ agentHistory[r].by = t
                            /\ EndRun(r, who, "closed", seq)
    BY <1>2 DEF Of
  <2>2. Ends({r})
    BY <1>0, <1>2, <2>1, EndRunEnds
  <2>3. \A q \in {r} : agentHistory[q] # None =>
          pc[agentHistory[q].by] = "gone" /\ ~Running(agentHistory[q].by)
    BY <1>0, <2>1
  <2> QED BY <2>1, <2>2, <2>3, OutsideStep
<1> QED BY <1>1, <1>2 DEF FinalizeTerminalRun

\* An observation changes neither whose lease it is nor whether it stands.
LEMMA ObserveEnds ==
  ASSUME TypeOK, LeasesMatchHistory, NEW t \in Terminals, Observe(t)
  PROVE  Ends({})
<1> DEFINE o == syncing[t]
<1>1. o \in Snapshot /\ o.status # "exited" /\ o.seq \in Nat
  BY DEF Observe, TypeOK, Snapshot
<1> HIDE DEF o
<1>2. ASSUME NEW lease \in Lease
      PROVE  /\ ObservedLease(lease, o) # None
             /\ ObservedLease(lease, o).by = lease.by
             /\ ObservedLease(lease, o).boot \in {lease.boot, boot}
             /\ ObservedLease(lease, o).seq \in {lease.seq, Bigger(lease.seq, o.seq)}
             /\ ObservedLease(lease, o).seq > lease.seq => o.seq >= lease.seq
  <2>1. ObservedLease(lease, o) # None
    BY <1>1, ObservedType, NoneAssumption
  <2>2. /\ ObservedLease(lease, o).by = lease.by
        /\ ObservedLease(lease, o).boot \in {lease.boot, boot}
    BY DEF ObservedLease, Lease
  <2>3. \/ ObservedLease(lease, o).seq = lease.seq
        \/ ObservedLease(lease, o).seq = o.seq /\ o.seq >= lease.seq
    BY <1>1 DEF ObservedLease, Lease
  <2> QED BY <2>1, <2>2, <2>3, <1>1 DEF Lease, Bigger
<1>3. ASSUME NEW run \in History
      PROVE  /\ ObservedRun(run, o) # None
             /\ ObservedRun(run, o).by = run.by
             /\ ObservedRun(run, o).endedBy = run.endedBy
             /\ ObservedRun(run, o).seq >= run.seq
             /\ run.endedBy = None => ObservedRun(run, o).seq >= o.seq
  <2>1. ObservedRun(run, o) # None
    BY <1>1, ObservedType, NoneAssumption
  <2>2. /\ ObservedRun(run, o).by = run.by
        /\ ObservedRun(run, o).endedBy = run.endedBy
    BY DEF ObservedRun, History
  <2>3. /\ ObservedRun(run, o).seq >= run.seq
        /\ run.endedBy = None => ObservedRun(run, o).seq >= o.seq
    BY <1>1 DEF ObservedRun, History
  <2> QED BY <2>1, <2>2, <2>3
<1>4. UNCHANGED <<sessionId, taskActive>>
  BY DEF Observe
<1>5. ASSUME NEW r \in RunIds
      PROVE  /\ r \in Of(t) =>
                  /\ agentHistory[r] # None
                  /\ agentHistory'[r] = ObservedRun(agentHistory[r], o)
             /\ r \notin Of(t) => agentHistory'[r] = agentHistory[r]
             /\ r \in Of(t) \cap Leased => runs'[r] = ObservedLease(runs[r], o)
             /\ r \notin Of(t) \cap Leased => runs'[r] = runs[r]
  <2>1. r \in Of(t) => agentHistory[r] # None
    BY DEF Of
  <2>2. runs'[r] = IF r \in Of(t) \cap Leased THEN ObservedLease(runs[r], o) ELSE runs[r]
    BY DEF Observe, o
  <2>3. agentHistory'[r] = IF r \in Of(t) THEN ObservedRun(agentHistory[r], o)
                           ELSE agentHistory[r]
    BY DEF Observe, o
  <2> QED BY <2>1, <2>2, <2>3
<1>6. ASSUME NEW r \in RunIds, runs[r] # None
      PROVE  /\ runs[r] \in Lease /\ r \in Leased
             /\ runs[r].seq <= agentHistory[r].seq
             /\ agentHistory[r] \in History /\ agentHistory[r].endedBy = None
  BY <1>6 DEF TypeOK, LeasesMatchHistory, Leased, Ended
<1>7. ASSUME NEW r \in RunIds
      PROVE  runs'[r] # None <=> runs[r] # None
  BY <1>2, <1>5, <1>6 DEF Leased
<1>8. ASSUME NEW r \in RunIds, runs[r] # None
      PROVE  /\ runs'[r].by = runs[r].by /\ runs'[r].seq <= agentHistory'[r].seq
             /\ runs'[r].boot \in {runs[r].boot, boot}
  <2>1. CASE r \in Of(t)
    <3>1. /\ runs'[r] = ObservedLease(runs[r], o)
          /\ agentHistory'[r] = ObservedRun(agentHistory[r], o)
      BY <1>5, <1>6, <1>8, <2>1
    <3>2. runs'[r].by = runs[r].by /\ runs'[r].boot \in {runs[r].boot, boot}
      BY <3>1, <1>2, <1>6, <1>8
    <3>3. ObservedRun(agentHistory[r], o).seq \in Nat
      BY <1>1, <1>6, <1>8, ObservedType DEF History
    <3> QED BY <3>1, <3>2, <3>3, <1>1, <1>2, <1>3, <1>6, <1>8 DEF Lease, History, Bigger
  <2>2. CASE r \notin Of(t)
    BY <2>2, <1>5, <1>6, <1>8
  <2> QED BY <2>1, <2>2
<1>9. ASSUME NEW r \in RunIds
      PROVE  /\ agentHistory'[r] # None <=> agentHistory[r] # None
             /\ agentHistory[r] # None =>
                  /\ agentHistory'[r].by = agentHistory[r].by
                  /\ agentHistory'[r].endedBy = agentHistory[r].endedBy
  <2>1. agentHistory[r] # None => agentHistory[r] \in History
    BY DEF TypeOK
  <2>2. CASE r \notin Of(t)
    BY <2>2, <1>5
  <2>3. CASE r \in Of(t)
    BY <2>1, <2>3, <1>3, <1>5
  <2> QED BY <2>2, <2>3
<1> QED BY <1>4, <1>7, <1>8, <1>9 DEF Ends

LEMMA DaemonKeeps ==
  ASSUME WriterInv,
         \/ DaemonCrash \/ Reboot
         \/ \E t \in Terminals :
              \/ Transition(t) \/ TerminalExit(t) \/ Sync(t) \/ SyncFails(t)
              \/ Observe(t) \/ ObserveExit(t) \/ Register(t)
  PROVE  WriterInv'
<1>0. TypeOK /\ TypeOK' /\ LeasesMatchHistory /\ TreeGone
  BY DaemonType DEF WriterInv
<1>1. CASE DaemonCrash
  <2>1. TreeGone'
    BY <1>0, <1>1 DEF DaemonCrash, TreeGone, launching, Running
  <2> QED BY <1>0, <1>1, <2>1, NothingEnds, OutsideStep DEF DaemonCrash
<1>2. ASSUME NEW t \in Terminals, Transition(t) \/ TerminalExit(t) \/ Sync(t) \/ SyncFails(t)
      PROVE  WriterInv'
  <2>1. UNCHANGED <<state, launching, boot, reconciler>>
    BY <1>2 DEF Transition, TerminalExit, Sync, SyncFails
  <2>2. ASSUME NEW u \in Terminals
        PROVE  /\ term'[u] = "exited" => pc[u] = "gone"
               /\ syncing'[u] # None /\ syncing'[u].status = "exited" => pc[u] = "gone"
    <3>1. CASE Transition(t)
      BY <1>0, <3>1 DEF Transition, SetTerm, TypeOK, TreeGone
    <3>2. CASE TerminalExit(t)
      BY <1>0, <3>2 DEF TerminalExit, SetTerm, TypeOK, TreeGone
    <3>3. CASE Sync(t)
      <4>1. term'[u] = "exited" => pc[u] = "gone"
        BY <1>0, <3>3 DEF Sync, TreeGone
      <4>2. CASE u = t
        <5>1. syncing'[u].status = term[t]
          BY <1>0, <3>3, <4>2 DEF Sync, TypeOK
        <5> QED BY <1>0, <4>1, <4>2, <5>1 DEF TreeGone
      <4>3. CASE u # t
        BY <1>0, <3>3, <4>1, <4>3 DEF Sync, TypeOK, TreeGone
      <4> QED BY <4>2, <4>3
    <3>4. CASE SyncFails(t)
      BY <1>0, <3>4 DEF SyncFails, TypeOK, TreeGone
    <3> QED BY <1>2, <3>1, <3>2, <3>3, <3>4
  <2>3. TreeGone'
    BY <1>0, <2>1, <2>2 DEF TreeGone, launching, Running
  <2> QED BY <1>0, <2>1, <2>3, NothingEnds, OutsideStep
<1>3. ASSUME NEW t \in Terminals, Observe(t) PROVE WriterInv'
  <2>1. TreeGone'
    BY <1>0, <1>3 DEF Observe, TreeGone, launching, Running, TypeOK
  <2>2. UNCHANGED <<launching, boot>>
    BY <1>3 DEF Observe
  <2> QED BY <1>0, <1>3, <2>1, <2>2, ObserveEnds, OutsideStep
<1>4. ASSUME NEW t \in Terminals, ObserveExit(t) PROVE WriterInv'
  <2>1. pc[t] = "gone" /\ UNCHANGED <<launching, boot>>
    BY <1>0, <1>4 DEF ObserveExit, TreeGone
  <2>2. syncing[t].seq \in Nat /\ "daemon" \in Enders
    BY <1>0, <1>4, NoneAssumption DEF ObserveExit, TypeOK, Snapshot, Enders
  <2>3. TreeGone'
    BY <1>0, <1>4 DEF ObserveExit, TreeGone, launching, Running, TypeOK
  <2> QED BY <1>0, <1>4, <2>1, <2>2, <2>3, FinalizeTerminalEnds DEF ObserveExit
<1>5. ASSUME NEW t \in Terminals, Register(t) PROVE WriterInv'
  <2>1. PICK r \in Leased : runs' = [runs EXCEPT ![r].bridge = TRUE]
    BY <1>5 DEF Register
  <2>2. /\ UNCHANGED <<sessionId, taskActive, agentHistory, launching>>
        /\ UNCHANGED <<terminals, reconciler>>
    BY <1>5 DEF Register
  <2>3. /\ r \in RunIds /\ runs[r] \in Lease /\ runs[r] # None
        /\ runs'[r] = [runs[r] EXCEPT !.bridge = TRUE]
        /\ \A q \in RunIds \ {r} : runs'[q] = runs[q]
    BY <1>0, <2>1 DEF Leased, TypeOK
  <2>4. /\ runs'[r] # None /\ runs'[r].by = runs[r].by /\ runs'[r].seq = runs[r].seq
        /\ runs'[r].boot = runs[r].boot
    <3>1. [runs[r] EXCEPT !.bridge = TRUE] \in Lease
      BY <2>3 DEF Lease
    <3> QED BY <2>3, <3>1, NoneAssumption DEF Lease
  <2>5. Ends({})
    BY <1>0, <2>2, <2>3, <2>4 DEF Ends, LeasesMatchHistory, Leased
  <2>6. TreeGone'
    BY <1>0, <2>2 DEF TreeGone, launching, terminals, Running
  <2> QED BY <1>0, <2>2, <2>5, <2>6, OutsideStep DEF terminals
<1>6. CASE Reboot
  <2>1. /\ UNCHANGED <<state, sess>>
        /\ \A l \in Launchers :
             /\ pc'[l] = IF pc[l] \notin {"idle", "gone"} THEN "gone" ELSE pc[l]
             /\ provider'[l] = IF provider[l] = "alive" THEN "gone" ELSE provider[l]
    BY <1>6 DEF Reboot, LauncherAlive
  <2>2. \A l \in Launchers :
          /\ ~Running(l)' /\ Run(l)' = Run(l)
          /\ provider'[l] # "none" <=> provider[l] # "none"
          /\ pc'[l] \in {"idle", "gone"} /\ (pc'[l] = "idle" => pc[l] = "idle")
    BY <1>0, <2>1 DEF Running, Run, TypeOK
  <2>3. Ends({})
    BY <1>0, <2>1, NothingEnds
  <2>4. LeasesMatchHistory'
    BY <1>0, <2>1, <2>3, EndsKeeps
  <2>5. HistoryOwned'
    BY <1>0, <2>1, <2>2, <2>3, OwnedKept DEF WriterInv, Inserted
  <2>6. SpawnedOnce'
    BY <2>2 DEF WriterInv, SpawnedOnce
  <2>7. TreeGone'
    <3>1. \A t \in Terminals : term'[t] # "exited" /\ syncing'[t] = None
      BY <1>6 DEF Reboot
    <3>2. reconciler'.candidates = {}
      BY <1>6 DEF Reboot, IdleReconciler
    <3> QED BY <2>2, <3>1, <3>2, RunsAssumption DEF TreeGone
  <2>8. EarlierBootGone'
    <3>1. ASSUME NEW r \in Leased PROVE pc'[runs[r].by] = "gone"
      <4>1. /\ r \in RunIds /\ agentHistory[r] # None /\ runs[r].by = agentHistory[r].by
            /\ runs[r].by \in Launchers
        BY SMTT(60), <1>0 DEF TypeOK, Leased, LeasesMatchHistory, Lease
      <4> QED BY <2>2, <4>1 DEF WriterInv, HistoryOwned
    <3> QED BY <2>1, <3>1 DEF EarlierBootGone, Leased, state
  <2>9. ASSUME NEW l \in Launchers PROVE Placed(l)'
    BY <2>2, <2>1 DEF WriterInv, Placed
  <2> QED BY <1>0, <2>4, <2>5, <2>6, <2>7, <2>8, <2>9 DEF WriterInv
<1> QED BY <1>1, <1>2, <1>3, <1>4, <1>5, <1>6

\* A reconciliation adopts or orphans, and what it will finalize is gone.
LEMMA ReconcileKeeps ==
  ASSUME WriterInv, TypeOK', ~ClockSkew, Reconcile
  PROVE  WriterInv'
<1>0. TypeOK /\ LeasesMatchHistory /\ TreeGone
  BY DEF WriterInv
<1>1. ASSUME NEW r \in RunIds, runs[r] # None
      PROVE  /\ r \in Leased /\ runs[r] \in Lease /\ agentHistory[r] \in History
             /\ agentHistory[r].by = runs[r].by /\ agentHistory[r].endedBy = None
             /\ runs[r].seq <= agentHistory[r].seq
  BY SMTT(60), <1>0, <1>1 DEF TypeOK, LeasesMatchHistory, Leased, Ended
<1>2. UNCHANGED <<sessionId, taskActive, launching, terminals>>
  BY DEF Reconcile
<1>3. Ends({})
  <2>1. ASSUME NEW r \in RunIds, runs[r] = None
        PROVE  runs'[r] = runs[r] /\ agentHistory'[r] = agentHistory[r]
    BY <2>1 DEF Reconcile, Leased
  <2>2. ASSUME NEW r \in RunIds, runs[r] # None
        PROVE  /\ \/ runs'[r] = runs[r]
                  \/ runs'[r] = [runs[r] EXCEPT !.owner = reconciler.daemon,
                                               !.boot = boot]
                  \/ runs'[r] = OrphanedLease(runs[r])
               /\ \/ agentHistory'[r] = agentHistory[r]
                  \/ agentHistory'[r] = OrphanedRun(agentHistory[r], runs[r])
    BY DEF Reconcile
  <2>3. ASSUME NEW r \in RunIds, runs[r] # None
        PROVE  /\ runs'[r] # None /\ runs'[r].by = runs[r].by
               /\ runs'[r].seq = runs[r].seq
               /\ runs'[r].boot \in {runs[r].boot, boot}
    <3>1. /\ runs'[r].by = runs[r].by /\ runs'[r].seq = runs[r].seq
          /\ runs'[r].boot \in {runs[r].boot, boot}
      BY <2>2, <2>3, <1>1 DEF OrphanedLease, Lease
    <3>2. runs'[r] # None
      <4>1. OrphanedLease(runs[r]) \in Lease
        BY <2>3, <1>1 DEF OrphanedLease, Lease, LeaseStatuses
      <4>2. reconciler.daemon \in 0..MaxDaemon /\ boot \in 1..MaxBoots
        BY SMTT(60), <1>0, RunsAssumption DEF TypeOK, Reconcilers
      <4>3. [runs[r] EXCEPT !.owner = reconciler.daemon, !.boot = boot] \in Lease
        BY <2>3, <4>2, <1>1 DEF Lease
      <4> QED BY <2>2, <2>3, <4>1, <4>3, NoneAssumption
    <3> QED BY <3>1, <3>2
  <2>4. ASSUME NEW run \in History, NEW lease \in Lease, run.endedBy = None
        PROVE  /\ OrphanedRun(run, lease) # None
               /\ OrphanedRun(run, lease).by = run.by
               /\ OrphanedRun(run, lease).endedBy = None
               /\ OrphanedRun(run, lease).seq >= lease.seq
    <3>1. OrphanedRun(run, lease) \in History
      BY DEF OrphanedRun, Lease, History, LeaseStatuses, Bigger
    <3>2. Bigger(run.seq, lease.seq) >= lease.seq
      BY DEF Bigger, Lease, History
    <3>3. OrphanedRun(run, lease) =
            [run EXCEPT !.life = "orphaned", !.seq = Bigger(run.seq, lease.seq)]
      BY <2>4 DEF OrphanedRun
    <3> QED BY <2>4, <3>1, <3>2, <3>3, NoneAssumption DEF History
  <2>5. ASSUME NEW r \in RunIds, runs[r] # None
        PROVE  /\ agentHistory[r] # None /\ agentHistory'[r] # None
               /\ agentHistory'[r].by = agentHistory[r].by
               /\ agentHistory'[r].endedBy = None /\ agentHistory[r].endedBy = None
               /\ runs[r].seq <= agentHistory'[r].seq
    BY ZenonT(60), <2>2, <2>4, <2>5, <1>1, NoneAssumption
  <2> QED BY <1>2, <2>1, <2>3, <2>5 DEF Ends
<1>4. TreeGone'
  <2>1. ASSUME NEW c \in reconciler'.candidates PROVE pc[c.terminal] = "gone"
    <3>1. PICK r \in Leased : TerminalGone(runs[r]) /\ c.terminal = runs[r].by
      <4> DEFINE gone == {r \in Leased : /\ runs[r].by \in Terminals
                                         /\ runs[r].by \notin reconciler.inventory
                                         /\ TerminalGone(runs[r])}
      <4>1. reconciler'.candidates =
              {[terminal |-> runs[r].by, seq |-> runs[r].seq] : r \in gone}
        BY DEF Reconcile, IdleReconciler
      <4>2. PICK r \in gone : c = [terminal |-> runs[r].by, seq |-> runs[r].seq]
        BY <2>1, <4>1
      <4> QED BY <4>2
    <3>2. pc[c.terminal] \in {"idle", "gone"}
      BY <3>1 DEF TerminalGone, DifferentBoot, LauncherAlive, WriterInv, EarlierBootGone
    <3>3. pc[c.terminal] # "idle"
      BY <3>1, <1>1 DEF Leased, WriterInv, HistoryOwned, LeasesMatchHistory
    <3> QED BY <3>2, <3>3
  <2> QED BY <1>0, <1>2, <2>1 DEF TreeGone, launching, terminals, Running
<1> QED BY <1>2, <1>3, <1>4, OutsideStep DEF terminals

LEMMA ReconcilerKeeps ==
  ASSUME WriterInv, ~ClockSkew,
         FetchInventory \/ Reconcile \/ ReconcileFinalize \/ ReconcileLocally
  PROVE  WriterInv'
<1>0. TypeOK /\ TypeOK' /\ LeasesMatchHistory /\ TreeGone
  BY ReconcilerType DEF WriterInv
<1>1. CASE FetchInventory
  <2>1. reconciler'.candidates = {}
    BY <1>1 DEF FetchInventory, IdleReconciler
  <2>2. TreeGone'
    BY <1>0, <1>1, <2>1 DEF FetchInventory, TreeGone, launching, terminals, Running
  <2> QED BY <1>0, <1>1, <2>2, NothingEnds, OutsideStep DEF FetchInventory, terminals
<1>2. CASE Reconcile
  BY <1>0, <1>2, ReconcileKeeps
<1>3. CASE ReconcileFinalize
  <2>1. PICK c \in reconciler.candidates :
          /\ \/ /\ FinalizeTerminalRun(c.terminal, "reconcile", c.seq)
                /\ reconciler' = [reconciler EXCEPT !.candidates = @ \ {c}]
             \/ UNCHANGED state /\ reconciler' = IdleReconciler
          /\ UNCHANGED <<launching, terminals, finisher, bounds>>
    BY <1>3 DEF ReconcileFinalize
  <2>2. /\ c.terminal \in Terminals /\ c.seq \in Nat /\ "reconcile" \in Enders
        /\ pc[c.terminal] = "gone"
    BY <1>0 DEF TypeOK, Enders, Reconcilers, Candidate, TreeGone
  <2>3. reconciler'.candidates \subseteq reconciler.candidates
    BY SMTT(60), <1>0, <2>1 DEF IdleReconciler, TypeOK, Reconcilers
  <2>4. TreeGone'
    BY <1>0, <2>1, <2>3 DEF TreeGone, launching, terminals, Running
  <2> QED BY <1>0, <2>1, <2>2, <2>4, FinalizeTerminalEnds, NothingEnds, OutsideStep
          DEF terminals
<1>4. CASE ReconcileLocally
  <2>1. TreeGone' /\ UNCHANGED <<sessionId, taskActive, launching, boot>>
    BY <1>0, <1>4 DEF ReconcileLocally, TreeGone, launching, terminals, Running
  <2>2. Ends({})
    <3>1. PICK R \in SUBSET RunIds : MarkOrphaned(R)
      BY <1>4 DEF ReconcileLocally, Leased
    <3> QED BY <1>0, <2>1, <3>1, MarkOrphanedEnds
  <2> QED BY <1>0, <2>1, <2>2, OutsideStep
<1> QED BY <1>1, <1>2, <1>3, <1>4

\* A recovery ends a run whose launcher and provider are gone, for a user who
\* makes sure; finish and the next task meet no lease, hence no writer.
LEMMA UserKeeps ==
  ASSUME CarefulUser, WriterInv,
         \/ \E r \in RunIds : RecoverOrphanedRun(r)
         \/ \E f \in Finishers : BeginFinish(f) \/ Finish(f)
         \/ StartTask
  PROVE  WriterInv'
<1>0. TypeOK /\ TypeOK' /\ LeasesMatchHistory /\ TreeGone
  BY UserType DEF WriterInv
<1>1. ASSUME NEW r \in RunIds, RecoverOrphanedRun(r) PROVE WriterInv'
  <2>1. /\ agentHistory[r] # None /\ agentHistory[r] \in History
        /\ agentHistory[r].by = runs[r].by
    BY <1>0, <1>1 DEF RecoverOrphanedRun, LeasesMatchHistory, TypeOK
  <2>2. agentHistory[r].life \in LeaseStatuses \cup {"closed"} /\ "recover" \in Enders
    BY <2>1 DEF History, Enders
  <2>3. Ends({r})
    <3>1. EndRun(r, "recover", agentHistory[r].life, 0) /\ UNCHANGED <<sessionId, taskActive>>
      BY <1>1 DEF RecoverOrphanedRun
    <3> QED BY <1>0, <2>1, <2>2, <3>1, EndRunEnds
  <2>4. pc[runs[r].by] = "gone" /\ ~Running(runs[r].by)
    BY <1>1 DEF RecoverOrphanedRun, Confirmed, Running
  <2>5. TreeGone' /\ UNCHANGED <<launching, boot>>
    BY <1>0, <1>1 DEF RecoverOrphanedRun, TreeGone, launching, terminals, Running
  <2> QED BY <1>0, <2>1, <2>3, <2>4, <2>5, OutsideStep
<1>2. ASSUME NEW f \in Finishers, BeginFinish(f) PROVE WriterInv'
  <2>1. TreeGone' /\ UNCHANGED <<state, launching, boot>>
    BY <1>0, <1>2 DEF BeginFinish, TreeGone, launching, terminals, Running
  <2> QED BY <1>0, <2>1, NothingEnds, OutsideStep
<1>3. ASSUME NEW f \in Finishers, Finish(f) PROVE WriterInv'
  <2>1. TreeGone' /\ UNCHANGED <<sessionId, recentOperations, runs, agentHistory,
                                 launching, boot>>
    BY <1>0, <1>3 DEF Finish, TreeGone, launching, terminals, Running
  <2>2. CASE Leased # {}
    <3>1. UNCHANGED state
      BY <1>0, <1>3, <2>1, <2>2 DEF Finish, TypeOK, state
    <3> QED BY <1>0, <2>1, <3>1, NothingEnds, OutsideStep
  <2>3. CASE Leased = {}
    <3>1. LeasesMatchHistory' /\ HistoryOwned' /\ SpawnedOnce'
      BY <2>1, <2>3 DEF WriterInv, LeasesMatchHistory, Leased, Ended, HistoryOwned,
                        Inserted, Run, SpawnedOnce, launching
    <3>2. \A l \in Launchers : ~Claims(l)
      BY <1>0, <2>3, RunType DEF Claims, Leased
    <3>3. \A l \in Launchers : Placed(l)'
      BY <2>1, <3>2 DEF WriterInv, Placed, Running, launching
    <3>4. EarlierBootGone'
      BY <2>1 DEF WriterInv, EarlierBootGone, Leased, launching
    <3> QED BY <1>0, <2>1, <3>1, <3>3, <3>4 DEF WriterInv
  <2> QED BY <2>2, <2>3
<1>4. CASE StartTask
  <2>1. /\ Leased = {} /\ sessionId' = sessionId + 1 /\ runs' = runs
        /\ \A r \in RunIds : agentHistory'[r] = None
        /\ UNCHANGED <<launching, terminals, reconciler>>
    BY <1>4 DEF StartTask
  <2>2. \A l \in Launchers : ~Claims(l)
    BY <1>0, <2>1, RunType DEF Claims, Leased
  <2>3. LeasesMatchHistory'
    BY <2>1 DEF LeasesMatchHistory, Leased
  <2>4. HistoryOwned'
    <3>1. \A l \in Launchers : sess'[l] <= sessionId /\ sess'[l] # sessionId'
      BY <1>0, <2>1 DEF WriterInv, HistoryOwned, launching, TypeOK
    <3>2. \A l \in Launchers : sess'[l] <= sessionId'
      BY SMTT(60), <1>0, <2>1, <3>1 DEF TypeOK, launching
    <3> QED BY <2>1, <3>1, <3>2 DEF HistoryOwned
  <2>5. TreeGone' /\ SpawnedOnce'
    BY <2>1 DEF WriterInv, TreeGone, SpawnedOnce, Run, launching, terminals, Running
  <2>6. \A l \in Launchers : Placed(l)'
    BY <2>1, <2>2 DEF WriterInv, Placed, Running, launching
  <2>7. EarlierBootGone'
    BY <2>1 DEF WriterInv, EarlierBootGone, Leased, launching, terminals
  <2> QED BY <1>0, <2>3, <2>4, <2>5, <2>6, <2>7 DEF WriterInv
<1> QED BY <1>1, <1>2, <1>3, <1>4

-----------------------------------------------------------------------------
(* The theorems                                                            *)

LEMMA InitInv == Init => WriterInv
<1> SUFFICES ASSUME Init PROVE WriterInv
  OBVIOUS
<1>1. TypeOK
  BY InitType
<1>2. LeasesMatchHistory
  BY DEF Init, LeasesMatchHistory, Leased
<1>3. HistoryOwned
  BY DEF Init, HistoryOwned, Inserted
<1>5. EarlierBootGone
  BY DEF Init, EarlierBootGone, Leased
<1>4. TreeGone /\ SpawnedOnce /\ \A l \in Launchers : Placed(l)
  BY RunsAssumption DEF Init, TreeGone, SpawnedOnce, Placed, Running, IdleReconciler
<1> QED BY <1>1, <1>2, <1>3, <1>4, <1>5 DEF WriterInv

LEMMA StutterKeeps == WriterInv /\ UNCHANGED vars => WriterInv'
<1> SUFFICES ASSUME WriterInv, UNCHANGED vars PROVE WriterInv'
  OBVIOUS
<1>1. TypeOK'
  BY DEF WriterInv, TypeOK, vars, state, launching, terminals, bounds
<1>2. TreeGone'
  BY DEF WriterInv, TreeGone, Running, vars, launching, terminals
<1>3. Ends({}) /\ UNCHANGED <<launching, boot>>
  BY NothingEnds DEF WriterInv, vars, terminals
<1> QED BY <1>1, <1>2, <1>3, OutsideStep

\* The user makes sure before forcing a recovery, and the processes of a boot
\* compute one id for it.
Trusted == CarefulUser /\ ~ClockSkew

LEMMA StepInv == Trusted /\ WriterInv /\ [Next]_vars => WriterInv'
BY LaunchKeeps, DaemonKeeps, ReconcilerKeeps, UserKeeps, StutterKeeps
DEF Next, Trusted

\* The leases match the history, and every provider holds its claim, in every
\* state that launches, crashes, finalizations, reconciliations and recoveries
\* reach: the inductive invariant.
THEOREM WriterInvariant == Trusted => (Spec => []WriterInv)
<1>1. CASE Trusted
  BY <1>1, InitInv, StepInv, PTL DEF Spec
<1>2. CASE ~Trusted
  BY <1>2
<1> QED BY <1>1, <1>2

LEMMA InvWriters == WriterInv => OneWriter /\ WriterHoldsLease
<1> SUFFICES ASSUME WriterInv PROVE OneWriter /\ WriterHoldsLease
  OBVIOUS
<1>1. WriterHoldsLease
  BY DEF WriterInv, WriterHoldsLease, Placed, Claims
<1>2. ASSUME NEW k \in Launchers, NEW l \in Launchers, Running(k), Running(l),
             WorktreeOf[k] = WorktreeOf[l]
      PROVE  k = l
  <2>1. /\ Run(k) \in Leased /\ runs[Run(k)].by = k
        /\ Run(l) \in Leased /\ runs[Run(l)].by = l
    BY <1>1, <1>2, RunType DEF WriterInv, WriterHoldsLease, Leased
  <2> QED BY <1>2, <2>1 DEF WriterInv, LeasesMatchHistory
<1> QED BY <1>1, <1>2 DEF OneWriter

\* At most one provider process writes to a worktree, whatever the number of
\* launchers, terminals, sessions, crashes and failed updates.
THEOREM OneWriterHolds == Trusted => (Spec => []OneWriter)
  BY WriterInvariant, InvWriters, PTL

\* While a provider runs, its lease stands and its task is open and current.
THEOREM WriterHoldsLeaseHolds == Trusted => (Spec => []WriterHoldsLease)
  BY WriterInvariant, InvWriters, PTL

\* No launch operation of a session spawns two providers, however small the
\* ledger.
THEOREM SpawnedOnceHolds == Trusted => (Spec => []SpawnedOnce)
<1>1. WriterInv => SpawnedOnce
  BY DEF WriterInv
<1> QED BY <1>1, WriterInvariant, PTL

\* The leases are those of the runs that have not ended, one for a worktree.
THEOREM LeasesMatchHistoryHolds == Trusted => (Spec => []LeasesMatchHistory)
<1>1. WriterInv => LeasesMatchHistory
  BY DEF WriterInv
<1> QED BY <1>1, WriterInvariant, PTL

-----------------------------------------------------------------------------
(* What one step may do to a run's history and to its lease: a run ends    *)
(* once, its sequence number does not fall, and no lease comes back.  Each *)
(* mutation of the state is looked at by itself; that a run with a lease   *)
(* has not ended, and that a run without history has no lease, is part of  *)
(* the inductive invariant above.                                          *)

\* What EndsOnce and NoRevival say of one step.
HistoryStep ==
  \A r \in RunIds :
    agentHistory[r] # None /\ sessionId' = sessionId =>
      /\ agentHistory'[r] # None
      /\ Ended(r) => agentHistory'[r].endedBy = agentHistory[r].endedBy
      /\ agentHistory'[r].seq >= agentHistory[r].seq

LeaseStep ==
  \A r \in RunIds :
    /\ runs[r] # None /\ runs'[r] # None =>
         /\ runs[r].status \in {"stopping", "orphaned"} =>
              runs'[r].status \in {"stopping", "orphaned"}
         /\ runs'[r].seq >= runs[r].seq
    /\ runs[r] = None /\ runs'[r] # None => agentHistory[r] = None

LEMMA Numbers ==
  ASSUME TypeOK, NEW r \in RunIds
  PROVE  /\ runs[r] # None => runs[r] \in Lease /\ runs[r].seq \in Nat
         /\ agentHistory[r] # None => agentHistory[r] \in History /\ agentHistory[r].seq \in Nat
<1>1. runs[r] \in Lease \cup {None} /\ agentHistory[r] \in History \cup {None}
  BY DEF TypeOK
<1> QED  BY <1>1 DEF Lease, History

LEMMA NoChange ==
  ASSUME TypeOK, UNCHANGED <<runs, agentHistory>>
  PROVE  HistoryStep /\ LeaseStep
<1>1. HistoryStep
  <2> SUFFICES ASSUME NEW r \in RunIds, agentHistory[r] # None
               PROVE  agentHistory[r].seq >= agentHistory[r].seq
    BY DEF HistoryStep
  <2>1. agentHistory[r].seq \in Nat  BY Numbers
  <2> QED  BY <2>1
<1>2. LeaseStep
  <2> SUFFICES ASSUME NEW r \in RunIds, runs[r] # None
               PROVE  runs[r].seq >= runs[r].seq
    BY DEF LeaseStep
  <2>1. runs[r].seq \in Nat  BY Numbers
  <2> QED  BY <2>1
<1> QED  BY <1>1, <1>2

LEMMA OrphanedRunStep ==
  ASSUME NEW run \in History, NEW lease \in Lease
  PROVE  LET next == OrphanedRun(run, lease) IN
         /\ next \in History
         /\ run.endedBy # None => next.endedBy = run.endedBy
         /\ next.seq >= run.seq
<1>1. run.seq \in Nat /\ lease.seq \in Nat  BY DEF History, Lease
<1>2. CASE run.endedBy # None
  BY <1>1, <1>2 DEF OrphanedRun
<1>3. CASE run.endedBy = None
  <2>1. OrphanedRun(run, lease) =
          [run EXCEPT !.life = "orphaned", !.seq = Bigger(run.seq, lease.seq)]
    BY <1>3 DEF OrphanedRun
  <2>2. Bigger(run.seq, lease.seq) \in Nat /\ Bigger(run.seq, lease.seq) >= run.seq
    BY <1>1 DEF Bigger
  <2> DEFINE bigger == Bigger(run.seq, lease.seq)
             next == OrphanedRun(run, lease)
  <2> HIDE DEF bigger
  <2>3. next = [run EXCEPT !.life = "orphaned", !.seq = bigger]
    BY <2>1 DEF bigger
  <2>4. bigger \in Nat /\ bigger >= run.seq
    BY <2>2 DEF bigger
  <2> HIDE DEF next
  <2>5. next \in History /\ next.seq = bigger
    BY <2>3, <2>4 DEF History, LeaseStatuses
  <2> QED  BY <1>3, <2>4, <2>5 DEF next
<1> QED  BY <1>2, <1>3

LEMMA OrphanedLeaseStep ==
  ASSUME NEW lease \in Lease
  PROVE  LET next == OrphanedLease(lease) IN
         next \in Lease /\ next.status = "orphaned" /\ next.seq = lease.seq
BY DEF OrphanedLease, Lease, LeaseStatuses

LEMMA EndedRunStep ==
  ASSUME NEW run \in History, NEW who \in Enders,
         NEW life \in LeaseStatuses \cup {"closed"}, NEW seq \in Nat
  PROVE  LET next == EndedRun(run, who, life, seq) IN
         /\ next \in History
         /\ run.endedBy # None => next.endedBy = run.endedBy
         /\ next.seq >= run.seq
<1>1. run.seq \in Nat  BY DEF History
<1>2. CASE run.endedBy # None
  BY <1>1, <1>2 DEF EndedRun
<1>3. CASE run.endedBy = None
  <2>1. EndedRun(run, who, life, seq) =
          [run EXCEPT !.endedBy = who, !.life = life, !.seq = Bigger(run.seq, seq)]
    BY <1>3 DEF EndedRun
  <2>2. Bigger(run.seq, seq) \in Nat /\ Bigger(run.seq, seq) >= run.seq
    BY <1>1 DEF Bigger
  <2> DEFINE bigger == Bigger(run.seq, seq)
             next == EndedRun(run, who, life, seq)
  <2> HIDE DEF bigger
  <2>3. next = [run EXCEPT !.endedBy = who, !.life = life, !.seq = bigger]
    BY <2>1 DEF bigger
  <2>4. bigger \in Nat /\ bigger >= run.seq
    BY <2>2 DEF bigger
  <2> HIDE DEF next
  <2>5. next \in History /\ next.seq = bigger
    BY <2>3, <2>4 DEF History
  <2> QED  BY <1>3, <2>4, <2>5 DEF next
<1> QED  BY <1>2, <1>3

LEMMA MarkOrphanedStep ==
  ASSUME TypeOK, LeasesMatchHistory, NEW R \in SUBSET RunIds, MarkOrphaned(R)
  PROVE  HistoryStep /\ LeaseStep
<1>1. HistoryStep
  <2> SUFFICES ASSUME NEW r \in RunIds, agentHistory[r] # None
               PROVE  /\ agentHistory'[r] # None
                      /\ Ended(r) => agentHistory'[r].endedBy = agentHistory[r].endedBy
                      /\ agentHistory'[r].seq >= agentHistory[r].seq
    BY DEF HistoryStep
  <2>0. agentHistory[r] \in History /\ agentHistory[r].seq \in Nat
    BY Numbers
  <2>1. CASE r \in R \cap Leased
    <3>1. agentHistory'[r] = OrphanedRun(agentHistory[r], runs[r])
      BY <2>1 DEF MarkOrphaned
    <3>2. runs[r] \in Lease
      BY <2>1, Numbers DEF Leased
    <3> QED  BY <2>0, <3>1, <3>2, OrphanedRunStep, NoneAssumption DEF Ended
  <2>2. CASE r \notin R \cap Leased
    BY <2>0, <2>2 DEF MarkOrphaned
  <2> QED  BY <2>1, <2>2
<1>2. LeaseStep
  <2> SUFFICES ASSUME NEW r \in RunIds
               PROVE  /\ runs[r] # None /\ runs'[r] # None =>
                           /\ runs[r].status \in {"stopping", "orphaned"} =>
                                runs'[r].status \in {"stopping", "orphaned"}
                           /\ runs'[r].seq >= runs[r].seq
                      /\ runs[r] = None => runs'[r] = None
    BY DEF LeaseStep
  <2>1. CASE r \in R \cap Leased
    <3>1. runs'[r] = OrphanedLease(runs[r]) /\ runs[r] # None
      BY <2>1 DEF MarkOrphaned, Leased
    <3>2. runs[r] \in Lease /\ runs[r].seq \in Nat
      BY <3>1, Numbers
    <3> QED  BY <3>1, <3>2, OrphanedLeaseStep
  <2>2. CASE r \notin R \cap Leased
    BY <2>2, Numbers DEF MarkOrphaned
  <2> QED  BY <2>1, <2>2
<1> QED  BY <1>1, <1>2

LEMMA EndRunStep ==
  ASSUME TypeOK, NEW q \in RunIds, agentHistory[q] # None, NEW who \in Enders,
         NEW life \in LeaseStatuses \cup {"closed"}, NEW seq \in Nat,
         EndRun(q, who, life, seq)
  PROVE  HistoryStep /\ LeaseStep
<1>1. HistoryStep
  <2> SUFFICES ASSUME NEW r \in RunIds, agentHistory[r] # None
               PROVE  /\ agentHistory'[r] # None
                      /\ Ended(r) => agentHistory'[r].endedBy = agentHistory[r].endedBy
                      /\ agentHistory'[r].seq >= agentHistory[r].seq
    BY DEF HistoryStep
  <2>0. agentHistory[r] \in History /\ agentHistory[r].seq \in Nat
    BY Numbers
  <2>1. CASE r = q
    <3>1. agentHistory'[r] = EndedRun(agentHistory[r], who, life, seq)
      BY <2>1 DEF EndRun, TypeOK
    <3> QED  BY <2>0, <3>1, EndedRunStep, NoneAssumption DEF Ended
  <2>2. CASE r # q
    BY <2>0, <2>2 DEF EndRun, TypeOK
  <2> QED  BY <2>1, <2>2
<1>2. LeaseStep
  <2> SUFFICES ASSUME NEW r \in RunIds
               PROVE  runs'[r] = None \/ runs'[r] = runs[r]
    BY Numbers DEF LeaseStep
  <2> QED  BY DEF EndRun, TypeOK
<1> QED  BY <1>1, <1>2

LEMMA FinalizeTerminalStep ==
  ASSUME TypeOK, NEW t \in Terminals, NEW who \in Enders, NEW seq \in Nat,
         FinalizeTerminalRun(t, who, seq)
  PROVE  HistoryStep /\ LeaseStep
<1>1. CASE UNCHANGED state
  BY <1>1, NoChange DEF state
<1>2. ASSUME NEW q \in Of(t), EndRun(q, who, "closed", seq)
      PROVE  HistoryStep /\ LeaseStep
  <2>1. q \in RunIds /\ agentHistory[q] # None
    BY DEF Of
  <2> QED  BY <1>2, <2>1, EndRunStep
<1> QED  BY <1>1, <1>2 DEF FinalizeTerminalRun

LEMMA InsertStep ==
  ASSUME TypeOK, LeasesMatchHistory, NEW l \in Launchers, Insert(l)
  PROVE  HistoryStep /\ LeaseStep
<1>0. Run(l) \in RunIds /\ agentHistory[Run(l)] = None
  BY RunType DEF Insert
<1>1. \A r \in RunIds : r # Run(l) => agentHistory'[r] = agentHistory[r] /\ runs'[r] = runs[r]
  BY DEF Insert, TypeOK
<1>2. runs[Run(l)] = None
  BY <1>0 DEF LeasesMatchHistory, Leased
<1> QED  BY <1>0, <1>1, <1>2, Numbers DEF HistoryStep, LeaseStep

LEMMA ObserveStep ==
  ASSUME TypeOK, NEW t \in Terminals, Observe(t)
  PROVE  HistoryStep /\ LeaseStep
<1> DEFINE o == syncing[t]
<1>0. o \in Snapshot /\ o.status # "exited" /\ o.seq \in Nat /\ o.status \in ActiveStatuses
  BY DEF Observe, TypeOK, Snapshot
<1> HIDE DEF o
<1>1. HistoryStep
  <2> SUFFICES ASSUME NEW r \in RunIds, agentHistory[r] # None
               PROVE  /\ agentHistory'[r] # None
                      /\ Ended(r) => agentHistory'[r].endedBy = agentHistory[r].endedBy
                      /\ agentHistory'[r].seq >= agentHistory[r].seq
    BY DEF HistoryStep
  <2>0. agentHistory[r] \in History /\ agentHistory[r].seq \in Nat
    BY Numbers
  <2>1. CASE r \in Of(t)
    <3>1. agentHistory'[r] = ObservedRun(agentHistory[r], o)
      BY <2>1 DEF Observe, o
    <3>2. ObservedRun(agentHistory[r], o) \in History
      BY <1>0, <2>0, ObservedType
    <3>3. /\ ObservedRun(agentHistory[r], o).endedBy = agentHistory[r].endedBy
          /\ ObservedRun(agentHistory[r], o).seq >= agentHistory[r].seq
      BY <1>0, <2>0 DEF ObservedRun, History
    <3> QED  BY <3>1, <3>2, <3>3, NoneAssumption
  <2>2. CASE r \notin Of(t)
    BY <2>0, <2>2 DEF Observe
  <2> QED  BY <2>1, <2>2
<1>2. LeaseStep
  <2> SUFFICES ASSUME NEW r \in RunIds
               PROVE  /\ runs[r] # None /\ runs'[r] # None =>
                           /\ runs[r].status \in {"stopping", "orphaned"} =>
                                runs'[r].status \in {"stopping", "orphaned"}
                           /\ runs'[r].seq >= runs[r].seq
                      /\ runs[r] = None => runs'[r] = None
    BY DEF LeaseStep
  <2>1. CASE r \in Of(t) \cap Leased
    <3>1. runs'[r] = ObservedLease(runs[r], o) /\ runs[r] # None
      BY <2>1 DEF Observe, Leased, o
    <3>2. runs[r] \in Lease /\ runs[r].seq \in Nat
      BY <3>1, Numbers
    <3>3. /\ runs[r].status \in {"stopping", "orphaned"} =>
               ObservedLease(runs[r], o).status \in {"stopping", "orphaned"}
          /\ ObservedLease(runs[r], o).seq >= runs[r].seq
      BY <1>0, <3>2 DEF ObservedLease, Lease
    <3> QED  BY <3>1, <3>3
  <2>2. CASE r \notin Of(t) \cap Leased
    BY <2>2, Numbers DEF Observe
  <2> QED  BY <2>1, <2>2
<1> QED  BY <1>1, <1>2

LEMMA RegisterStep ==
  ASSUME TypeOK, NEW t \in Terminals, Register(t)
  PROVE  HistoryStep /\ LeaseStep
<1>1. PICK q \in Of(t) \cap Leased : runs' = [runs EXCEPT ![q].bridge = TRUE]
  BY DEF Register
<1>2. q \in RunIds /\ runs[q] \in Lease /\ runs[q] # None
  BY <1>1, Numbers DEF Leased
<1>3. runs'[q].status = runs[q].status /\ runs'[q].seq = runs[q].seq
  BY <1>1, <1>2 DEF TypeOK, Lease
<1>4. \A r \in RunIds : r # q => runs'[r] = runs[r]
  BY <1>1 DEF TypeOK
<1>5. agentHistory' = agentHistory
  BY DEF Register
<1> QED  BY <1>2, <1>3, <1>4, <1>5, Numbers DEF HistoryStep, LeaseStep

LEMMA ReconcileStep ==
  ASSUME TypeOK, LeasesMatchHistory, Reconcile
  PROVE  HistoryStep /\ LeaseStep
<1> DEFINE own == {r \in Leased : runs[r].by \in Terminals}
           listed == {r \in own : runs[r].by \in reconciler.inventory}
           gone == {r \in own \ listed : TerminalGone(runs[r])}
           lost == {r \in Leased \ own : ControllerGone(runs[r])}
           orphans == (own \ (listed \cup gone)) \cup lost
<1>1. /\ runs' = [r \in RunIds |->
           IF r \in listed
           THEN [runs[r] EXCEPT !.owner = reconciler.daemon, !.boot = boot]
           ELSE IF r \in orphans THEN OrphanedLease(runs[r]) ELSE runs[r]]
      /\ agentHistory' = [r \in RunIds |->
           IF r \in orphans THEN OrphanedRun(agentHistory[r], runs[r])
           ELSE agentHistory[r]]
  BY DEF Reconcile
<1>2. listed \subseteq Leased /\ orphans \subseteq Leased
  OBVIOUS
<1> HIDE DEF own, listed, gone, lost, orphans
<1>3. HistoryStep
  <2> SUFFICES ASSUME NEW r \in RunIds, agentHistory[r] # None
               PROVE  /\ agentHistory'[r] # None
                      /\ Ended(r) => agentHistory'[r].endedBy = agentHistory[r].endedBy
                      /\ agentHistory'[r].seq >= agentHistory[r].seq
    BY DEF HistoryStep
  <2>0. agentHistory[r] \in History /\ agentHistory[r].seq \in Nat
    BY Numbers
  <2>1. CASE r \in orphans
    <3>1. agentHistory'[r] = OrphanedRun(agentHistory[r], runs[r])
      BY <1>1, <2>1
    <3>2. runs[r] \in Lease
      BY <1>2, <2>1, Numbers DEF Leased
    <3> QED  BY <2>0, <3>1, <3>2, OrphanedRunStep, NoneAssumption DEF Ended
  <2>2. CASE r \notin orphans
    <3>1. agentHistory'[r] = agentHistory[r]
      BY <1>1, <2>2
    <3> QED  BY <2>0, <3>1
  <2> QED  BY <2>1, <2>2
<1>4. LeaseStep
  <2> SUFFICES ASSUME NEW r \in RunIds
               PROVE  /\ runs[r] # None /\ runs'[r] # None =>
                           /\ runs[r].status \in {"stopping", "orphaned"} =>
                                runs'[r].status \in {"stopping", "orphaned"}
                           /\ runs'[r].seq >= runs[r].seq
                      /\ runs[r] = None => runs'[r] = None
    BY DEF LeaseStep
  <2>1. CASE r \in listed
    <3>1. runs[r] \in Lease /\ runs[r] # None /\ runs[r].seq \in Nat
      BY <1>2, <2>1, Numbers DEF Leased
    <3>2. runs'[r] = [runs[r] EXCEPT !.owner = reconciler.daemon, !.boot = boot]
      BY <1>1, <2>1
    <3> QED  BY <3>1, <3>2 DEF Lease
  <2>2. CASE r \notin listed /\ r \in orphans
    <3>1. runs[r] \in Lease /\ runs[r] # None /\ runs[r].seq \in Nat
      BY <1>2, <2>2, Numbers DEF Leased
    <3>2. runs'[r] = OrphanedLease(runs[r])
      BY <1>1, <2>2
    <3> QED  BY <3>1, <3>2, OrphanedLeaseStep
  <2>3. CASE r \notin listed /\ r \notin orphans
    <3>1. runs'[r] = runs[r]
      BY <1>1, <2>3
    <3> QED  BY <3>1, Numbers
  <2> QED  BY <2>1, <2>2, <2>3
<1> QED  BY <1>3, <1>4

-----------------------------------------------------------------------------
(* The steps of Next.                                                      *)

LEMMA LauncherHistory ==
  ASSUME WriterInv, NEW l \in Launchers,
         \/ Prepare(l) \/ Launch(l) \/ ProviderExit(l) \/ UpdateFails(l) \/ Crash(l)
  PROVE  HistoryStep /\ LeaseStep
<1>0. TypeOK /\ LeasesMatchHistory /\ Run(l) \in RunIds
  BY RunType DEF WriterInv
<1>1. CASE Prepare(l) \/ Reject(l) \/ Spawn(l) \/ ProviderExit(l) \/ UpdateFails(l) \/ Crash(l)
  BY <1>0, <1>1, NoChange DEF Prepare, Reject, Spawn, ProviderExit, UpdateFails, Crash, state
<1>2. CASE Insert(l)
  BY <1>0, <1>2, InsertStep
<1>3. CASE AlreadyStarted(l)
  BY <1>0, <1>3, NoChange DEF AlreadyStarted
<1>4. CASE Finalize(l)
  <2>1. CASE UNCHANGED <<runs, agentHistory>>
    BY <1>0, <2>1, NoChange
  <2>2. CASE sess[l] = sessionId /\ EndRun(Run(l), "launcher", "closed", 0)
    <3>1. agentHistory[Run(l)] # None
      BY <1>4, <2>2 DEF Finalize, WriterInv, HistoryOwned, Inserted
    <3> QED  BY <1>0, <2>2, <3>1, EndRunStep DEF Enders
  <2> QED  BY <1>4, <2>1, <2>2 DEF Finalize, state
<1>5. CASE OrphanFinalize(l)
  <2>1. CASE UNCHANGED <<runs, agentHistory>>
    BY <1>0, <2>1, NoChange
  <2>2. CASE MarkOrphaned({Run(l)})
    BY <1>0, <2>2, MarkOrphanedStep
  <2> QED  BY <1>5, <2>1, <2>2 DEF OrphanFinalize, state
<1>6. CASE Leave(l)
  <2> DEFINE R == {r \in Leased : runs[r].by = l /\ runs[r].owner = 0}
  <2>1. R \in SUBSET RunIds /\ MarkOrphaned(R)
    BY <1>6 DEF Leave, Leased
  <2> HIDE DEF R
  <2> QED  BY <1>0, <2>1, MarkOrphanedStep
<1> QED  BY <1>1, <1>2, <1>3, <1>4, <1>5, <1>6 DEF Launch

LEMMA TerminalHistory ==
  ASSUME WriterInv, NEW t \in Terminals,
         \/ Transition(t) \/ TerminalExit(t) \/ Sync(t) \/ SyncFails(t)
         \/ Observe(t) \/ ObserveExit(t) \/ Register(t)
  PROVE  HistoryStep /\ LeaseStep
<1>0. TypeOK /\ LeasesMatchHistory
  BY DEF WriterInv
<1>1. CASE Transition(t) \/ TerminalExit(t) \/ Sync(t) \/ SyncFails(t)
  BY <1>0, <1>1, NoChange DEF Transition, TerminalExit, Sync, SyncFails, state
<1>2. CASE Observe(t)
  BY <1>0, <1>2, ObserveStep
<1>3. CASE ObserveExit(t)
  <2>1. syncing[t].seq \in Nat
    BY <1>0, <1>3 DEF ObserveExit, TypeOK, Snapshot
  <2> QED  BY <1>0, <1>3, <2>1, FinalizeTerminalStep DEF ObserveExit, Enders
<1>4. CASE Register(t)
  BY <1>0, <1>4, RegisterStep
<1> QED  BY <1>1, <1>2, <1>3, <1>4

LEMMA OthersHistory ==
  ASSUME WriterInv,
         \/ DaemonCrash \/ Reboot
         \/ FetchInventory \/ Reconcile \/ ReconcileFinalize \/ ReconcileLocally
         \/ \E r \in RunIds : RecoverOrphanedRun(r)
         \/ \E f \in Finishers : BeginFinish(f) \/ Finish(f)
         \/ StartTask
  PROVE  HistoryStep /\ LeaseStep
<1>0. TypeOK /\ LeasesMatchHistory
  BY DEF WriterInv
<1>1. CASE DaemonCrash \/ Reboot \/ FetchInventory
  BY <1>0, <1>1, NoChange DEF DaemonCrash, Reboot, FetchInventory, state
<1>2. CASE Reconcile
  BY <1>0, <1>2, ReconcileStep
<1>3. CASE ReconcileFinalize
  <2>1. PICK c \in reconciler.candidates :
          FinalizeTerminalRun(c.terminal, "reconcile", c.seq) \/ UNCHANGED state
    BY <1>3 DEF ReconcileFinalize
  <2>2. c.terminal \in Terminals /\ c.seq \in Nat
    BY <1>0 DEF TypeOK, Reconcilers, Candidate
  <2> QED  BY <1>0, <2>1, <2>2, FinalizeTerminalStep, NoChange DEF Enders, state
<1>4. CASE ReconcileLocally
  <2> DEFINE R == {r \in Leased : ControllerGone(runs[r])}
  <2>1. R \in SUBSET RunIds /\ MarkOrphaned(R)
    BY <1>4 DEF ReconcileLocally, Leased
  <2> HIDE DEF R
  <2> QED  BY <1>0, <2>1, MarkOrphanedStep
<1>5. ASSUME NEW r \in RunIds, RecoverOrphanedRun(r)
      PROVE  HistoryStep /\ LeaseStep
  <2>1. agentHistory[r] # None /\ EndRun(r, "recover", agentHistory[r].life, 0)
    BY <1>0, <1>5 DEF RecoverOrphanedRun, LeasesMatchHistory
  <2>2. agentHistory[r].life \in LeaseStatuses \cup {"closed"}
    BY <1>0, <2>1, Numbers DEF History
  <2> QED  BY <1>0, <2>1, <2>2, EndRunStep DEF Enders
<1>6. ASSUME NEW f \in Finishers, BeginFinish(f) \/ Finish(f)
      PROVE  HistoryStep /\ LeaseStep
  BY <1>0, <1>6, NoChange DEF BeginFinish, Finish, state
<1>7. CASE StartTask
  <2>1. sessionId' # sessionId /\ Leased = {} /\ runs' = runs
    BY <1>0, <1>7 DEF StartTask, TypeOK
  <2> QED  BY <2>1 DEF HistoryStep, LeaseStep, Leased
<1> QED  BY <1>1, <1>2, <1>3, <1>4, <1>5, <1>6, <1>7

LEMMA EveryStep ==
  ASSUME WriterInv, [Next]_vars
  PROVE  HistoryStep /\ LeaseStep
<1>1. CASE UNCHANGED vars
  BY <1>1, NoChange DEF WriterInv, vars, state
<1> QED  BY <1>1, LauncherHistory, TerminalHistory, OthersHistory DEF Next

\* Launcher, daemon, reconciliation and recovery may all end a run: the first
\* decides, and its sequence never falls, for any number of each of them.
THEOREM EndsOnceHolds == Trusted => (Spec => EndsOnce)
<1>1. WriterInv /\ [Next]_vars => [HistoryStep]_vars
  BY EveryStep
<1>2. HistoryStep =>
        \A r \in RunIds :
          agentHistory[r] # None /\ sessionId' = sessionId =>
            /\ agentHistory'[r] # None
            /\ Ended(r) => agentHistory'[r].endedBy = agentHistory[r].endedBy
            /\ agentHistory'[r].seq >= agentHistory[r].seq
  BY DEF HistoryStep
<1> QED  BY <1>1, <1>2, WriterInvariant, PTL DEF Spec, EndsOnce

\* No observation, however late, revives a stopping or orphaned lease, and no
\* lease that is gone comes back.
THEOREM NoRevivalHolds == Trusted => (Spec => NoRevival)
<1>1. WriterInv /\ [Next]_vars => [LeaseStep]_vars
  BY EveryStep
<1> QED  BY <1>1, WriterInvariant, PTL DEF Spec, NoRevival, LeaseStep

=============================================================================
