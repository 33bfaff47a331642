-------------------------------- MODULE Runs --------------------------------
(***************************************************************************)
(* Provider runs and their worktree leases.  The repository state holds    *)
(* one task session, the history of its runs, the lease of every run that  *)
(* has not ended, and a bounded ledger of operation ids.  It is changed by *)
(* launchers (relay run, resume, switch: one process each, which spawns    *)
(* the provider and waits for it), by the daemon that owns the terminal a  *)
(* launcher may run in, by relay reconcile, recover and finish, and by the *)
(* start of the next task.                                                 *)
(*                                                                         *)
(* updateState holds the repository lock around its read, mutation and     *)
(* write (the lock is module DirLock), so a mutation is one action here;   *)
(* what a process does between two mutations is not.                       *)
(***************************************************************************)
EXTENDS Integers, Sequences, FiniteSets

CONSTANTS
  Launchers,    \* launchAgent invocations, each a process of its own
  Terminals,    \* those that run in a terminal of the daemon
  Ops,          \* operation ids
  OpOf,         \* the operation id of a launcher
  Worktrees,
  WorktreeOf,   \* the worktree a launcher was asked to run in
  Finishers,    \* relay finish invocations
  CarefulUser,  \* recover --force only once the launcher is gone as well
  ClockSkew,    \* a reconciliation computes another id for this very boot
  None,         \* "no such record"
  LedgerLimit,  \* OPERATION_LEDGER_LIMIT
  MaxSession,   \* bound: tasks started
  MaxSeq,       \* bound: status changes of a terminal before its end
  MaxFaults,    \* bound: state updates that fail (their retries included)
  MaxCrashes,   \* bound: launchers that die
  MaxDaemon,    \* bound: daemon instances
  MaxBoots      \* bound: boots of the machine

ASSUME RunsAssumption ==
  /\ Terminals \subseteq Launchers
  /\ OpOf \in [Launchers -> Ops]
  /\ WorktreeOf \in [Launchers -> Worktrees]
  /\ CarefulUser \in BOOLEAN /\ ClockSkew \in BOOLEAN
  /\ LedgerLimit \in Nat \ {0}
  /\ MaxSession \in Nat \ {0} /\ MaxDaemon \in Nat \ {0}
  /\ MaxBoots \in Nat \ {0}
  /\ MaxSeq \in Nat /\ MaxFaults \in Nat /\ MaxCrashes \in Nat

VARIABLES
  sessionId, taskActive, recentOperations,
  runs,          \* run id -> its lease, or None
  agentHistory,  \* run id -> its history entry, or None
  pc,            \* launcher -> where it is
  sess,          \* launcher -> the session it was prepared for
  provider,      \* launcher -> its provider process
  term,          \* terminal -> its status in the daemon
  sequence,      \* terminal -> its runtimeSequence
  syncing,       \* terminal -> the snapshot the bridge worker is applying
  daemon,        \* the running daemon instance
  boot,          \* the boot of the machine
  reconciler,    \* relay reconcile: what it works from
  finisher,      \* finisher -> the session it checked, or 0
  faults, crashes

state     == <<sessionId, taskActive, recentOperations, runs, agentHistory>>
launching == <<pc, sess, provider>>
terminals == <<term, sequence, syncing, daemon, boot>>
bounds    == <<faults, crashes>>
vars == <<state, launching, terminals, reconciler, finisher, bounds>>

RunIds == (1..MaxSession) \X Ops

\* runIdFor: a hash of the session and the operation id.
Run(l) == <<sess[l], OpOf[l]>>

ActiveStatuses == {"running", "waiting", "stopping"}
LeaseStatuses == ActiveStatuses \cup {"orphaned"}

\* A lease is owned by its launcher (0) or by the daemon instance that adopted
\* it, both of one boot; bridge: the terminal's bridge process is registered.
Lease == [status: LeaseStatuses, seq: Nat, by: Launchers,
          owner: 0..MaxDaemon, boot: 1..MaxBoots, bridge: BOOLEAN]

\* endedBy is None until the run has ended, then who ended it.
Enders == {"launcher", "daemon", "reconcile", "recover"}
History == [life: LeaseStatuses \cup {"closed"}, seq: Nat, by: Launchers,
            endedBy: Enders \cup {None}]

OpIds == ({"launch", "finalize", "orphan-finalize"} \X Ops)
         \cup ({"daemon-finalize"} \X Terminals)

Snapshot == [status: ActiveStatuses \cup {"exited"}, seq: Nat, daemon: 1..MaxDaemon]

ASSUME NoneAssumption ==
  None \notin Lease /\ None \notin History /\ None \notin Snapshot /\ None \notin Enders

Leased == {r \in RunIds : runs[r] # None}
Ended(r) == agentHistory[r] # None /\ agentHistory[r].endedBy # None
Of(t) == {r \in RunIds : agentHistory[r] # None /\ agentHistory[r].by = t}

\* A reconciliation holds the inventory it fetched, and whose, or the terminals
\* it has still to finalize.
Candidate == [terminal: Terminals, seq: Nat]

Reconcilers == [fetched: BOOLEAN, inventory: SUBSET Terminals,
                daemon: 1..MaxDaemon, candidates: SUBSET Candidate]

IdleReconciler ==
  [fetched |-> FALSE, inventory |-> {}, daemon |-> 1, candidates |-> {}]

Bigger(a, b) == IF a > b THEN a ELSE b

Init ==
  /\ sessionId = 1
  /\ taskActive = TRUE
  /\ recentOperations = <<>>
  /\ runs = [r \in RunIds |-> None]
  /\ agentHistory = [r \in RunIds |-> None]
  /\ pc = [l \in Launchers |-> "idle"]
  /\ sess = [l \in Launchers |-> 1]
  /\ provider = [l \in Launchers |-> "none"]
  /\ term = [t \in Terminals |-> "none"]
  /\ sequence = [t \in Terminals |-> 0]
  /\ syncing = [t \in Terminals |-> None]
  /\ daemon = 1
  /\ boot = 1
  /\ reconciler = IdleReconciler
  /\ finisher = [f \in Finishers |-> 0]
  /\ faults = 0
  /\ crashes = 0

-----------------------------------------------------------------------------
(* The state store and the lease operations.                               *)

\* The ledger keeps the newest operations; repeating one of them is a no-op.
Record(op) ==
  LET all == Append(recentOperations, op) IN
  recentOperations' =
    SubSeq(all, Bigger(1, Len(all) - LedgerLimit + 1), Len(all))

Done(op) == \E i \in 1..Len(recentOperations) : recentOperations[i] = op

OrphanedLease(lease) == [lease EXCEPT !.status = "orphaned"]
OrphanedRun(run, lease) ==
  IF run.endedBy # None THEN run
  ELSE [run EXCEPT !.life = "orphaned", !.seq = Bigger(@, lease.seq)]

\* Fault: a lease is released where it should be orphaned.
MarkReleased(R) ==
  /\ runs' = [r \in RunIds |-> IF r \in R THEN None ELSE runs[r]]
  /\ agentHistory' = [r \in RunIds |->
       IF r \in R \cap Leased THEN OrphanedRun(agentHistory[r], runs[r])
       ELSE agentHistory[r]]

\* markLeaseOrphaned of every run of R that holds a lease.
MarkOrphaned(R) ==
  /\ runs' = [r \in RunIds |->
       IF r \in R \cap Leased THEN OrphanedLease(runs[r]) ELSE runs[r]]
  /\ agentHistory' = [r \in RunIds |->
       IF r \in R \cap Leased THEN OrphanedRun(agentHistory[r], runs[r])
       ELSE agentHistory[r]]

\* Fault: whoever finalizes a run writes its end, the last one wins.
EndedRunAgain(run, who, life, seq) ==
  [run EXCEPT !.endedBy = who, !.life = life, !.seq = Bigger(@, seq)]

\* End the run, unless it has ended before, and release its lease.
EndedRun(run, who, life, seq) ==
  IF run.endedBy # None THEN run
  ELSE [run EXCEPT !.endedBy = who, !.life = life, !.seq = Bigger(@, seq)]

\* Fault: the end of the run does not release the lease.
EndRunOnly(r, who, life, seq) ==
  /\ UNCHANGED runs
  /\ agentHistory' = [agentHistory EXCEPT ![r] = EndedRun(@, who, life, seq)]

EndRun(r, who, life, seq) ==
  /\ runs' = [runs EXCEPT ![r] = None]
  /\ agentHistory' = [agentHistory EXCEPT ![r] = EndedRun(@, who, life, seq)]

-----------------------------------------------------------------------------
(* launchAgent and SessionManager.startRun.                                *)

Goto(l, p) == pc' = [pc EXCEPT ![l] = p]

\* An update is applied; the launcher goes on to p, or to q where the release of the
\* lock then throws, in each of its retries if there are any.
Applied(l, p, q) ==
  \/ Goto(l, p) /\ UNCHANGED bounds
  \/ /\ faults < MaxFaults /\ faults' = faults + 1
     /\ Goto(l, q) /\ UNCHANGED crashes

\* A process is told alive by its pid.
LauncherAlive(l) == pc[l] \notin {"idle", "gone"}

\* taskContext reads the state this launch is prepared for.  The terminal of a
\* daemon-owned launch exists by then.
Prepare(l) ==
  /\ pc[l] = "idle" /\ taskActive
  /\ Goto(l, "prepared")
  /\ sess' = [sess EXCEPT ![l] = sessionId]
  /\ term' = [t \in Terminals |-> IF t = l THEN "running" ELSE term[t]]
  /\ UNCHANGED <<state, provider, sequence, syncing, daemon, boot,
                 reconciler, finisher, bounds>>

LaunchOp(l) == <<"launch", OpOf[l]>>
WorktreeFree(w) == \A r \in Leased : WorktreeOf[runs[r].by] # w

\* Fault: only the ledger tells a repeated launch, not the run history.
InsertAgain(l) ==
  LET r == Run(l) IN
  /\ pc[l] = "prepared" /\ ~Done(LaunchOp(l))
  /\ sess[l] = sessionId /\ taskActive
  /\ WorktreeFree(WorktreeOf[l])
  /\ agentHistory' = [agentHistory EXCEPT
       ![r] = [life |-> "running", seq |-> 0, by |-> l, endedBy |-> None]]
  /\ runs' = [runs EXCEPT
       ![r] = [status |-> "running", seq |-> 0, by |-> l, owner |-> 0,
               boot |-> boot, bridge |-> FALSE]]
  /\ Record(LaunchOp(l))
  /\ Applied(l, "inserted", "leaving")
  /\ UNCHANGED <<sessionId, taskActive, sess, provider, terminals, reconciler,
                 finisher>>

\* prepareRun's mutation: the history entry and, by acquireLease, the lease.
Insert(l) ==
  LET r == Run(l) IN
  /\ pc[l] = "prepared" /\ ~Done(LaunchOp(l))
  /\ sess[l] = sessionId /\ taskActive
  /\ agentHistory[r] = None
  /\ WorktreeFree(WorktreeOf[l])
  /\ agentHistory' = [agentHistory EXCEPT
       ![r] = [life |-> "running", seq |-> 0, by |-> l, endedBy |-> None]]
  /\ runs' = [runs EXCEPT
       ![r] = [status |-> "running", seq |-> 0, by |-> l, owner |-> 0,
               boot |-> boot, bridge |-> FALSE]]
  /\ Record(LaunchOp(l))
  /\ Applied(l, "inserted", "leaving")
  /\ UNCHANGED <<sessionId, taskActive, sess, provider, terminals, reconciler,
                 finisher>>

\* The run is in the history already: the launch returns its result, or throws
\* RunAlreadyStartedError; the ledger takes the operation all the same.
AlreadyStarted(l) ==
  /\ pc[l] = "prepared" /\ ~Done(LaunchOp(l))
  /\ sess[l] = sessionId /\ taskActive
  /\ agentHistory[Run(l)] # None
  /\ Record(LaunchOp(l))
  /\ Goto(l, "leaving")
  /\ UNCHANGED <<sessionId, taskActive, runs, agentHistory, sess, provider,
                 terminals, reconciler, finisher, bounds>>

\* Repeated operation, another or closed task, claimed worktree: no launch.
Reject(l) ==
  /\ pc[l] = "prepared"
  /\ \/ Done(LaunchOp(l))
     \/ sess[l] # sessionId \/ ~taskActive
     \/ agentHistory[Run(l)] = None /\ ~WorktreeFree(WorktreeOf[l])
  /\ Goto(l, "leaving")
  /\ UNCHANGED <<state, sess, provider, terminals, reconciler, finisher, bounds>>

\* host.start, which may fail: the run is then finalized at once.
Spawn(l) ==
  /\ pc[l] = "inserted"
  /\ Goto(l, "started")
  /\ \E p \in {"alive", "gone"} : provider' = [provider EXCEPT ![l] = p]
  /\ UNCHANGED <<state, sess, terminals, reconciler, finisher, bounds>>

ProviderExit(l) ==
  /\ provider[l] = "alive"
  /\ provider' = [provider EXCEPT ![l] = "gone"]
  /\ UNCHANGED <<state, pc, sess, terminals, reconciler, finisher, bounds>>

FinalizeOp(l) == <<"finalize", OpOf[l]>>

Finalize(l) ==
  LET r == Run(l) IN
  /\ pc[l] = "started" /\ provider[l] = "gone"
  /\ \/ Done(FinalizeOp(l)) /\ UNCHANGED state
     \/ /\ ~Done(FinalizeOp(l)) /\ sess[l] # sessionId
        /\ Record(FinalizeOp(l))
        /\ UNCHANGED <<sessionId, taskActive, runs, agentHistory>>
     \/ /\ ~Done(FinalizeOp(l)) /\ sess[l] = sessionId
        /\ EndRun(r, "launcher", "closed", 0)
        /\ Record(FinalizeOp(l))
        /\ UNCHANGED <<sessionId, taskActive>>
  /\ Applied(l, "leaving", "orphaning")
  /\ UNCHANGED <<sess, provider, terminals, reconciler, finisher>>

\* A state update of the launcher fails for good and is not applied: finalize goes
\* on to orphan-finalize, the others end the launch.
UpdateFails(l) ==
  /\ faults < MaxFaults
  /\ \/ /\ pc[l] = "started" /\ provider[l] = "gone" /\ Goto(l, "orphaning")
     \/ pc[l] \in {"prepared", "orphaning"} /\ Goto(l, "leaving")
     \/ pc[l] = "leaving" /\ Goto(l, "gone")
  /\ faults' = faults + 1
  /\ UNCHANGED <<state, sess, provider, terminals, reconciler, finisher, crashes>>

OrphanOp(l) == <<"orphan-finalize", OpOf[l]>>

OrphanFinalize(l) ==
  /\ pc[l] = "orphaning"
  /\ \/ Done(OrphanOp(l)) /\ UNCHANGED state
     \/ /\ ~Done(OrphanOp(l))
        /\ MarkOrphaned({Run(l)})
        /\ Record(OrphanOp(l))
        /\ UNCHANGED <<sessionId, taskActive>>
  /\ Goto(l, "leaving")
  /\ UNCHANGED <<sess, provider, terminals, reconciler, finisher, bounds>>

\* Fault: launchAgent has no finally.
LeaveAtOnce(l) ==
  /\ pc[l] = "leaving"
  /\ Goto(l, "gone")
  /\ UNCHANGED <<state, sess, provider, terminals, reconciler, finisher, bounds>>

\* orphanOwned, in launchAgent's finally: the leases still under this
\* controller's id.  Then the process exits.
Leave(l) ==
  /\ pc[l] = "leaving"
  /\ MarkOrphaned({r \in Leased : runs[r].by = l /\ runs[r].owner = 0})
  /\ Goto(l, "gone")
  /\ UNCHANGED <<sessionId, taskActive, recentOperations, sess, provider,
                 terminals, reconciler, finisher, bounds>>

\* The launcher dies.  A provider in a daemon's terminal dies with it, by the
\* hangup of that terminal; one in the user's terminal may go on.
Crash(l) ==
  /\ LauncherAlive(l) /\ crashes < MaxCrashes
  /\ Goto(l, "gone")
  /\ provider' = [provider EXCEPT
       ![l] = IF l \in Terminals /\ @ = "alive" THEN "gone" ELSE @]
  /\ crashes' = crashes + 1
  /\ UNCHANGED <<state, sess, terminals, reconciler, finisher, faults>>

Launch(l) ==
  \/ Insert(l) \/ AlreadyStarted(l) \/ Reject(l) \/ Spawn(l)
  \/ Finalize(l) \/ OrphanFinalize(l) \/ Leave(l)

-----------------------------------------------------------------------------
(* The daemon: the status of its terminals, and their synchronization.     *)

SetTerm(t, s) ==
  /\ term' = [term EXCEPT ![t] = s]
  /\ sequence' = [sequence EXCEPT ![t] = @ + 1]

\* transitionTerminal: attention and activity, and the stop of a terminal.
Transition(t) ==
  /\ \/ /\ term[t] = "running" /\ sequence[t] < MaxSeq /\ SetTerm(t, "waiting")
     \/ /\ term[t] = "waiting" /\ sequence[t] < MaxSeq /\ SetTerm(t, "running")
     \/ /\ term[t] \in {"running", "waiting"} /\ SetTerm(t, "stopping")
  /\ UNCHANGED <<state, launching, syncing, daemon, boot, reconciler, finisher, bounds>>

\* Fault: the terminal is finalized as soon as its stop is requested.
TerminalExitEarly(t) ==
  /\ term[t] \in ActiveStatuses
  /\ SetTerm(t, "exited")
  /\ UNCHANGED <<state, launching, syncing, daemon, boot, reconciler, finisher, bounds>>

\* finalize: the process tree of the terminal is gone.
TerminalExit(t) ==
  /\ term[t] \in ActiveStatuses
  /\ pc[t] = "gone" /\ provider[t] # "alive"
  /\ SetTerm(t, "exited")
  /\ UNCHANGED <<state, launching, syncing, daemon, boot, reconciler, finisher, bounds>>

\* processNextSync: a snapshot goes to the bridge worker, one at a time.
Sync(t) ==
  /\ syncing[t] = None
  /\ term[t] \in ActiveStatuses \cup {"exited"}
  /\ syncing' = [syncing EXCEPT
       ![t] = [status |-> term[t], seq |-> sequence[t], daemon |-> daemon]]
  /\ UNCHANGED <<state, launching, term, sequence, daemon, boot, reconciler, finisher,
                 bounds>>

\* The worker was killed, or the run is not ready: the daemon tries again.
SyncFails(t) ==
  /\ syncing[t] # None
  /\ syncing' = [syncing EXCEPT ![t] = None]
  /\ UNCHANGED <<state, launching, term, sequence, daemon, boot, reconciler, finisher,
                 bounds>>

\* Fault: of an observation nothing but its sequence is looked at.
ObservedLeaseBySequence(lease, o) ==
  IF o.seq < lease.seq THEN lease
  ELSE [lease EXCEPT !.status = o.status, !.seq = o.seq,
                        !.owner = o.daemon, !.boot = boot]

\* executeBridgeObservation: how a snapshot changes a lease and a run.
ObservedLease(lease, o) ==
  IF \/ o.seq < lease.seq
     \/ lease.status \in {"stopping", "orphaned"} /\ o.status # "stopping"
  THEN lease
  ELSE [lease EXCEPT !.status = o.status, !.seq = o.seq,
                        !.owner = o.daemon, !.boot = boot]

ObservedRun(run, o) ==
  IF \/ o.seq < run.seq
     \/ run.endedBy # None /\ o.status # "stopping"
  THEN run
  ELSE [run EXCEPT !.life = o.status, !.seq = o.seq]

Observe(t) ==
  LET o == syncing[t] IN
  /\ o # None /\ o.status # "exited"
  /\ Of(t) # {}
  /\ runs' = [r \in RunIds |->
       IF r \in Of(t) \cap Leased THEN ObservedLease(runs[r], o) ELSE runs[r]]
  /\ agentHistory' = [r \in RunIds |->
       IF r \in Of(t) THEN ObservedRun(agentHistory[r], o) ELSE agentHistory[r]]
  /\ syncing' = [syncing EXCEPT ![t] = None]
  /\ UNCHANGED <<sessionId, taskActive, recentOperations, launching, term,
                 sequence, daemon, boot, reconciler, finisher, bounds>>

DaemonOp(t) == <<"daemon-finalize", t>>

\* finalizeTerminalRun's mutation, which throws before the run is inserted.
FinalizeTerminalRun(t, who, seq) ==
  \/ Done(DaemonOp(t)) /\ UNCHANGED state
  \/ /\ ~Done(DaemonOp(t))
     /\ \E r \in Of(t) : EndRun(r, who, "closed", seq)
     /\ Record(DaemonOp(t))
     /\ UNCHANGED <<sessionId, taskActive>>

\* Where the release of the lock throws, the daemon is not told and tries again.
ObserveExit(t) ==
  /\ syncing[t] # None /\ syncing[t].status = "exited"
  /\ FinalizeTerminalRun(t, "daemon", syncing[t].seq)
  /\ syncing' = [syncing EXCEPT ![t] = None]
  /\ \/ UNCHANGED term
     \/ term' = [term EXCEPT ![t] = IF @ = "exited" THEN "synced" ELSE @]
  /\ UNCHANGED <<launching, sequence, daemon, boot, reconciler, finisher, bounds>>

\* executeBridgeRegistration.
Register(t) ==
  /\ term[t] \in ActiveStatuses
  /\ \E r \in Of(t) \cap Leased :
       ~runs[r].bridge /\ runs' = [runs EXCEPT ![r].bridge = TRUE]
  /\ UNCHANGED <<sessionId, taskActive, recentOperations, agentHistory,
                 launching, terminals, reconciler, finisher, bounds>>

\* The daemon dies, its terminals with it; what the worker has begun goes on.
DaemonCrash ==
  /\ daemon < MaxDaemon
  /\ daemon' = daemon + 1
  /\ term' = [t \in Terminals |-> IF term[t] = "none" THEN "none" ELSE "lost"]
  /\ UNCHANGED <<state, launching, sequence, syncing, boot, reconciler, finisher,
                 bounds>>

\* The machine restarts: of all processes nothing is left but what they wrote.
Reboot ==
  /\ boot < MaxBoots /\ daemon < MaxDaemon
  /\ boot' = boot + 1 /\ daemon' = daemon + 1
  /\ pc' = [l \in Launchers |-> IF LauncherAlive(l) THEN "gone" ELSE pc[l]]
  /\ provider' = [l \in Launchers |->
       IF provider[l] = "alive" THEN "gone" ELSE provider[l]]
  /\ term' = [t \in Terminals |-> IF term[t] = "none" THEN "none" ELSE "lost"]
  /\ syncing' = [t \in Terminals |-> None]
  /\ reconciler' = IdleReconciler
  /\ finisher' = [f \in Finishers |-> 0]
  /\ UNCHANGED <<state, sess, sequence, bounds>>

-----------------------------------------------------------------------------
(* relay reconcile.                                                        *)

ControllerAlive(lease) ==
  IF lease.owner = 0 THEN LauncherAlive(lease.by) ELSE lease.owner = daemon

DifferentBoot(lease) == lease.boot # boot \/ ClockSkew

\* A process that died in this boot; what is known of another boot is nothing.
ControllerGone(lease) == ~DifferentBoot(lease) /\ ~ControllerAlive(lease)

\* Of an earlier boot, or controller and bridge conclusively gone; the bridge
\* of a terminal is the process the launcher runs in.
TerminalGone(lease) ==
  \/ DifferentBoot(lease)
  \/ ControllerGone(lease) /\ lease.bridge /\ ~LauncherAlive(lease.by)

\* The client asks the daemon for its inventory.
FetchInventory ==
  /\ reconciler = IdleReconciler
  /\ reconciler' = [reconciler EXCEPT
       !.fetched = TRUE,
       !.inventory = {t \in Terminals : term[t] \in ActiveStatuses},
       !.daemon = daemon]
  /\ UNCHANGED <<state, launching, terminals, finisher, bounds>>

\* The reconciliation against that inventory: listed terminals are adopted,
\* absent ones orphaned, or finalized afterwards, one by one.
Reconcile ==
  LET own == {r \in Leased : runs[r].by \in Terminals}
      listed == {r \in own : runs[r].by \in reconciler.inventory}
      gone == {r \in own \ listed : TerminalGone(runs[r])}
      lost == {r \in Leased \ own : ControllerGone(runs[r])}
      orphans == (own \ (listed \cup gone)) \cup lost
  IN
  /\ reconciler.fetched
  /\ runs' = [r \in RunIds |->
       IF r \in listed
       THEN [runs[r] EXCEPT !.owner = reconciler.daemon, !.boot = boot]
       ELSE IF r \in orphans THEN OrphanedLease(runs[r]) ELSE runs[r]]
  /\ agentHistory' = [r \in RunIds |->
       IF r \in orphans THEN OrphanedRun(agentHistory[r], runs[r])
       ELSE agentHistory[r]]
  /\ reconciler' = [IdleReconciler EXCEPT
       !.candidates = {[terminal |-> runs[r].by, seq |-> runs[r].seq] : r \in gone}]
  /\ UNCHANGED <<sessionId, taskActive, recentOperations, launching, terminals,
                 finisher, bounds>>

\* The first finalization that fails ends the reconciliation.
ReconcileFinalize ==
  \E c \in reconciler.candidates :
    /\ \/ /\ FinalizeTerminalRun(c.terminal, "reconcile", c.seq)
          /\ reconciler' = [reconciler EXCEPT !.candidates = @ \ {c}]
       \/ UNCHANGED state /\ reconciler' = IdleReconciler
    /\ UNCHANGED <<launching, terminals, finisher, bounds>>

\* Without an inventory only a controller that died in this boot orphans its
\* lease; an earlier boot's stays as it is.
ReconcileLocally ==
  LET dead == {r \in Leased : ControllerGone(runs[r])} IN
  /\ dead # {}
  /\ MarkOrphaned(dead)
  /\ UNCHANGED <<sessionId, taskActive, recentOperations, launching, terminals,
                 reconciler, finisher, bounds>>

-----------------------------------------------------------------------------
(* relay recover --force, relay finish, and the start of the next task.    *)

\* The user confirms that no provider process is running.
Confirmed(l) == provider[l] # "alive" /\ (CarefulUser => pc[l] = "gone")

RecoverOrphanedRun(r) ==
  /\ r \in Leased /\ runs[r].status = "orphaned"
  /\ Confirmed(runs[r].by)
  /\ EndRun(r, "recover", agentHistory[r].life, 0)
  /\ UNCHANGED <<sessionId, taskActive, recentOperations, launching, terminals,
                 reconciler, finisher, bounds>>

\* finish reads the state, then makes the final checkpoint.
BeginFinish(f) ==
  /\ finisher[f] = 0 /\ taskActive /\ Leased = {}
  /\ finisher' = [finisher EXCEPT ![f] = sessionId]
  /\ UNCHANGED <<state, launching, terminals, reconciler, bounds>>

Finish(f) ==
  /\ finisher[f] # 0
  /\ finisher' = [finisher EXCEPT ![f] = 0]
  /\ taskActive' = (taskActive /\ Leased # {})
  /\ UNCHANGED <<sessionId, recentOperations, runs, agentHistory, launching,
                 terminals, reconciler, bounds>>

\* replaceState: a new session, with an empty history and an empty ledger.
StartTask ==
  /\ ~taskActive /\ Leased = {} /\ sessionId < MaxSession
  /\ sessionId' = sessionId + 1
  /\ taskActive' = TRUE
  /\ recentOperations' = <<>>
  /\ agentHistory' = [r \in RunIds |-> None]
  /\ UNCHANGED <<runs, launching, terminals, reconciler, finisher, bounds>>

Next ==
  \/ \E l \in Launchers :
       Prepare(l) \/ Launch(l) \/ ProviderExit(l) \/ UpdateFails(l) \/ Crash(l)
  \/ \E t \in Terminals :
       \/ Transition(t) \/ TerminalExit(t) \/ Sync(t) \/ SyncFails(t)
       \/ Observe(t) \/ ObserveExit(t) \/ Register(t)
  \/ DaemonCrash \/ Reboot
  \/ FetchInventory \/ Reconcile \/ ReconcileFinalize \/ ReconcileLocally
  \/ \E r \in RunIds : RecoverOrphanedRun(r)
  \/ \E f \in Finishers : BeginFinish(f) \/ Finish(f)
  \/ StartTask

Spec == Init /\ [][Next]_vars

\* The launcher goes on, its provider's exit is seen, and the daemon goes on
\* reporting; a provider need never exit, nor a user do anything.
FairSpec ==
  /\ Spec
  /\ \A l \in Launchers : WF_vars(Launch(l))
  /\ \A t \in Terminals :
       WF_vars(TerminalExit(t)) /\ WF_vars(Sync(t))
       /\ SF_vars(Observe(t)) /\ SF_vars(ObserveExit(t))

-----------------------------------------------------------------------------
(* Properties                                                              *)

\* Every variable keeps its type.
TypeOK ==
  /\ sessionId \in 1..MaxSession
  /\ taskActive \in BOOLEAN
  /\ recentOperations \in Seq(OpIds)
  /\ runs \in [RunIds -> Lease \cup {None}]
  /\ agentHistory \in [RunIds -> History \cup {None}]
  /\ pc \in [Launchers -> {"idle", "prepared", "inserted", "started",
                            "orphaning", "leaving", "gone"}]
  /\ sess \in [Launchers -> 1..MaxSession]
  /\ provider \in [Launchers -> {"none", "alive", "gone"}]
  /\ term \in [Terminals -> {"none", "exited", "synced", "lost"} \cup ActiveStatuses]
  /\ sequence \in [Terminals -> Nat]
  /\ syncing \in [Terminals -> Snapshot \cup {None}]
  /\ daemon \in 1..MaxDaemon /\ boot \in 1..MaxBoots
  /\ reconciler \in Reconcilers
  /\ finisher \in [Finishers -> 0..MaxSession]
  /\ faults \in 0..MaxFaults
  /\ crashes \in 0..MaxCrashes

Running(l) == provider[l] = "alive"

\* "At most one writing run per worktree" (leases.ts:58): not of the leases
\* only but of the provider processes, whatever launches, crashes, finalizes,
\* reconciles, recovers or starts the next task in between.
OneWriter ==
  \A k, l \in Launchers :
    Running(k) /\ Running(l) /\ WorktreeOf[k] = WorktreeOf[l] => k = l

\* A live provider's run holds its lease: the worktree is not given away, the
\* task not closed or replaced, while something writes to it.
WriterHoldsLease ==
  \A l \in Launchers : Running(l) =>
    /\ sess[l] = sessionId /\ taskActive
    /\ runs[Run(l)] # None /\ runs[Run(l)].by = l

\* "Retrying a launch cannot spawn a second provider even after the bounded
\* operation ledger rotates" (docs/architecture.md:110).
SpawnedOnce ==
  \A k, l \in Launchers :
    provider[k] # "none" /\ provider[l] # "none" /\ Run(k) = Run(l) => k = l

\* The leases are exactly those of the runs that have not ended, one for a
\* worktree, all of the current session, none of them left in a closed task.
LeasesMatchHistory ==
  /\ \A r \in RunIds :
       r \in Leased <=> agentHistory[r] # None /\ ~Ended(r)
  /\ \A r \in Leased :
       /\ r[1] = sessionId /\ taskActive
       /\ runs[r].by = agentHistory[r].by
       /\ runs[r].seq <= agentHistory[r].seq
  /\ \A q, r \in Leased :
       WorktreeOf[runs[q].by] = WorktreeOf[runs[r].by] => q = r

\* However many of launcher, daemon, reconcile and recover try to end a run,
\* the first decides; within its session the run stays in the history, and
\* "an update with an older sequence is ignored" (docs/state-and-events.md:134).
EndsOnce ==
  [][\A r \in RunIds :
       agentHistory[r] # None /\ sessionId' = sessionId =>
         /\ agentHistory'[r] # None
         /\ Ended(r) => agentHistory'[r].endedBy = agentHistory[r].endedBy
         /\ agentHistory'[r].seq >= agentHistory[r].seq]_vars

\* No observation, however late, revives a stopping or orphaned lease; a lease
\* that is gone does not come back.
NoRevival ==
  [][\A r \in RunIds :
       /\ runs[r] # None /\ runs'[r] # None =>
            /\ runs[r].status \in {"stopping", "orphaned"} =>
                 runs'[r].status \in {"stopping", "orphaned"}
            /\ runs'[r].seq >= runs[r].seq
       /\ runs[r] = None /\ runs'[r] # None => agentHistory[r] = None]_vars

\* When the provider is gone and no launcher died, the run ends or, where updates
\* failed, is left to recovery: never a claim that looks alive.
ExitSettles ==
  \A l \in Launchers :
    provider[l] = "gone"
      ~> \/ sess[l] # sessionId
         \/ runs[Run(l)] = None
         \/ runs[Run(l)].status = "orphaned"
         \/ crashes > 0

-----------------------------------------------------------------------------
(* Why a worktree has one writer: the inductive invariant, for a user who  *)
(* recovers a run only when its launcher is gone too, and processes that   *)
(* agree on the boot they run in.                                          *)

\* l went through prepareRun's insertion.
Inserted(l) ==
  \/ pc[l] \in {"inserted", "started", "orphaning"}
  \/ provider[l] # "none"

\* The lease of l's run stands, and is l's.
Claims(l) ==
  /\ sess[l] = sessionId /\ taskActive
  /\ runs[Run(l)] # None /\ runs[Run(l)].by = l

\* A history entry is its launcher's, of this session, for good.
HistoryOwned ==
  /\ \A r \in RunIds : agentHistory[r] # None =>
       /\ r[1] = sessionId /\ Run(agentHistory[r].by) = r
       /\ pc[agentHistory[r].by] \notin {"idle", "prepared"}
  /\ \A l \in Launchers :
       /\ sess[l] <= sessionId
       /\ Inserted(l) /\ sess[l] = sessionId =>
            agentHistory[Run(l)] # None /\ agentHistory[Run(l)].by = l

\* Nothing is finalized from outside before its process tree is gone.
TreeGone ==
  /\ \A t \in Terminals :
       /\ pc[t] = "gone" => ~Running(t)
       /\ term[t] = "exited" => pc[t] = "gone"
       /\ syncing[t] # None /\ syncing[t].status = "exited" => pc[t] = "gone"
  /\ \A c \in reconciler.candidates : pc[c.terminal] = "gone"

\* The lease of an earlier boot: nobody is there any more.
EarlierBootGone ==
  \A r \in Leased : runs[r].boot # boot => pc[runs[r].by] = "gone"

\* A launcher has its provider started once, after the insertion; from the
\* insertion until the provider is gone the claim stands.
Placed(l) ==
  /\ pc[l] \in {"idle", "prepared", "inserted"} => provider[l] = "none"
  /\ provider[l] = "none" => pc[l] \notin {"started", "orphaning"}
  /\ Running(l) => pc[l] \in {"started", "gone"}
  /\ pc[l] = "inserted" \/ Running(l) => Claims(l)

\* The inductive invariant.
WriterInv ==
  /\ TypeOK
  /\ LeasesMatchHistory
  /\ HistoryOwned
  /\ TreeGone
  /\ EarlierBootGone
  /\ SpawnedOnce
  /\ \A l \in Launchers : Placed(l)

-----------------------------------------------------------------------------
(* What the documentation says and the code does not do.                   *)

\* "Monotonic daemon-owned active runtime, and stale-observation rejection"
\* (docs/changelog.md:197-198): no observation puts the lifecycle of a run that
\* its launcher or the daemon has finalized back to an unfinished state.
FinalizedStaysClosed ==
  \A r \in RunIds :
    Ended(r) /\ agentHistory[r].endedBy # "recover" =>
      agentHistory[r].life = "closed"

=============================================================================
