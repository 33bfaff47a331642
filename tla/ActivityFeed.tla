---------------------------- MODULE ActivityFeed ----------------------------
(***************************************************************************)
(* The files of the repositories' states, with the archive of their        *)
(* finished tasks, and the activity feed that all repositories share.  A   *)
(* process updates the state of its repository under the repository lock,  *)
(* and publishes it, as it was when the lock was released, under the       *)
(* activity lock.  While a repository has sessions to show, its process    *)
(* publishes the current state from a timer as well.  A process may die    *)
(* between any two writes; its locks are then reclaimed (module DirLock).  *)
(***************************************************************************)
EXTENDS Integers, Sequences, SequencesExt

CONSTANTS
  Procs,        \* processes
  Projects,     \* repositories
  ProjectOf,    \* the repository a process works in
  None,         \* no file, no process
  SourceLimit,  \* ACTIVITY_PROJECT_LIMIT
  MaxUpdates,   \* bound: updates of each repository
  Mortals       \* bound: the processes that may die

\* A state: its revision (the number of updates so far), its task and the revision
\* that the task began with, whether the task is done, and whether there are
\* sessions to show.
State == [revision : Nat, task : Nat, begun : Nat, done : BOOLEAN,
          sessions : {"none", "some", "ended"}]

\* A publication follows an update, or comes from the timer.
Kinds == {"sync", "beat"}

ASSUME FeedAssumption ==
  /\ ProjectOf \in [Procs -> Projects] /\ IsFiniteSet(Projects)
  /\ None \notin Procs \cup State \cup (Procs \X Kinds)
  /\ SourceLimit \in Nat \ {0} /\ MaxUpdates \in [Projects -> Nat]

VARIABLES
  alive,       \* processes that have not ended
  state,       \* repository -> state.json
  archive,     \* repository -> task -> its archived state
  writer,      \* repository -> the process with the repository lock
  step,        \* process -> "idle", or "written": its temporary file is there
  written,     \* process -> the state it writes, and then publishes
  sync, beat,  \* process -> publication under way, after an update and by timer
  timers,      \* processes whose timer runs
  publisher,   \* who has the activity lock
  dropped,     \* repositories whose source files the publisher still removes
  projection,  \* repository -> its source file
  sources,     \* the registry of sources, newest first
  feed         \* repository -> what activity.json shows of it

files == <<state, archive>>
publications == <<projection, sources, dropped, feed>>
vars == <<alive, files, writer, step, written, sync, beat, timers, publisher,
          publications>>

\* At first there is the finished task of an earlier session.
FirstState ==
  [revision |-> 0, task |-> 1, begun |-> 0, done |-> TRUE, sessions |-> "none"]

NoJob == [at |-> "no", state |-> None]

Init ==
  /\ alive = Procs
  /\ state = [j \in Projects |-> FirstState]
  /\ archive = [j \in Projects |-> <<>>]
  /\ writer = [j \in Projects |-> None]
  /\ step = [p \in Procs |-> "idle"]
  /\ written = [p \in Procs |-> None]
  /\ sync = [p \in Procs |-> NoJob] /\ beat = [p \in Procs |-> NoJob]
  /\ timers = {}
  /\ publisher = None
  /\ projection = [j \in Projects |-> None]
  /\ sources = None /\ dropped = {}
  /\ feed = [j \in Projects |-> None]

-----------------------------------------------------------------------------
(* Updates of the state.                                                   *)

\* What a mutation makes of a state: a run starts, as long as the task is not
\* finished, or ends; the task is finished once no run is live.
Mutations(s) ==
  {[s EXCEPT !.revision = @ + 1, !.sessions = IF @ = "some" THEN "ended" ELSE @]}
  \cup (IF s.done THEN {} ELSE {[s EXCEPT !.revision = @ + 1, !.sessions = "some"]})
  \cup (IF s.sessions = "some" THEN {} ELSE {[s EXCEPT !.revision = @ + 1, !.done = TRUE]})

NextTask(s) ==
  [revision |-> s.revision + 1, task |-> s.task + 1, begun |-> s.revision + 1,
   done |-> FALSE, sessions |-> "none"]

\* Fault: an archive of the task that exists is kept.
ArchivedOnce(tasks, s) == IF Len(tasks) >= s.task THEN tasks ELSE Append(tasks, s)

\* archiveState, whose file is renamed into place as well: an archive that a dead
\* process made of the same task is replaced.
Archived(tasks, s) == SubSeq(tasks, 1, s.task - 1) \o <<s>>

\* updateState and replaceState, under the repository lock: the next state is made
\* and written to a temporary file; a task that is replaced is archived before.
Begin(p) ==
  LET j == ProjectOf[p] IN
  /\ p \in alive /\ step[p] = "idle" /\ sync[p] = NoJob
  /\ writer[j] \notin alive /\ state[j].revision < MaxUpdates[j]
  /\ \/ /\ \E s \in Mutations(state[j]) : written' = [written EXCEPT ![p] = s]
        /\ UNCHANGED archive
     \/ /\ state[j].done
        /\ archive' = [archive EXCEPT ![j] = Archived(@, state[j])]
        /\ written' = [written EXCEPT ![p] = NextTask(state[j])]
  /\ writer' = [writer EXCEPT ![j] = p]
  /\ step' = [step EXCEPT ![p] = "written"]
  /\ UNCHANGED <<alive, state, sync, beat, timers, publisher, publications>>

\* hasPublishableSessions: sessions that have ended are shown for a while.
Publishable(s, r) == s.sessions # "ended" => r = (s.sessions = "some")

\* The file is renamed into place, the lock released; syncActivity begins with
\* updateHeartbeat.
Commit(p) ==
  LET j == ProjectOf[p] IN
  /\ p \in alive /\ step[p] = "written"
  /\ state' = [state EXCEPT ![j] = written[p]]
  /\ writer' = [writer EXCEPT ![j] = None]
  /\ sync' = [sync EXCEPT ![p] = [at |-> "wait", state |-> written[p]]]
  /\ \E r \in BOOLEAN :
       /\ Publishable(written[p], r)
       /\ timers' = IF r THEN timers \cup {p} ELSE timers \ {p}
  /\ step' = [step EXCEPT ![p] = "idle"]
  /\ written' = [written EXCEPT ![p] = None]
  /\ UNCHANGED <<alive, archive, beat, publisher, publications>>

-----------------------------------------------------------------------------
(* Publications.                                                           *)

\* Fault: the timer publishes the state of which the process knows.
StateForBeatKept(p) == IF feed[ProjectOf[p]] # None THEN feed[ProjectOf[p]]
                       ELSE state[ProjectOf[p]]

\* publishHeartbeat reads the state.
StateForBeat(p) == state[ProjectOf[p]]

Beat(p) ==
  /\ p \in alive /\ p \in timers /\ beat[p] = NoJob
  /\ beat' = [beat EXCEPT ![p] = [at |-> "wait", state |-> StateForBeat(p)]]
  /\ UNCHANGED <<alive, files, writer, step, written, sync, timers, publisher,
                 publications>>

\* A publication of p, after an update or by timer, goes from one step to the next.
Goes(p, kind, from, job) ==
  \/ kind = "sync" /\ sync[p].at = from /\ sync' = [sync EXCEPT ![p] = job]
     /\ UNCHANGED beat
  \/ kind = "beat" /\ beat[p].at = from /\ beat' = [beat EXCEPT ![p] = job]
     /\ UNCHANGED sync

Job(p, kind) == IF kind = "sync" THEN sync[p] ELSE beat[p]

Advance(p, kind, from, to) ==
  /\ p \in alive /\ publisher = <<p, kind>>
  /\ Goes(p, kind, from, IF to = "no" THEN NoJob ELSE [Job(p, kind) EXCEPT !.at = to])
  /\ UNCHANGED <<alive, files, writer, step, written>>

ActivityHeld == publisher # None /\ publisher[1] \in alive

\* publishLocked, under the activity lock, writes the repository's source file,
WriteProjection(p, kind) ==
  /\ p \in alive /\ ~ActivityHeld /\ publisher' = <<p, kind>>
  /\ Goes(p, kind, "wait", [Job(p, kind) EXCEPT !.at = "register"])
  /\ projection' = [projection EXCEPT ![ProjectOf[p]] = Job(p, kind).state]
  /\ UNCHANGED <<alive, files, writer, step, written, timers, sources, dropped, feed>>

\* the registry, which is rebuilt from the source files when there is none (an entry
\* for each repository, ACTIVITY_PROJECT_LIMIT at most),
Bounded(entries) ==
  SubSeq(entries, 1, IF Len(entries) > SourceLimit THEN SourceLimit ELSE Len(entries))

Registry ==
  IF sources # None THEN sources
  ELSE Bounded(SetToSeq({j \in Projects : projection[j] # None}))

\* Fault: the files of all the sources that were registered are removed.
DroppedAll(entries) == ToSet(Registry)

Dropped(entries) == ToSet(Registry) \ ToSet(entries)

WriteRegistry(p, kind) ==
  LET j == ProjectOf[p]
      entries == Bounded(<<j>> \o RemoveFirst(Registry, j))
  IN
  /\ Advance(p, kind, "register", "remove")
  /\ sources' = entries /\ dropped' = Dropped(entries)
  /\ UNCHANGED <<timers, publisher, projection, feed>>

\* removes the source files of repositories that have dropped out of it,
RemoveSources(p, kind) ==
  /\ Advance(p, kind, "remove", "show")
  /\ projection' = [j \in Projects |-> IF j \in dropped THEN None ELSE projection[j]]
  /\ dropped' = {}
  /\ UNCHANGED <<timers, publisher, sources, feed>>

\* and writes the feed from the registered ones.  The lock is released; a timer
\* whose state had nothing to show is stopped.
WriteFeed(p, kind) ==
  /\ Advance(p, kind, "show", "no")
  /\ feed' = [j \in Projects |-> IF j \in ToSet(sources) THEN projection[j] ELSE None]
  /\ publisher' = None
  /\ \E r \in BOOLEAN :
       /\ kind = "beat" => Publishable(beat[p].state, r)
       /\ timers' = IF kind = "beat" /\ ~r THEN timers \ {p} ELSE timers
  /\ UNCHANGED <<projection, sources, dropped>>

\* An update whose publication does not get the activity lock in time is not
\* published.
GiveUp(p) ==
  /\ p \in alive /\ sync[p].at = "wait" /\ ActivityHeld
  /\ sync' = [sync EXCEPT ![p] = NoJob]
  /\ UNCHANGED <<alive, files, writer, step, written, beat, timers, publisher,
                 publications>>

-----------------------------------------------------------------------------

\* A process ends or dies: its timer with it.  Its locks stay until they are
\* reclaimed.
Die(p) ==
  /\ p \in alive \cap Mortals /\ alive' = alive \ {p}
  /\ timers' = timers \ {p}
  /\ step' = [step EXCEPT ![p] = "idle"] /\ written' = [written EXCEPT ![p] = None]
  /\ sync' = [sync EXCEPT ![p] = NoJob] /\ beat' = [beat EXCEPT ![p] = NoJob]
  /\ UNCHANGED <<files, writer, publisher, publications>>

Publish(p, kind) ==
  \/ WriteProjection(p, kind) \/ WriteRegistry(p, kind) \/ RemoveSources(p, kind)
  \/ WriteFeed(p, kind)

Next ==
  \E p \in Procs :
    \/ Begin(p) \/ Commit(p) \/ Beat(p) \/ GiveUp(p) \/ Die(p)
    \/ \E kind \in Kinds : Publish(p, kind)

Spec == Init /\ [][Next]_vars

\* A process that is alive goes on, and so does its timer; one that waits for the
\* activity lock with its publications gets it in the end (it tries for five seconds
\* each time, at random intervals).
FairSpec ==
  /\ Spec
  /\ \A p \in Procs :
       /\ WF_vars(Commit(p)) /\ WF_vars(Beat(p))
       /\ SF_vars(Publish(p, "sync") \/ Publish(p, "beat"))

-----------------------------------------------------------------------------
(* Properties.                                                             *)

\* Every task but the current one is in the archive, done, and as it was last: no
\* death of a process between the archiving and the replacement loses or dates it.
TasksArchived ==
  \A j \in Projects : \A k \in 1..(state[j].task - 1) :
    /\ k \in DOMAIN archive[j] /\ archive[j][k].task = k /\ archive[j][k].done
    /\ LET after == IF k + 1 = state[j].task THEN state[j].begun
                    ELSE archive[j][k + 1].begun
       IN  archive[j][k].revision = after - 1

\* Every registered source has its file, at every moment at which a process may die
\* (publishLocked: written before it is registered, removed after).
SourcesHaveFiles ==
  sources # None => \A i \in 1..Len(sources) : projection[sources[i]] # None

\* Publications may overtake each other, so that the feed shows an older state than
\* it did; while a timer of the repository runs, the feed shows the latest one again
\* and again.
FeedCatchesUp ==
  \A p \in Procs :
    <>[](p \in timers) => []<>(feed[ProjectOf[p]] = state[ProjectOf[p]])

=============================================================================
