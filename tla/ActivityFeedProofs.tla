------------------------- MODULE ActivityFeedProofs -------------------------
(***************************************************************************)
(* Proofs about ActivityFeed: no task is lost from the archive, and no     *)
(* registered source is without its file, whoever dies at whatever point.  *)
(* Every process and every repository may die and update without bound:    *)
(* the proofs use neither Mortals nor MaxUpdates.                          *)
(***************************************************************************)
EXTENDS ActivityFeed, SequenceTheorems, FiniteSetTheorems, TLAPS

-----------------------------------------------------------------------------
(* The inductive invariant.                                                *)

\* States and their archive, and who writes them.
FilesType ==
  /\ alive \in SUBSET Procs
  /\ state \in [Projects -> State]
  /\ archive \in [Projects -> Seq(State)]
  /\ writer \in [Projects -> Procs \cup {None}]
  /\ step \in [Procs -> {"idle", "written"}]
  /\ written \in [Procs -> State \cup {None}]

\* A task that is over, in an archive of which the next task began with after.
Closed(tasks, k, after) ==
  /\ tasks[k].task = k /\ tasks[k].done
  /\ tasks[k].revision = after - 1

\* The archive has every task but the current one, and the current one perhaps: a
\* process that died had archived it and not replaced it.
Dated(j) ==
  /\ state[j].task >= 1
  /\ Len(archive[j]) \in {state[j].task - 1, state[j].task}
  /\ \A k \in 1..(state[j].task - 1) :
       Closed(archive[j], k, IF k + 1 = state[j].task THEN state[j].begun
                             ELSE archive[j][k + 1].begun)

\* What a process with a temporary file is about: a mutation of the task, or the
\* next task, when the archive has the current one as it is.
AtWork(p) ==
  LET j == ProjectOf[p] IN
  /\ p \in alive /\ writer[j] = p /\ written[p] \in State
  /\ \/ written[p].task = state[j].task /\ written[p].begun = state[j].begun
     \/ /\ written[p] = NextTask(state[j]) /\ state[j].done
        /\ Len(archive[j]) = state[j].task /\ archive[j][state[j].task] = state[j]

ArchiveInv ==
  /\ FilesType
  /\ \A j \in Projects : Dated(j)
  /\ \A p \in Procs : step[p] = "written" => AtWork(p)

JobType == [at : {"no", "wait", "register", "remove", "show"}, state : State \cup {None}]

FeedType ==
  /\ sync \in [Procs -> JobType] /\ beat \in [Procs -> JobType]
  /\ publisher \in (Procs \X Kinds) \cup {None}
  /\ projection \in [Projects -> State \cup {None}]
  /\ dropped \in SUBSET Projects

\* A publication that has begun has the activity lock; the source file is there when
\* the repository is registered.
UnderLock(p, kind) ==
  LET job == Job(p, kind) IN
  /\ job.at # "no" => job.state \in State
  /\ job.at \in {"register", "remove", "show"} => publisher = <<p, kind>> /\ p \in alive
  /\ job.at = "register" => projection[ProjectOf[p]] # None

\* The registered sources are repositories, each registered once, and have files that
\* are not to be removed, even if the publisher dies.
Registered ==
  sources # None =>
    /\ sources \in Seq(Projects) /\ Len(sources) <= SourceLimit
    /\ \A i, k \in 1..Len(sources) : sources[i] = sources[k] => i = k
    /\ \A i \in 1..Len(sources) : projection[sources[i]] # None /\ sources[i] \notin dropped

FeedInv ==
  /\ FeedType
  /\ \A p \in Procs, kind \in Kinds : UnderLock(p, kind)
  /\ Registered

-----------------------------------------------------------------------------
(* The archive.                                                            *)

\* What archiveState leaves: the earlier tasks as they were, and s for its task.
LEMMA ArchivedProperties ==
  ASSUME NEW tasks \in Seq(State), NEW s \in State, s.task >= 1,
         Len(tasks) \in {s.task - 1, s.task}
  PROVE  /\ Archived(tasks, s) \in Seq(State)
         /\ Len(Archived(tasks, s)) = s.task /\ Archived(tasks, s)[s.task] = s
         /\ \A k \in 1..(s.task - 1) : Archived(tasks, s)[k] = tasks[k]
<1> DEFINE earlier == SubSeq(tasks, 1, s.task - 1)
<1>1. s.task \in Nat /\ Len(tasks) \in Nat
  BY LenProperties DEF State
<1>2. /\ earlier \in Seq(State) /\ Len(earlier) = s.task - 1
      /\ \A k \in 1..(s.task - 1) : earlier[k] = tasks[k]
  BY <1>1, SubSeqProperties
<1>3. <<s>> \in Seq(State) /\ Len(<<s>>) = 1 /\ <<s>>[1] = s
  OBVIOUS
<1> HIDE DEF earlier
<1>4. /\ earlier \o <<s>> \in Seq(State) /\ Len(earlier \o <<s>>) = s.task
      /\ \A k \in 1..s.task :
           (earlier \o <<s>>)[k] = IF k <= s.task - 1 THEN earlier[k]
                                   ELSE <<s>>[k - (s.task - 1)]
  BY <1>1, <1>2, <1>3, ConcatProperties
<1>5. Archived(tasks, s) = earlier \o <<s>>
  BY DEF Archived, earlier
<1> QED BY <1>1, <1>2, <1>3, <1>4, <1>5

LEMMA MutationKeepsTask ==
  ASSUME NEW s \in State, NEW t \in Mutations(s)
  PROVE  t \in State /\ t.task = s.task /\ t.begun = s.begun
<1>1. \/ t = [s EXCEPT !.revision = @ + 1, !.sessions = IF @ = "some" THEN "ended" ELSE @]
      \/ t = [s EXCEPT !.revision = @ + 1, !.sessions = "some"]
      \/ t = [s EXCEPT !.revision = @ + 1, !.done = TRUE]
  BY DEF Mutations
<1>2. s.revision + 1 \in Nat
  BY DEF State
<1> QED BY <1>1, <1>2 DEF State

LEMMA NextTaskType ==
  ASSUME NEW s \in State
  PROVE  /\ NextTask(s) \in State
         /\ NextTask(s).task = s.task + 1 /\ NextTask(s).begun = s.revision + 1
BY DEF NextTask, State

\* Steps that leave the repository's files, and the processes at work, as they were.
LEMMA ArchiveKept ==
  ASSUME ArchiveInv, UNCHANGED <<files, writer>>, alive' \in SUBSET Procs,
         step' \in [Procs -> {"idle", "written"}],
         written' \in [Procs -> State \cup {None}],
         \A p \in Procs : step'[p] = "written" =>
           step[p] = "written" /\ written'[p] = written[p] /\ (p \in alive => p \in alive')
  PROVE  ArchiveInv'
<1>1. FilesType'
  BY DEF ArchiveInv, FilesType, files
<1>2. ASSUME NEW j \in Projects PROVE Dated(j)'
  BY DEF ArchiveInv, Dated, Closed, files
<1>3. ASSUME NEW p \in Procs, step'[p] = "written" PROVE AtWork(p)'
  BY <1>3 DEF ArchiveInv, AtWork, files
<1> QED BY <1>1, <1>2, <1>3 DEF ArchiveInv

LEMMA ArchiveInit ==
  ASSUME Init PROVE ArchiveInv
<1>1. FirstState \in State
  BY DEF FirstState, State
<1>2. FilesType
  BY <1>1, EmptySeq DEF Init, FilesType
<1>3. ASSUME NEW j \in Projects PROVE Dated(j)
  BY EmptySeq DEF Init, Dated, FirstState
<1> QED BY <1>2, <1>3 DEF ArchiveInv, Init

\* Nobody else is at work in the repository whose lock is taken.
LEMMA ArchiveBegin ==
  ASSUME ArchiveInv, NEW p \in Procs, Begin(p) PROVE ArchiveInv'
<1> DEFINE j == ProjectOf[p]
           s == state[j]
<1>1. j \in Projects /\ s \in State /\ Dated(j) /\ archive[j] \in Seq(State) /\ s.task \in Nat
  BY FeedAssumption DEF ArchiveInv, FilesType, State
<1>2. /\ p \in alive /\ writer[j] \notin alive /\ state' = state /\ alive' = alive
      /\ writer' = [writer EXCEPT ![j] = p] /\ step' = [step EXCEPT ![p] = "written"]
  BY DEF Begin
<1>3. \/ /\ \E t \in Mutations(s) : written' = [written EXCEPT ![p] = t]
         /\ archive' = archive
      \/ /\ s.done /\ archive' = [archive EXCEPT ![j] = Archived(@, s)]
         /\ written' = [written EXCEPT ![p] = NextTask(s)]
  BY DEF Begin
<1>4. FilesType /\ \A q \in Procs : q # p /\ ProjectOf[q] = j => step[q] # "written"
  BY <1>2 DEF ArchiveInv, AtWork
<1>5. /\ s.task >= 1 /\ Len(archive[j]) \in {s.task - 1, s.task}
      /\ \A k \in 1..(s.task - 1) :
           Closed(archive[j], k, IF k + 1 = s.task THEN s.begun
                                 ELSE archive[j][k + 1].begun)
  BY <1>1 DEF Dated
<1>6. /\ Archived(archive[j], s) \in Seq(State) /\ Len(Archived(archive[j], s)) = s.task
      /\ Archived(archive[j], s)[s.task] = s
      /\ \A k \in 1..(s.task - 1) : Archived(archive[j], s)[k] = archive[j][k]
  BY <1>1, <1>5, ArchivedProperties
<1>7. NextTask(s) \in State
  BY <1>1, NextTaskType
<1>8. \A t \in Mutations(s) : t \in State /\ t.task = s.task /\ t.begun = s.begun
  BY <1>1, MutationKeepsTask
<1>9. FilesType'
  <2>1. alive' \in SUBSET Procs /\ state' \in [Projects -> State]
    BY <1>2, <1>4 DEF FilesType
  <2>2. writer' \in [Projects -> Procs \cup {None}] /\ step' \in [Procs -> {"idle", "written"}]
    BY <1>2, <1>4 DEF FilesType
  <2>3. written' \in [Procs -> State \cup {None}]
    BY <1>3, <1>4, <1>7, <1>8 DEF FilesType
  <2>4. archive' \in [Projects -> Seq(State)]
    BY <1>3, <1>4, <1>6 DEF FilesType
  <2> QED BY <2>1, <2>2, <2>3, <2>4 DEF FilesType
<1>10. ASSUME NEW i \in Projects PROVE Dated(i)'
  <2>1. archive'[i] = archive[i] \/ (i = j /\ archive'[i] = Archived(archive[j], s))
    <3>1. archive' = archive \/ archive' = [archive EXCEPT ![j] = Archived(archive[j], s)]
      BY <1>3
    <3>2. archive \in [Projects -> Seq(State)]
      BY <1>4 DEF FilesType
    <3> HIDE DEF j, s
    <3> QED BY <3>1, <3>2
  <2>2. CASE archive'[i] = archive[i]
    BY <1>2, <2>2 DEF ArchiveInv, Dated, Closed
  <2>3. CASE i = j /\ archive'[i] = Archived(archive[j], s)
    <3> DEFINE a == Archived(archive[j], s)
    <3>1. ASSUME NEW k \in 1..(s.task - 1)
          PROVE  Closed(a, k, IF k + 1 = s.task THEN s.begun ELSE a[k + 1].begun)
      <4>1. a[k] = archive[j][k] /\ (k + 1 # s.task => a[k + 1] = archive[j][k + 1])
        <5>1. k + 1 # s.task => k + 1 \in 1..(s.task - 1)
          BY <1>1
        <5> QED BY <1>6, <5>1
      <4> QED BY <1>5, <4>1 DEF Closed
    <3>2. Len(a) = s.task
      BY <1>6
    <3>3. state'[i] = s /\ archive'[i] = a
      BY <1>2, <2>3
    <3> HIDE DEF a, s
    <3> QED BY <1>5, <3>1, <3>2, <3>3 DEF Dated, Closed
  <2> QED BY <2>1, <2>2, <2>3
<1>11. AtWork(p)'
  <2>1. p \in alive' /\ writer'[j] = p
    BY <1>1, <1>2, <1>4 DEF FilesType
  <2>2. CASE \E t \in Mutations(s) : written' = [written EXCEPT ![p] = t]
    BY <1>2, <1>4, <1>8, <2>1, <2>2 DEF AtWork, FilesType
  <2>3. CASE /\ s.done /\ archive' = [archive EXCEPT ![j] = Archived(@, s)]
             /\ written' = [written EXCEPT ![p] = NextTask(s)]
    <3>1. written'[p] = NextTask(s) /\ archive'[j] = Archived(archive[j], s)
      BY <1>1, <1>4, <2>3 DEF FilesType
    <3> QED BY <1>2, <1>6, <1>7, <2>1, <2>3, <3>1 DEF AtWork
  <2> QED BY <1>3, <2>2, <2>3
<1>12. ASSUME NEW q \in Procs, step'[q] = "written", q # p PROVE AtWork(q)'
  <2>1. step[q] = "written" /\ AtWork(q) /\ ProjectOf[q] # j
    BY <1>2, <1>4, <1>12 DEF FilesType, ArchiveInv
  <2>2. written'[q] = written[q] /\ ProjectOf[q] \in Projects
    BY <1>3, <1>4, <1>12, FeedAssumption DEF FilesType
  <2>3. archive'[ProjectOf[q]] = archive[ProjectOf[q]] /\ writer'[ProjectOf[q]] = writer[ProjectOf[q]]
    BY <1>2, <1>3, <1>4, <2>1, <2>2 DEF FilesType
  <2> QED BY <1>2, <2>1, <2>2, <2>3 DEF AtWork
<1> QED BY <1>9, <1>10, <1>11, <1>12 DEF ArchiveInv

\* The task that is replaced is the archive's last, as it was when it was archived.
LEMMA ArchiveCommit ==
  ASSUME ArchiveInv, NEW p \in Procs, Commit(p) PROVE ArchiveInv'
<1> DEFINE j == ProjectOf[p]
           s == state[j]
           t == written[p]
<1>1. /\ j \in Projects /\ s \in State /\ s.task \in Nat /\ Dated(j) /\ AtWork(p)
      /\ archive[j] \in Seq(State)
  BY FeedAssumption DEF ArchiveInv, FilesType, State, Commit
<1>2. /\ state' = [state EXCEPT ![j] = t] /\ writer' = [writer EXCEPT ![j] = None]
      /\ step' = [step EXCEPT ![p] = "idle"] /\ written' = [written EXCEPT ![p] = None]
      /\ archive' = archive /\ alive' = alive
  BY DEF Commit
<1>3. t \in State /\ writer[j] = p /\ FilesType
  BY <1>1 DEF AtWork, ArchiveInv
<1>4. FilesType'
  BY <1>2, <1>3 DEF FilesType
<1>5. Dated(j)'
  <2>1. state'[j] = t /\ archive'[j] = archive[j]
    BY <1>1, <1>2, <1>3 DEF FilesType
  <2>2. CASE t.task = s.task /\ t.begun = s.begun
    BY <1>1, <2>1, <2>2 DEF Dated, Closed
  <2>3. CASE t = NextTask(s) /\ s.done /\ Len(archive[j]) = s.task /\ archive[j][s.task] = s
    <3>1. t.task = s.task + 1 /\ t.begun = s.revision + 1
      BY <1>1, <2>3, NextTaskType
    <3>2. ASSUME NEW k \in 1..s.task
          PROVE  Closed(archive[j], k, IF k + 1 = t.task THEN t.begun
                                       ELSE archive[j][k + 1].begun)
      <4>1. CASE k = s.task
        <5>1. archive[j][k] = s /\ k + 1 = t.task /\ s.revision = t.begun - 1
          BY <1>1, <2>3, <3>1, <4>1 DEF State
        <5> QED BY <2>3, <4>1, <5>1 DEF Closed
      <4>2. CASE k # s.task
        <5>1. k \in 1..(s.task - 1) /\ k + 1 # t.task
          BY <1>1, <3>1, <4>2
        <5>2. Closed(archive[j], k, IF k + 1 = s.task THEN s.begun
                                    ELSE archive[j][k + 1].begun)
          BY <1>1, <5>1 DEF Dated
        <5>3. k + 1 = s.task => archive[j][k + 1].begun = s.begun
          BY <2>3
        <5> QED BY <5>1, <5>2, <5>3
      <4> QED BY <4>1, <4>2
    <3>3. t.task - 1 = s.task /\ t.task >= 1
      BY <1>1, <3>1
    <3> HIDE DEF s, t
    <3> QED BY <2>1, <2>3, <3>2, <3>3 DEF Dated, Closed
  <2> QED BY <1>1, <2>2, <2>3 DEF AtWork
<1>6. ASSUME NEW i \in Projects, i # j PROVE Dated(i)'
  <2>1. state'[i] = state[i] /\ archive'[i] = archive[i] /\ Dated(i)
    BY <1>2, <1>3, <1>6 DEF ArchiveInv, FilesType
  <2> QED BY <2>1 DEF Dated, Closed
<1>7. ASSUME NEW q \in Procs, step'[q] = "written" PROVE AtWork(q)'
  <2>1. q # p /\ step[q] = "written" /\ AtWork(q)
    BY <1>2, <1>3, <1>7 DEF FilesType, ArchiveInv
  <2>2. ProjectOf[q] # j /\ ProjectOf[q] \in Projects
    BY <1>3, <2>1, FeedAssumption DEF AtWork
  <2>3. /\ written'[q] = written[q] /\ state'[ProjectOf[q]] = state[ProjectOf[q]]
        /\ writer'[ProjectOf[q]] = writer[ProjectOf[q]]
    BY <1>2, <1>3, <2>1, <2>2 DEF FilesType
  <2> QED BY <1>2, <2>1, <2>3 DEF AtWork
<1> QED BY <1>4, <1>5, <1>6, <1>7 DEF ArchiveInv

LEMMA ArchiveStep ==
  ASSUME ArchiveInv, [Next]_vars PROVE ArchiveInv'
<1>1. FilesType
  BY DEF ArchiveInv
<1>2. CASE UNCHANGED vars
  BY <1>1, <1>2, ArchiveKept DEF vars, FilesType
<1>3. ASSUME NEW p \in Procs, Die(p) PROVE ArchiveInv'
  <2>1. /\ alive' = alive \ {p} /\ step' = [step EXCEPT ![p] = "idle"]
        /\ written' = [written EXCEPT ![p] = None] /\ UNCHANGED <<files, writer>>
    BY <1>3 DEF Die
  <2>2. \A q \in Procs : step'[q] = "written" => q # p
    BY <1>1, <2>1 DEF FilesType
  <2> QED BY <1>1, <2>1, <2>2, ArchiveKept DEF FilesType
<1>4. ASSUME NEW p \in Procs, NEW kind \in Kinds, Beat(p) \/ GiveUp(p) \/ Publish(p, kind)
      PROVE  ArchiveInv'
  <2>1. UNCHANGED <<alive, files, writer, step, written>>
    BY <1>4 DEF Beat, GiveUp, Publish, WriteProjection, WriteRegistry, RemoveSources,
                WriteFeed, Advance
  <2> QED BY <1>1, <2>1, ArchiveKept DEF FilesType
<1> QED BY <1>2, <1>3, <1>4, ArchiveBegin, ArchiveCommit DEF Next, Kinds

\* Every task but the current one is in the archive, finished, as it was last
\* (archiveState and replaceState), whoever dies between the archiving and the
\* replacement, and however many processes update the repository.
THEOREM TasksArchivedHolds == Spec => []TasksArchived
<1>1. ArchiveInv => TasksArchived
  <2> SUFFICES ASSUME ArchiveInv, NEW j \in Projects, NEW k \in 1..(state[j].task - 1)
               PROVE  /\ k \in DOMAIN archive[j] /\ archive[j][k].task = k /\ archive[j][k].done
                      /\ archive[j][k].revision =
                           (IF k + 1 = state[j].task THEN state[j].begun
                            ELSE archive[j][k + 1].begun) - 1
    BY DEF TasksArchived
  <2>1. archive[j] \in Seq(State) /\ state[j].task \in Nat /\ Dated(j)
    BY DEF ArchiveInv, FilesType, State
  <2>2. DOMAIN archive[j] = 1..Len(archive[j]) /\ k \in 1..Len(archive[j])
    BY <2>1 DEF Dated
  <2> QED BY <2>1, <2>2 DEF Dated, Closed
<1> QED BY <1>1, ArchiveInit, ArchiveStep, PTL DEF Spec

-----------------------------------------------------------------------------
(* The registry.                                                           *)

\* Repositories, each once.
Distinct(s) == \A i, k \in 1..Len(s) : s[i] = s[k] => i = k

\* The source files that are found make a registry.
LEMMA SetToSeqProperties ==
  ASSUME NEW S \in SUBSET Projects
  PROVE  /\ SetToSeq(S) \in Seq(Projects) /\ Distinct(SetToSeq(S))
         /\ \A i \in 1..Len(SetToSeq(S)) : SetToSeq(S)[i] \in S
<1> DEFINE n == Cardinality(S)
<1>1. IsFiniteSet(S)
  BY FeedAssumption, FS_Subset
<1>2. n \in Nat /\ ExistsBijection(1..n, S)
  BY <1>1, FS_CardinalityType
<1>3. \E f \in [1..n -> S] : IsInjective(f)
  BY <1>2 DEF ExistsBijection, Bijection, Injection
<1>4. SetToSeq(S) \in [1..n -> S] /\ IsInjective(SetToSeq(S))
  BY <1>3 DEF SetToSeq
<1>5. SetToSeq(S) \in Seq(S) /\ Len(SetToSeq(S)) = n /\ DOMAIN SetToSeq(S) = 1..n
  BY <1>2, <1>4, IsASeq
<1>6. SetToSeq(S) \in Seq(Projects)
  BY <1>5, SeqMonotonic
<1> QED BY <1>4, <1>5, <1>6 DEF IsInjective, Distinct

LEMMA BoundedProperties ==
  ASSUME NEW s \in Seq(Projects)
  PROVE  /\ Bounded(s) \in Seq(Projects) /\ Len(Bounded(s)) <= SourceLimit
         /\ Len(Bounded(s)) <= Len(s)
         /\ \A i \in 1..Len(Bounded(s)) : Bounded(s)[i] = s[i]
<1> DEFINE n == IF Len(s) > SourceLimit THEN SourceLimit ELSE Len(s)
<1>1. n \in Nat /\ n <= Len(s) /\ n <= SourceLimit /\ Len(s) \in Nat
  BY FeedAssumption, LenProperties
<1>2. \A i \in 1..n : s[i] \in Projects
  BY <1>1
<1>3. Bounded(s) = SubSeq(s, 1, n)
  BY DEF Bounded
<1> HIDE DEF n
<1>4. /\ SubSeq(s, 1, n) \in Seq(Projects) /\ Len(SubSeq(s, 1, n)) = n
      /\ \A i \in 1..n : SubSeq(s, 1, n)[i] = s[i]
  BY <1>1, <1>2, SubSeqProperties
<1> QED BY <1>1, <1>3, <1>4

\* With one entry for each repository, the removal of the first entry of j is the
\* removal of all of them.
LEMMA RemoveFirstProperties ==
  ASSUME NEW s \in Seq(Projects), Distinct(s), NEW j \in Projects
  PROVE  /\ RemoveFirst(s, j) \in Seq(Projects) /\ Distinct(RemoveFirst(s, j))
         /\ \A i \in 1..Len(RemoveFirst(s, j)) :
              RemoveFirst(s, j)[i] # j /\ \E k \in 1..Len(s) : RemoveFirst(s, j)[i] = s[k]
<1> DEFINE n == Len(s)
           u == RemoveFirst(s, j)
<1>1. n \in Nat /\ \A k \in 1..n : s[k] \in Projects
  BY LenProperties
<1>2. CASE ~ \E k \in 1..n : s[k] = j
  BY <1>2 DEF RemoveFirst
<1>3. ASSUME NEW m \in 1..n, s[m] = j PROVE u \in Seq(Projects) /\ Distinct(u)
        /\ \A i \in 1..Len(u) : u[i] # j /\ \E k \in 1..n : u[i] = s[k]
  <2> DEFINE a == SubSeq(s, 1, m - 1)
             b == SubSeq(s, m + 1, n)
  <2>1. {i \in 1..n : s[i] = j} = {m}
    BY <1>3 DEF Distinct
  <2>2. SelectInSeq(s, LAMBDA v : v = j) = m
    BY <1>1, <1>3, <2>1 DEF SelectInSeq, Min
  <2>3. u = a \o b
    BY <1>3, <2>2 DEF RemoveFirst, RemoveAt
  <2>4. a \in Seq(Projects) /\ Len(a) = m - 1 /\ \A i \in 1..(m - 1) : a[i] = s[i]
    BY <1>1, SubSeqProperties
  <2>5. b \in Seq(Projects) /\ Len(b) = n - m /\ \A i \in 1..(n - m) : b[i] = s[m + i]
    BY <1>1, SubSeqProperties
  <2> HIDE DEF a, b, u
  <2>6. /\ u \in Seq(Projects) /\ Len(u) = n - 1
        /\ \A i \in 1..(n - 1) : u[i] = IF i <= m - 1 THEN a[i] ELSE b[i - (m - 1)]
    <3>1. /\ a \o b \in Seq(Projects) /\ Len(a \o b) = Len(a) + Len(b)
          /\ \A i \in 1..Len(a) + Len(b) :
               (a \o b)[i] = IF i <= Len(a) THEN a[i] ELSE b[i - Len(a)]
      BY <2>4, <2>5, ConcatProperties
    <3> HIDE DEF n
    <3>2. Len(a) + Len(b) = n - 1
      BY <1>1, <2>4, <2>5
    <3> QED BY <2>3, <2>4, <3>1, <3>2
  <2> HIDE DEF n
  <2>7. \A i \in 1..(n - 1) : u[i] = IF i < m THEN s[i] ELSE s[i + 1]
    <3>1. ASSUME NEW i \in 1..(n - 1), i < m PROVE u[i] = s[i]
      BY <1>1, <2>4, <2>6, <3>1
    <3>2. ASSUME NEW i \in 1..(n - 1), i >= m PROVE u[i] = s[i + 1]
      <4>1. i - (m - 1) \in 1..(n - m) /\ m + (i - (m - 1)) = i + 1 /\ ~(i <= m - 1)
        BY <1>1, <3>2
      <4> QED BY <2>5, <2>6, <4>1
    <3> QED BY <1>1, <3>1, <3>2
  <2>8. ASSUME NEW i \in 1..(n - 1)
        PROVE  \E k \in 1..n : k = (IF i < m THEN i ELSE i + 1) /\ u[i] = s[k] /\ k # m
    BY <1>1, <2>7
  <2>9. Distinct(u)
    <3> SUFFICES ASSUME NEW i \in 1..(n - 1), NEW k \in 1..(n - 1), u[i] = u[k] PROVE i = k
      BY <2>6 DEF Distinct
    <3>1. (IF i < m THEN i ELSE i + 1) = (IF k < m THEN k ELSE k + 1)
      BY <2>8 DEF Distinct, n
    <3> QED BY <1>1, <3>1
  <2> QED BY SMTT(60), <1>3, <2>6, <2>8, <2>9 DEF Distinct, n
<1> QED BY <1>2, <1>3

LEMMA ToSetType ==
  ASSUME NEW s \in Seq(Projects)
  PROVE  /\ ToSet(s) \in SUBSET Projects
         /\ \A j : j \in ToSet(s) <=> \E i \in 1..Len(s) : s[i] = j
<1>1. DOMAIN s = 1..Len(s)
  BY LenProperties
<1> QED BY <1>1 DEF ToSet

\* The registry has files for its entries.
LEMMA RegistryProperties ==
  ASSUME FeedType, Registered
  PROVE  /\ Registry \in Seq(Projects) /\ Distinct(Registry)
         /\ \A i \in 1..Len(Registry) : projection[Registry[i]] # None
<1>1. CASE sources # None
  BY <1>1 DEF Registry, Registered, Distinct
<1>2. CASE sources = None
  <2> DEFINE S == {j \in Projects : projection[j] # None}
  <2>1. /\ SetToSeq(S) \in Seq(Projects) /\ Distinct(SetToSeq(S))
        /\ \A i \in 1..Len(SetToSeq(S)) : SetToSeq(S)[i] \in S
    BY SetToSeqProperties
  <2>2. Registry = Bounded(SetToSeq(S))
    BY <1>2 DEF Registry
  <2> HIDE DEF S
  <2>3. /\ Registry \in Seq(Projects) /\ Len(Registry) <= Len(SetToSeq(S))
        /\ \A i \in 1..Len(Registry) : Registry[i] = SetToSeq(S)[i]
    BY <2>1, <2>2, BoundedProperties
  <2>4. 1..Len(Registry) \subseteq 1..Len(SetToSeq(S))
    BY <2>1, <2>3, LenProperties
  <2>5. Distinct(Registry)
    BY <2>1, <2>3, <2>4 DEF Distinct
  <2> QED BY <2>1, <2>3, <2>4, <2>5 DEF S
<1> QED BY <1>1, <1>2

-----------------------------------------------------------------------------
(* The publications.                                                       *)

LEMMA FeedInit ==
  ASSUME Init PROVE FeedInv
BY FeedAssumption DEF Init, FeedInv, FeedType, JobType, NoJob, UnderLock, Job, Registered

\* A publication that is not one of q's kind stays as it is.
LEMMA OtherJobs ==
  ASSUME FeedInv, NEW p \in Procs, NEW kind \in Kinds, NEW from, NEW job \in JobType,
         Goes(p, kind, from, job)
  PROVE  /\ Job(p, kind).at = from /\ Job(p, kind)' = job
         /\ \A q \in Procs, k \in Kinds : <<q, k>> # <<p, kind>> => Job(q, k)' = Job(q, k)
         /\ sync' \in [Procs -> JobType] /\ beat' \in [Procs -> JobType]
<1>1. sync \in [Procs -> JobType] /\ beat \in [Procs -> JobType]
  BY DEF FeedInv, FeedType
<1>2. CASE kind = "sync"
  BY <1>1, <1>2 DEF Goes, Job, Kinds
<1>3. CASE kind = "beat"
  BY <1>1, <1>3 DEF Goes, Job, Kinds
<1> QED BY <1>2, <1>3 DEF Kinds

\* Steps of no publication: a job begins or ends, or a process dies.
LEMMA FeedKept ==
  ASSUME FeedInv, UNCHANGED <<publisher, publications>>,
         sync' \in [Procs -> JobType], beat' \in [Procs -> JobType],
         \A p \in Procs, kind \in Kinds :
           \/ Job(p, kind)' = Job(p, kind) /\ (p \in alive => p \in alive')
           \/ Job(p, kind)'.at = "no"
           \/ Job(p, kind)'.at = "wait" /\ Job(p, kind)'.state \in State
  PROVE  FeedInv'
<1>1. FeedType' /\ Registered'
  BY DEF FeedInv, FeedType, Registered, publications
<1>2. ASSUME NEW p \in Procs, NEW kind \in Kinds PROVE UnderLock(p, kind)'
  <2>1. UnderLock(p, kind) /\ projection' = projection /\ publisher' = publisher
    BY DEF FeedInv, publications
  <2> QED BY <2>1 DEF UnderLock
<1> QED BY <1>1, <1>2 DEF FeedInv

\* The steps of a publication: while one has the lock, no other is under way.
LEMMA NobodyElse ==
  ASSUME FeedInv, NEW p \in Procs, NEW kind \in Kinds,
         publisher = <<p, kind>> \/ ~ActivityHeld
  PROVE  \A q \in Procs, k \in Kinds :
           <<q, k>> # <<p, kind>> => Job(q, k).at \in {"no", "wait"}
<1> SUFFICES ASSUME NEW q \in Procs, NEW k \in Kinds, <<q, k>> # <<p, kind>>,
                    Job(q, k).at \notin {"no", "wait"}
             PROVE  FALSE
  OBVIOUS
<1>1. Job(q, k) \in JobType
  BY DEF FeedInv, FeedType, Job
<1>2. publisher = <<q, k>> /\ q \in alive
  BY <1>1 DEF FeedInv, UnderLock, JobType
<1>3. publisher # None
  BY <1>2, FeedAssumption
<1> QED BY <1>2, <1>3 DEF ActivityHeld

\* What is left to show of a step of p's publication.
LEMMA PublicationStep ==
  ASSUME FeedInv, FeedType', Registered', NEW p \in Procs, NEW kind \in Kinds,
         UnderLock(p, kind)',
         \A q \in Procs, k \in Kinds :
           <<q, k>> # <<p, kind>> =>
             Job(q, k)' = Job(q, k) /\ Job(q, k).at \in {"no", "wait"}
  PROVE  FeedInv'
<1>1. ASSUME NEW q \in Procs, NEW k \in Kinds, <<q, k>> # <<p, kind>>
      PROVE  UnderLock(q, k)'
  <2>1. UnderLock(q, k) /\ Job(q, k)' = Job(q, k) /\ Job(q, k).at \in {"no", "wait"}
    BY <1>1 DEF FeedInv
  <2> QED BY <2>1 DEF UnderLock
<1> QED BY <1>1 DEF FeedInv

LEMMA FeedWriteProjection ==
  ASSUME FeedInv, NEW p \in Procs, NEW kind \in Kinds, WriteProjection(p, kind)
  PROVE  FeedInv'
<1> DEFINE job == Job(p, kind)
           next == [job EXCEPT !.at = "register"]
           j == ProjectOf[p]
<1>1. /\ job \in JobType /\ j \in Projects /\ UnderLock(p, kind) /\ FeedType /\ Registered
  BY FeedAssumption DEF FeedInv, FeedType, Job
<1>2. next \in JobType /\ next.at = "register" /\ next.state = job.state
  BY <1>1 DEF JobType
<1>3. /\ p \in alive /\ ~ActivityHeld /\ publisher' = <<p, kind>> /\ alive' = alive
      /\ Goes(p, kind, "wait", next)
      /\ projection' = [projection EXCEPT ![j] = job.state]
      /\ sources' = sources /\ dropped' = dropped
  BY DEF WriteProjection
<1> HIDE DEF next
<1>4. /\ job.at = "wait" /\ Job(p, kind)' = next
      /\ \A q \in Procs, k \in Kinds : <<q, k>> # <<p, kind>> => Job(q, k)' = Job(q, k)
      /\ sync' \in [Procs -> JobType] /\ beat' \in [Procs -> JobType]
  BY <1>2, <1>3, OtherJobs
<1>5. job.state \in State /\ job.state # None
  BY <1>1, <1>4, FeedAssumption DEF UnderLock
<1>6. FeedType'
  BY <1>1, <1>3, <1>4, <1>5 DEF FeedType
<1>7. Registered'
  BY <1>1, <1>3, <1>5 DEF Registered, FeedType
<1>8. UnderLock(p, kind)'
  BY <1>1, <1>2, <1>3, <1>4, <1>5 DEF UnderLock, FeedType
<1> QED BY <1>3, <1>4, <1>6, <1>7, <1>8, NobodyElse, PublicationStep

\* The steps of a publisher that has the lock already.
LEMMA AdvanceStep ==
  ASSUME FeedInv, NEW p \in Procs, NEW kind \in Kinds, NEW from,
         NEW to \in {"no", "remove", "show"}, Advance(p, kind, from, to)
  PROVE  /\ p \in alive /\ alive' = alive /\ publisher = <<p, kind>>
         /\ Job(p, kind).at = from /\ Job(p, kind)'.at = to
         /\ to # "no" => Job(p, kind)'.state = Job(p, kind).state
         /\ sync' \in [Procs -> JobType] /\ beat' \in [Procs -> JobType]
         /\ \A q \in Procs, k \in Kinds :
              <<q, k>> # <<p, kind>> =>
                Job(q, k)' = Job(q, k) /\ Job(q, k).at \in {"no", "wait"}
<1> DEFINE next == IF to = "no" THEN NoJob ELSE [Job(p, kind) EXCEPT !.at = to]
<1>1. Job(p, kind) \in JobType
  BY DEF FeedInv, FeedType, Job
<1>2. /\ next \in JobType /\ next.at = to
      /\ to # "no" => next.state = Job(p, kind).state
  BY <1>1 DEF JobType, NoJob
<1>3. /\ p \in alive /\ alive' = alive /\ publisher = <<p, kind>>
      /\ Goes(p, kind, from, next)
  BY DEF Advance
<1> HIDE DEF next
<1> QED BY <1>2, <1>3, OtherJobs, NobodyElse

\* The repository comes first; what drops out of the registry is not in it.
LEMMA FeedWriteRegistry ==
  ASSUME FeedInv, NEW p \in Procs, NEW kind \in Kinds, WriteRegistry(p, kind)
  PROVE  FeedInv'
<1> DEFINE j == ProjectOf[p]
           rest == RemoveFirst(Registry, j)
           all == <<j>> \o rest
           entries == Bounded(all)
<1>1. j \in Projects /\ FeedType /\ Registered /\ UnderLock(p, kind)
  BY FeedAssumption DEF FeedInv
<1>2. /\ Advance(p, kind, "register", "remove") /\ sources' = entries
      /\ dropped' = Dropped(entries) /\ publisher' = publisher /\ projection' = projection
  BY DEF WriteRegistry
<1>3. /\ p \in alive /\ alive' = alive /\ publisher = <<p, kind>>
      /\ Job(p, kind).at = "register" /\ Job(p, kind)'.at = "remove"
      /\ Job(p, kind)'.state = Job(p, kind).state
      /\ sync' \in [Procs -> JobType] /\ beat' \in [Procs -> JobType]
      /\ \A q \in Procs, k \in Kinds :
           <<q, k>> # <<p, kind>> =>
             Job(q, k)' = Job(q, k) /\ Job(q, k).at \in {"no", "wait"}
  BY <1>2, AdvanceStep
<1>4. projection[j] # None
  BY <1>1, <1>3 DEF UnderLock
<1>5. /\ Registry \in Seq(Projects) /\ Distinct(Registry)
      /\ \A i \in 1..Len(Registry) : projection[Registry[i]] # None
  BY <1>1, RegistryProperties
<1>6. /\ rest \in Seq(Projects) /\ Distinct(rest)
      /\ \A i \in 1..Len(rest) :
           rest[i] # j /\ \E k \in 1..Len(Registry) : rest[i] = Registry[k]
  BY <1>1, <1>5, RemoveFirstProperties
<1> HIDE DEF rest
<1>7. <<j>> \in Seq(Projects) /\ Len(<<j>>) = 1 /\ <<j>>[1] = j /\ Len(rest) \in Nat
  BY <1>1, <1>6, LenProperties
<1>8. /\ all \in Seq(Projects) /\ Len(all) = 1 + Len(rest)
      /\ \A i \in 1..(1 + Len(rest)) : all[i] = IF i <= 1 THEN <<j>>[i] ELSE rest[i - 1]
  BY <1>6, <1>7, ConcatProperties
<1> HIDE DEF all, j
<1>9. all[1] = j /\ \A i \in 2..Len(all) : i - 1 \in 1..Len(rest) /\ all[i] = rest[i - 1]
  BY <1>7, <1>8
<1>10. \A i \in 1..Len(all) : projection[all[i]] # None
  <2> SUFFICES ASSUME NEW i \in 1..Len(all) PROVE projection[all[i]] # None
    OBVIOUS
  <2>1. CASE i = 1
    BY <1>4, <1>9, <2>1
  <2>2. CASE i # 1
    <3>1. i \in 2..Len(all)
      BY <1>7, <1>8, <2>2
    <3>2. PICK k \in 1..Len(Registry) : all[i] = Registry[k]
      BY <1>6, <1>9, <3>1
    <3> QED BY <1>5, <3>2
  <2> QED BY <2>1, <2>2
<1>11. Distinct(all)
  <2> SUFFICES ASSUME NEW i \in 1..Len(all), NEW k \in 1..Len(all), all[i] = all[k]
               PROVE  i = k
    BY DEF Distinct
  <2>1. CASE i = 1 \/ k = 1
    <3>1. \A l \in 2..Len(all) : all[l] # j
      BY ZenonT(60), <1>6, <1>9
    <3>2. all[i] = j /\ all[k] = j
      BY <1>9, <2>1
    <3>3. i \notin 2..Len(all) /\ k \notin 2..Len(all)
      BY <3>1, <3>2
    <3> QED BY <1>7, <1>8, <3>3
  <2>2. CASE i # 1 /\ k # 1
    <3>1. /\ i - 1 \in 1..Len(rest) /\ k - 1 \in 1..Len(rest)
          /\ rest[i - 1] = rest[k - 1]
      BY <1>7, <1>8, <1>9, <2>2
    <3>2. i - 1 = k - 1
      BY <1>6, <3>1 DEF Distinct
    <3> QED BY <1>7, <1>8, <3>2
  <2> QED BY <2>1, <2>2
<1>12. /\ entries \in Seq(Projects) /\ Len(entries) <= SourceLimit
       /\ Len(entries) <= Len(all)
       /\ \A i \in 1..Len(entries) : entries[i] = all[i]
  BY <1>8, BoundedProperties
<1> HIDE DEF entries
<1>13. 1..Len(entries) \subseteq 1..Len(all)
  BY <1>8, <1>12, LenProperties
<1>14. /\ Dropped(entries) \in SUBSET Projects
       /\ \A i \in 1..Len(entries) : entries[i] \notin Dropped(entries)
  BY <1>5, <1>12, ToSetType DEF Dropped
<1>15. Registered'
  <2>1. \A i, k \in 1..Len(entries) : entries[i] = entries[k] => i = k
    BY <1>11, <1>12, <1>13 DEF Distinct
  <2>2. \A i \in 1..Len(entries) : projection[entries[i]] # None
    BY <1>10, <1>12, <1>13
  <2> QED BY <1>2, <1>12, <1>14, <2>1, <2>2 DEF Registered
<1>16. FeedType'
  BY <1>1, <1>2, <1>3, <1>14 DEF FeedType
<1>17. UnderLock(p, kind)'
  BY <1>1, <1>2, <1>3 DEF UnderLock
<1> QED BY <1>3, <1>15, <1>16, <1>17, PublicationStep

LEMMA FeedRemoveSources ==
  ASSUME FeedInv, NEW p \in Procs, NEW kind \in Kinds, RemoveSources(p, kind)
  PROVE  FeedInv'
<1>1. FeedType /\ Registered /\ UnderLock(p, kind)
  BY DEF FeedInv
<1>2. /\ Advance(p, kind, "remove", "show") /\ sources' = sources /\ publisher' = publisher
      /\ projection' = [j \in Projects |-> IF j \in dropped THEN None ELSE projection[j]]
      /\ dropped' = {}
  BY DEF RemoveSources
<1>3. /\ p \in alive /\ alive' = alive /\ publisher = <<p, kind>>
      /\ Job(p, kind).at = "remove" /\ Job(p, kind)'.at = "show"
      /\ Job(p, kind)'.state = Job(p, kind).state
      /\ sync' \in [Procs -> JobType] /\ beat' \in [Procs -> JobType]
      /\ \A q \in Procs, k \in Kinds :
           <<q, k>> # <<p, kind>> =>
             Job(q, k)' = Job(q, k) /\ Job(q, k).at \in {"no", "wait"}
  BY <1>2, AdvanceStep
<1>4. FeedType'
  BY <1>1, <1>2, <1>3 DEF FeedType
<1>5. Registered'
  <2> SUFFICES ASSUME sources # None
               PROVE  \A i \in 1..Len(sources) : projection'[sources[i]] # None
    BY <1>1, <1>2 DEF Registered
  <2>1. \A i \in 1..Len(sources) : /\ sources[i] \in Projects /\ sources[i] \notin dropped
                                   /\ projection[sources[i]] # None
    BY <1>1 DEF Registered
  <2> QED BY <1>2, <2>1
<1>6. UnderLock(p, kind)'
  BY <1>1, <1>2, <1>3 DEF UnderLock
<1> QED BY <1>3, <1>4, <1>5, <1>6, PublicationStep

LEMMA FeedWriteFeed ==
  ASSUME FeedInv, NEW p \in Procs, NEW kind \in Kinds, WriteFeed(p, kind)
  PROVE  FeedInv'
<1>1. /\ Advance(p, kind, "show", "no") /\ publisher' = None
      /\ UNCHANGED <<projection, sources, dropped>>
  BY DEF WriteFeed
<1>2. /\ Job(p, kind)'.at = "no"
      /\ sync' \in [Procs -> JobType] /\ beat' \in [Procs -> JobType]
      /\ \A q \in Procs, k \in Kinds :
           <<q, k>> # <<p, kind>> =>
             Job(q, k)' = Job(q, k) /\ Job(q, k).at \in {"no", "wait"}
  BY <1>1, AdvanceStep
<1>3. FeedType' /\ Registered'
  BY <1>1, <1>2 DEF FeedInv, FeedType, Registered
<1>4. UnderLock(p, kind)'
  BY <1>2 DEF UnderLock
<1> QED BY <1>2, <1>3, <1>4, PublicationStep

LEMMA FeedStep ==
  ASSUME ArchiveInv, FeedInv, [Next]_vars PROVE FeedInv'
<1>1. /\ sync \in [Procs -> JobType] /\ beat \in [Procs -> JobType]
      /\ state \in [Projects -> State] /\ NoJob \in JobType /\ NoJob.at = "no"
  BY DEF FeedInv, FeedType, ArchiveInv, FilesType, NoJob, JobType
<1>2. CASE UNCHANGED vars
  BY <1>1, <1>2, FeedKept DEF vars, Job
<1>3. ASSUME NEW p \in Procs, Begin(p) PROVE FeedInv'
  <2>1. UNCHANGED <<alive, sync, beat, publisher, publications>>
    BY <1>3 DEF Begin
  <2> QED BY <1>1, <2>1, FeedKept DEF Job
<1>4. ASSUME NEW p \in Procs, Commit(p) PROVE FeedInv'
  <2> DEFINE job == [at |-> "wait", state |-> written[p]]
  <2>1. /\ sync' = [sync EXCEPT ![p] = job]
        /\ UNCHANGED <<alive, beat, publisher, publications>> /\ step[p] = "written"
    BY <1>4 DEF Commit
  <2>2. written[p] \in State
    BY <2>1 DEF ArchiveInv, AtWork
  <2>3. job \in JobType /\ job.at = "wait" /\ job.state \in State
    BY <2>2 DEF JobType
  <2> HIDE DEF job
  <2>4. sync' \in [Procs -> JobType] /\ beat' \in [Procs -> JobType]
    BY <1>1, <2>1, <2>3
  <2>5. ASSUME NEW q \in Procs, NEW k \in Kinds
        PROVE  Job(q, k)' = Job(q, k) \/ Job(q, k)' = job
    BY <1>1, <2>1 DEF Job
  <2> QED BY <2>1, <2>3, <2>4, <2>5, FeedKept
<1>5. ASSUME NEW p \in Procs, Beat(p) PROVE FeedInv'
  <2> DEFINE job == [at |-> "wait", state |-> state[ProjectOf[p]]]
  <2>1. /\ beat' = [beat EXCEPT ![p] = job]
        /\ UNCHANGED <<alive, sync, publisher, publications>>
    BY <1>5 DEF Beat, StateForBeat
  <2>2. job \in JobType /\ job.at = "wait" /\ job.state \in State
    BY <1>1, FeedAssumption DEF JobType
  <2> HIDE DEF job
  <2>3. sync' \in [Procs -> JobType] /\ beat' \in [Procs -> JobType]
    BY <1>1, <2>1, <2>2
  <2>4. ASSUME NEW q \in Procs, NEW k \in Kinds
        PROVE  Job(q, k)' = Job(q, k) \/ Job(q, k)' = job
    BY <1>1, <2>1 DEF Job
  <2> QED BY <2>1, <2>2, <2>3, <2>4, FeedKept
<1>6. ASSUME NEW p \in Procs, GiveUp(p) PROVE FeedInv'
  <2>1. /\ sync' = [sync EXCEPT ![p] = NoJob]
        /\ UNCHANGED <<alive, beat, publisher, publications>>
    BY <1>6 DEF GiveUp
  <2>2. sync' \in [Procs -> JobType] /\ beat' \in [Procs -> JobType]
    BY <1>1, <2>1
  <2>3. ASSUME NEW q \in Procs, NEW k \in Kinds
        PROVE  Job(q, k)' = Job(q, k) \/ Job(q, k)' = NoJob
    BY <1>1, <2>1 DEF Job
  <2> QED BY <1>1, <2>1, <2>2, <2>3, FeedKept
<1>7. ASSUME NEW p \in Procs, Die(p) PROVE FeedInv'
  <2>1. /\ sync' = [sync EXCEPT ![p] = NoJob] /\ beat' = [beat EXCEPT ![p] = NoJob]
        /\ alive' = alive \ {p} /\ UNCHANGED <<publisher, publications>>
    BY <1>7 DEF Die
  <2>2. sync' \in [Procs -> JobType] /\ beat' \in [Procs -> JobType]
    BY <1>1, <2>1
  <2>3. ASSUME NEW q \in Procs, NEW k \in Kinds
        PROVE  IF q = p THEN Job(q, k)' = NoJob
               ELSE Job(q, k)' = Job(q, k) /\ (q \in alive => q \in alive')
    BY <1>1, <2>1 DEF Job
  <2> QED BY <1>1, <2>1, <2>2, <2>3, FeedKept
<1>8. ASSUME NEW p \in Procs, NEW kind \in Kinds, Publish(p, kind) PROVE FeedInv'
  BY <1>8, FeedWriteProjection, FeedWriteRegistry, FeedRemoveSources, FeedWriteFeed
     DEF Publish
<1> QED BY <1>2, <1>3, <1>4, <1>5, <1>6, <1>7, <1>8 DEF Next

\* Every registered source has its file (publishLocked: written before it is
\* registered, removed after it has left the registry), for any number of
\* repositories, processes and sources, and at every moment of a publication: its
\* publisher may die there, and the next one goes on from what it left.
THEOREM SourcesHaveFilesHolds == Spec => []SourcesHaveFiles
<1>1. FeedInv => SourcesHaveFiles
  BY DEF FeedInv, Registered, SourcesHaveFiles
<1> QED BY <1>1, ArchiveInit, ArchiveStep, FeedInit, FeedStep, PTL DEF Spec

\* A repository is registered once, and no more of them than the limit says.
THEOREM RegistryHolds == Spec => []Registered
<1>1. FeedInv => Registered
  BY DEF FeedInv
<1> QED BY <1>1, ArchiveInit, ArchiveStep, FeedInit, FeedStep, PTL DEF Spec

=============================================================================
