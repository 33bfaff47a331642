----------------------------- MODULE OrphanBids -----------------------------
(***************************************************************************)
(* The takeover of one orphaned run.  Every controller that wants to        *)
(* recover it records a bid in the lease and, from the bids it finds there,*)
(* decides whether it has won; a winner then recovers the run, which       *)
(* releases the lease.  The bid is stamped before the repository lock is   *)
(* taken, and a controller may die between any two of these steps.         *)
(***************************************************************************)
EXTENDS Integers, Sequences, FiniteSets

CONSTANTS
  Controllers,  \* one for each relay recover invocation: ids are fresh
  Priority,     \* the priority a controller bids with
  Id,           \* its place in the lexicographic order of ids
  BidLimit,     \* ORPHAN_BID_LIMIT
  MaxClock,     \* bound: distinct time stamps
  MaxDeaths     \* bound: controllers that die

ASSUME BidsAssumption ==
  /\ Priority \in [Controllers -> Nat]
  /\ Id \in [Controllers -> Nat]
  /\ \A c, d \in Controllers : Id[c] = Id[d] => c = d
  /\ BidLimit \in Nat \ {0} /\ MaxClock \in Nat /\ MaxDeaths \in Nat

VARIABLES
  status,   \* the lease: "orphaned", or "released"
  bids,     \* the bids it keeps, in the order they were recorded
  pc,       \* controller -> where its recovery is
  stamp,    \* controller -> the time stamp of its bid
  won,      \* the controllers that were told they had won
  recovered,\* the controllers whose recovery ended the run
  clock, crashes
bidsVars == <<status, bids, pc, stamp, won, recovered, clock, crashes>>

Bid == [controller: Controllers, priority: Nat, at: 0..MaxClock]

BidsInit ==
  /\ status = "orphaned"
  /\ bids = <<>>
  /\ pc = [c \in Controllers |-> "idle"]
  /\ stamp = [c \in Controllers |-> 0]
  /\ won = {}
  /\ recovered = {}
  /\ clock = 0
  /\ crashes = 0

\* compareBids: the higher priority, then the earlier stamp, then the smaller id.
Before(b, c) ==
  \/ b.priority > c.priority
  \/ b.priority = c.priority /\ b.at < c.at
  \/ b.priority = c.priority /\ b.at = c.at /\ Id[b.controller] < Id[c.controller]

\* The newest bids of s.
Newest(s) ==
  IF Len(s) > BidLimit THEN SubSeq(s, Len(s) - BidLimit + 1, Len(s)) ELSE s

\* Fault: a bid has to be better than every bid, its own among them.
WinsOverAll(c, s) ==
  \E i \in 1..Len(s) :
    s[i].controller = c /\ \A j \in 1..Len(s) : Before(s[i], s[j])

Wins(c, s) ==
  \E i \in 1..Len(s) :
    /\ s[i].controller = c
    /\ \A j \in 1..Len(s) : ~Before(s[j], s[i])

Proceed(c, p) == pc' = [pc EXCEPT ![c] = p]

Tick ==
  /\ clock < MaxClock
  /\ clock' = clock + 1
  /\ UNCHANGED <<status, bids, pc, stamp, won, recovered, crashes>>

\* recover has found the run orphaned; submitOrphanBid stamps the bid.
Stamp(c) ==
  /\ pc[c] = "idle" /\ status = "orphaned"
  /\ Proceed(c, "bidding")
  /\ stamp' = [stamp EXCEPT ![c] = clock]
  /\ UNCHANGED <<status, bids, won, recovered, clock, crashes>>

\* The mutation that records the bid, and the decision.
Submit(c) ==
  LET s == Newest(Append(bids, [controller |-> c, priority |-> Priority[c],
                                at |-> stamp[c]]))
  IN
  /\ pc[c] = "bidding" /\ status = "orphaned"
  /\ bids' = s
  /\ \/ Wins(c, s) /\ Proceed(c, "won") /\ won' = won \cup {c}
     \/ ~Wins(c, s) /\ Proceed(c, "lost") /\ won' = won
  /\ UNCHANGED <<status, stamp, recovered, clock, crashes>>

\* Fault: the winner recovers the run without looking at the lease again.
RecoverUnchecked(c) ==
  /\ pc[c] = "won"
  /\ status' = "released"
  /\ bids' = <<>>
  /\ recovered' = recovered \cup {c}
  /\ Proceed(c, "done")
  /\ UNCHANGED <<stamp, won, clock, crashes>>

\* recoverOrphanedRun.
Recover(c) ==
  /\ pc[c] = "won" /\ status = "orphaned"
  /\ status' = "released"
  /\ bids' = <<>>
  /\ recovered' = recovered \cup {c}
  /\ Proceed(c, "done")
  /\ UNCHANGED <<stamp, won, clock, crashes>>

\* The lease is gone by the time of the bid, or of the recovery.
Refused(c) ==
  /\ pc[c] \in {"bidding", "won"} /\ status = "released"
  /\ Proceed(c, "failed")
  /\ UNCHANGED <<status, bids, stamp, won, recovered, clock, crashes>>

\* The controller dies; its bid, if recorded, stays.
ControllerDies(c) ==
  /\ pc[c] \in {"bidding", "won"} /\ crashes < MaxDeaths
  /\ Proceed(c, "crashed")
  /\ crashes' = crashes + 1
  /\ UNCHANGED <<status, bids, stamp, won, recovered, clock>>

\* The run's launcher, or the daemon, ends the run in the meantime.
EndedElsewhere ==
  /\ status = "orphaned"
  /\ status' = "released"
  /\ bids' = <<>>
  /\ UNCHANGED <<pc, stamp, won, recovered, clock, crashes>>

BidsNext ==
  \/ Tick \/ EndedElsewhere
  \/ \E c \in Controllers :
       Stamp(c) \/ Submit(c) \/ Recover(c) \/ Refused(c) \/ ControllerDies(c)

BidsSpec == BidsInit /\ [][BidsNext]_bidsVars

\* A recovery that has begun goes on; a controller may die all the same.
BidsFairSpec ==
  /\ BidsSpec
  /\ \A c \in Controllers : WF_bidsVars(Submit(c) \/ Recover(c) \/ Refused(c))

-----------------------------------------------------------------------------
(* Properties                                                              *)

\* Every variable keeps its type.
BidsTypeOK ==
  /\ status \in {"orphaned", "released"}
  /\ bids \in Seq(Bid) /\ Len(bids) <= BidLimit
  /\ pc \in [Controllers -> {"idle", "bidding", "won", "lost", "done", "failed",
                              "crashed"}]
  /\ stamp \in [Controllers -> 0..MaxClock]
  /\ won \in SUBSET Controllers
  /\ recovered \in SUBSET Controllers
  /\ clock \in 0..MaxClock
  /\ crashes \in 0..MaxDeaths

Recorded(c) == \E i \in 1..Len(bids) : bids[i].controller = c

\* However many controllers were told that they had won, one ends the run.
RecoveredOnce == Cardinality(recovered) <= 1

\* Unless a controller dies, the first bid leads to the release of the lease.
BidsLeadToRelease ==
  bids # <<>> ~> status = "released" \/ crashes > 0

-----------------------------------------------------------------------------
(* What the documentation says and the code does not do.                   *)

\* "Any number of contenders converge on the same owner without a coordinator"
\* (docs/state-and-events.md:159-160): no two of them are told they have won.
OneWinner ==
  \A c, d \in won : Recorded(c) /\ Recorded(d) => c = d

\* The same sentence, of a winner that dies, or fails, before it has recovered the run:
\* a controller is refused only while somebody else may yet recover it.  With equal
\* priorities the next bid is later than every bid in the lease, whichever of them have
\* been displaced, so that it loses, and so does every bid after it.
RefusedForTheLiving ==
  [][\A c \in Controllers : pc[c] = "bidding" /\ pc'[c] = "lost" =>
       \E d \in Controllers : pc[d] = "won"]_bidsVars

=============================================================================
