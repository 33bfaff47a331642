------------------------------- MODULE BootId -------------------------------
(***************************************************************************)
(* currentBootId: every process derives the identity of the boot it runs   *)
(* in from the wall clock and the uptime, which it reads one after the     *)
(* other.  Leases carry that identity, and relay reconcile takes a lease   *)
(* of another boot for one whose processes are gone.                       *)
(***************************************************************************)
EXTENDS Integers

CONSTANTS
  Processes,
  Minute,    \* clock units in a minute
  MaxDelay,  \* bound: units that pass between the two readings
  MaxClock,  \* bound: units that pass
  None

ConstantsOk ==
  /\ Minute \in Nat \ {0} /\ MaxDelay \in Nat /\ MaxClock \in Nat
  /\ None \notin Int

VARIABLES
  clock,
  bootTime,
  now,        \* process -> the Date.now() it has read, or None
  bootMinute  \* process -> its boot and the identity computed, or None
vars == <<clock, bootTime, now, bootMinute>>

\* Math.round(x / Minute): halves are rounded up.
Rounded(x) == (2 * x + Minute) \div (2 * Minute)

Init ==
  /\ bootTime \in 0..Minute
  /\ clock = bootTime
  /\ now = [p \in Processes |-> None]
  /\ bootMinute = [p \in Processes |-> None]

\* Time passes; a process that has read the clock reads the uptime in time.
Tick ==
  /\ clock < MaxClock
  /\ \A p \in Processes : now[p] # None => clock - now[p] < MaxDelay
  /\ clock' = clock + 1
  /\ UNCHANGED <<bootTime, now, bootMinute>>

\* The default of the parameter: Date.now().
ReadClock(p) ==
  /\ now[p] = None /\ bootMinute[p] = None
  /\ now' = [now EXCEPT ![p] = clock]
  /\ UNCHANGED <<clock, bootTime, bootMinute>>

\* os.uptime(), and the identity.
ReadUptime(p) ==
  LET uptime == clock - bootTime IN
  /\ now[p] # None
  /\ bootMinute' = [bootMinute EXCEPT
       ![p] = [boot |-> bootTime, id |-> Rounded(now[p] - uptime)]]
  /\ now' = [now EXCEPT ![p] = None]
  /\ UNCHANGED <<clock, bootTime>>

\* The processes are gone; the identities stay in the leases.
Reboot ==
  /\ clock > bootTime
  /\ bootTime' = clock
  /\ now' = [p \in Processes |-> None]
  /\ UNCHANGED <<clock, bootMinute>>

Next ==
  \/ Tick \/ Reboot
  \/ \E p \in Processes : ReadClock(p) \/ ReadUptime(p)

Spec == Init /\ [][Next]_vars

\* The identities of two boots that are two minutes apart, or more, differ:
\* no lease of an old boot is taken for one of the current boot.
BootsToldApart ==
  \A p, q \in Processes :
    /\ bootMinute[p] # None /\ bootMinute[q] # None
    /\ bootMinute[p].boot + 2 * Minute <= bootMinute[q].boot
    => bootMinute[p].id # bootMinute[q].id

=============================================================================
