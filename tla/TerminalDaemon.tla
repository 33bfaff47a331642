--------------------------- MODULE TerminalDaemon ---------------------------
(***************************************************************************)
(* The terminals of the daemon, from their admission to their end, the     *)
(* clients that attach to them and control them, and the daemon's          *)
(* shutdown.  The daemon is one event loop: an action is what it does       *)
(* between two awaits, and everything else may happen in between.           *)
(***************************************************************************)
EXTENDS Integers, FiniteSets

CONSTANTS
  Ids,          \* the terminals that are ever started
  Trees,        \* pairs of project and workspace
  TreeOf,       \* the working tree a terminal is started in
  Structured,   \* the terminals whose provider reports its lifecycle
  Clients,      \* connections
  Nobody,       \* not a connection
  MaxTerminals  \* MAX_TERMINALS

ASSUME DaemonAssumption ==
  /\ TreeOf \in [Ids -> Trees]
  /\ Structured \subseteq Ids
  /\ Nobody \notin Clients
  /\ IsFiniteSet(Ids)
  /\ MaxTerminals \in Nat

VARIABLES
  status,      \* terminal -> its status; "claimed" while its host is created
  process,     \* terminal -> "none", "alive", "gone"
  killed,      \* the terminals whose process tree got SIGKILL
  finalized,   \* the terminals whose exit has been seen
  controller,  \* terminal -> controllerConnection
  controlled,  \* client -> controlledTerminals
  attached,    \* client -> attachments
  connected,   \* the connections
  writing,     \* client -> the terminals it has a write under way to
  closing      \* the daemon: "open", and how far its close() has come

terminals == <<status, process, killed, finalized>>
clients == <<controller, controlled, attached, connected, writing>>
vars == <<terminals, clients, closing>>

Active == {"running", "waiting", "stopping"}

Stages == {"open", "startups", "waiting", "killing", "severed", "exited"}

TypeOK ==
  /\ status \in [Ids -> {"absent", "claimed", "final", "forgotten"} \cup Active]
  /\ process \in [Ids -> {"none", "alive", "gone"}]
  /\ killed \subseteq Ids
  /\ finalized \subseteq Ids
  /\ controller \in [Ids -> Clients \cup {Nobody}]
  /\ controlled \in [Clients -> SUBSET Ids]
  /\ attached \in [Clients -> SUBSET Ids]
  /\ connected \subseteq Clients
  /\ writing \in [Clients -> SUBSET Ids]
  /\ closing \in Stages

Init ==
  /\ status = [t \in Ids |-> "absent"]
  /\ process = [t \in Ids |-> "none"]
  /\ killed = {} /\ finalized = {}
  /\ controller = [t \in Ids |-> Nobody]
  /\ controlled = [c \in Clients |-> {}]
  /\ attached = [c \in Clients |-> {}]
  /\ connected = {}
  /\ writing = [c \in Clients |-> {}]
  /\ closing = "open"

-----------------------------------------------------------------------------
(* A terminal starts and ends.                                             *)

\* The daemon's process has not exited.
Up == closing # "exited"

ActiveTerminals == {t \in Ids : status[t] \in Active}
Claimed == {t \in Ids : status[t] = "claimed"}
Present(t) == status[t] \in Active \cup {"final"}

\* Fault: pending starts are not counted.
HasRoomNow(t) ==
  /\ Cardinality(ActiveTerminals) < MaxTerminals
  /\ \A u \in ActiveTerminals : TreeOf[u] # TreeOf[t]

HasRoom(t) ==
  /\ Cardinality(ActiveTerminals) + Cardinality(Claimed) < MaxTerminals
  /\ \A u \in ActiveTerminals \cup Claimed : TreeOf[u] # TreeOf[t]

\* startTerminal, up to the creation of the host.
Start(t) ==
  /\ closing = "open"
  /\ status[t] = "absent" /\ HasRoom(t)
  /\ status' = [status EXCEPT ![t] = "claimed"]
  /\ UNCHANGED <<process, killed, finalized, clients, closing>>

\* The host exists: the claim becomes a terminal, starting and at once running.
HostCreated(t) ==
  /\ Up /\ status[t] = "claimed"
  /\ status' = [status EXCEPT ![t] = "running"]
  /\ process' = [process EXCEPT ![t] = "alive"]
  /\ UNCHANGED <<killed, finalized, clients, closing>>

\* No host: the claim is dropped, and the id with it.
HostFails(t) ==
  /\ Up /\ status[t] = "claimed"
  /\ status' = [status EXCEPT ![t] = "absent"]
  /\ UNCHANGED <<process, killed, finalized, clients, closing>>

\* set_lifecycle, from a client or the provider's hook, and set_waiting.
MayTurn(t) == Up /\ Present(t) /\ t \notin finalized /\ status[t] # "stopping"

SetLifecycle(t) ==
  /\ MayTurn(t)
  /\ \E s \in {"running", "waiting"} : status' = [status EXCEPT ![t] = s]
  /\ UNCHANGED <<process, killed, finalized, clients, closing>>

\* Output of a provider without a structured lifecycle that asks for attention.
OutputAsks(t) ==
  /\ Up /\ status[t] = "running" /\ process[t] = "alive" /\ t \notin Structured
  /\ status' = [status EXCEPT ![t] = "waiting"]
  /\ UNCHANGED <<process, killed, finalized, clients, closing>>

Stoppable(t) == status[t] \in Active /\ t \notin finalized

\* stop and stop_all: the process is interrupted, and two timers are set.
Stop(S) ==
  status' = [t \in Ids |-> IF t \in S /\ Stoppable(t) THEN "stopping" ELSE status[t]]

StopSome ==
  /\ Up /\ \E t \in ActiveTerminals : Stop({t})
  /\ UNCHANGED <<process, killed, finalized, clients, closing>>

StopAll ==
  /\ Up /\ ActiveTerminals # {} /\ Stop(ActiveTerminals)
  /\ UNCHANGED <<process, killed, finalized, clients, closing>>

\* Fault: the last stop timer asks once more.
KillTimerTerminates(t) ==
  /\ Up /\ status[t] = "stopping" /\ t \notin finalized /\ process[t] = "alive"
  /\ UNCHANGED vars

\* The last stop timer.
KillTimer(t) ==
  /\ Up /\ status[t] = "stopping" /\ t \notin finalized /\ process[t] = "alive"
  /\ killed' = killed \cup {t}
  /\ UNCHANGED <<status, process, finalized, clients, closing>>

\* With the daemon or after it.
ProcessExit(t) ==
  /\ process[t] = "alive"
  /\ process' = [process EXCEPT ![t] = "gone"]
  /\ UNCHANGED <<status, killed, finalized, clients, closing>>

\* onExit: finalize clears the timers and awaits the provider's result.
BeginFinalize(t) ==
  /\ Up /\ process[t] = "gone" /\ t \notin finalized
  /\ finalized' = finalized \cup {t}
  /\ UNCHANGED <<status, process, killed, clients, closing>>

\* The rest of finalize, up to the synchronization (module StateSync).
Finalize(t) ==
  /\ Up /\ t \in finalized /\ status[t] \in Active
  /\ status' = [status EXCEPT ![t] = "final"]
  /\ controller' = [controller EXCEPT ![t] = Nobody]
  /\ controlled' = [c \in Clients |->
       IF c = controller[t] THEN controlled[c] \ {t} ELSE controlled[c]]
  /\ UNCHANGED <<process, killed, finalized, attached, connected, writing, closing>>

Forget(t) ==
  /\ Up /\ status[t] = "final"
  /\ status' = [status EXCEPT ![t] = "forgotten"]
  /\ controller' = [controller EXCEPT ![t] = Nobody]
  /\ controlled' = [c \in Clients |-> controlled[c] \ {t}]
  /\ attached' = [c \in Clients |-> attached[c] \ {t}]
  /\ UNCHANGED <<process, killed, finalized, connected, writing, closing>>

-----------------------------------------------------------------------------
(* Clients.                                                                *)

Connect(c) ==
  /\ closing \notin {"severed", "exited"} /\ c \notin connected
  /\ writing[c] = {}
  /\ connected' = connected \cup {c}
  /\ UNCHANGED <<terminals, controller, controlled, attached, writing, closing>>

\* Fault: a connection goes without giving back what it controls.
DisconnectOnly(C) ==
  /\ connected' = connected \ C
  /\ controlled' = [c \in Clients |-> IF c \in C THEN {} ELSE controlled[c]]
  /\ attached' = [c \in Clients |-> IF c \in C THEN {} ELSE attached[c]]
  /\ UNCHANGED controller

\* The sockets of C are closed.
Disconnect(C) ==
  /\ connected' = connected \ C
  /\ controller' = [t \in Ids |->
       IF controller[t] \in C /\ t \in controlled[controller[t]] THEN Nobody
       ELSE controller[t]]
  /\ controlled' = [c \in Clients |-> IF c \in C THEN {} ELSE controlled[c]]
  /\ attached' = [c \in Clients |-> IF c \in C THEN {} ELSE attached[c]]

Leave(c) ==
  /\ c \in connected /\ Disconnect({c})
  /\ UNCHANGED <<terminals, writing, closing>>

Attach(c, t) ==
  /\ c \in connected /\ Present(t)
  /\ attached' = [attached EXCEPT ![c] = @ \cup {t}]
  /\ UNCHANGED <<terminals, controller, controlled, connected, writing, closing>>

\* A release by a client that has no control, or lost it, changes nothing.
ReleaseControl(c, t) ==
  /\ c \in connected /\ Present(t) /\ controller[t] = c
  /\ controller' = [controller EXCEPT ![t] = Nobody]
  /\ controlled' = [controlled EXCEPT ![c] = @ \ {t}]
  /\ UNCHANGED <<terminals, attached, connected, writing, closing>>

Detach(c, t) ==
  /\ c \in connected /\ Present(t)
  /\ attached' = [attached EXCEPT ![c] = @ \ {t}]
  /\ IF controller[t] = c
     THEN /\ controller' = [controller EXCEPT ![t] = Nobody]
          /\ controlled' = [controlled EXCEPT ![c] = @ \ {t}]
     ELSE UNCHANGED <<controller, controlled>>
  /\ UNCHANGED <<terminals, connected, writing, closing>>

\* Another client's control is taken only by a takeover, which displaces it.
AcquireControl(c, t, takeover) ==
  /\ c \in connected /\ Present(t) /\ t \notin finalized
  /\ takeover \/ controller[t] \in {c, Nobody}
  /\ controller' = [controller EXCEPT ![t] = c]
  /\ controlled' = [d \in Clients |->
       IF d = c THEN controlled[d] \cup {t}
       ELSE IF d = controller[t] THEN controlled[d] \ {t}
       ELSE controlled[d]]
  /\ UNCHANGED <<terminals, attached, connected, writing, closing>>

\* write, up to the await of the host.
BeginWrite(c, t) ==
  /\ c \in connected /\ t \in attached[c] /\ controller[t] = c
  /\ writing' = [writing EXCEPT ![c] = @ \cup {t}]
  /\ UNCHANGED <<terminals, controller, controlled, attached, connected, closing>>

\* Fault: the input is taken for an answer whatever has happened meanwhile.
AnsweredAlways(t) == t \notin Structured

\* The terminal waited for this input, as far as its status tells now.
Answered(t) == status[t] = "waiting" /\ t \notin Structured

EndWrite(c, t) ==
  /\ Up /\ t \in writing[c]
  /\ writing' = [writing EXCEPT ![c] = @ \ {t}]
  /\ status' = [status EXCEPT ![t] = IF Answered(t) THEN "running" ELSE @]
  /\ UNCHANGED <<process, killed, finalized, controller, controlled, attached,
                 connected, closing>>

-----------------------------------------------------------------------------
(* close({ stopActive: true }).                                            *)

BeginClose ==
  /\ closing = "open" /\ closing' = "startups"
  /\ UNCHANGED <<terminals, clients>>

\* Fault: starts that are under way are not awaited.
StartupsSettledAlways == TRUE

StartupsSettled == Claimed = {}

CloseStops ==
  /\ closing = "startups" /\ StartupsSettled
  /\ Stop(ActiveTerminals)
  /\ closing' = "waiting"
  /\ UNCHANGED <<process, killed, finalized, clients>>

\* No terminal is active, or the deadline has passed, which is later than the
\* last stop timer (5.5 and 4 seconds).
CloseKills ==
  /\ closing = "waiting"
  /\ \A t \in ActiveTerminals : process[t] = "alive" => t \in killed
  /\ killed' = killed \cup {t \in ActiveTerminals : process[t] = "alive"}
  /\ closing' = "killing"
  /\ UNCHANGED <<status, process, finalized, clients>>

\* After another half second at most the connections are destroyed, and no more are
\* accepted.
CloseSevers ==
  /\ closing = "killing" /\ closing' = "severed"
  /\ Disconnect(connected)
  /\ UNCHANGED <<terminals, writing>>

\* close() returns, and the daemon's program exits: whatever is still under way, a
\* provider's result that is being read among it, is not done.
Exit ==
  /\ closing = "severed" /\ closing' = "exited"
  /\ UNCHANGED <<terminals, clients>>

-----------------------------------------------------------------------------

OfTerminal(t) ==
  \/ Start(t) \/ HostCreated(t) \/ HostFails(t)
  \/ SetLifecycle(t) \/ OutputAsks(t) \/ KillTimer(t)
  \/ ProcessExit(t) \/ BeginFinalize(t) \/ Finalize(t) \/ Forget(t)

OfClient(c) ==
  \/ Connect(c) \/ Leave(c)
  \/ \E t \in Ids :
       \/ Attach(c, t) \/ Detach(c, t) \/ ReleaseControl(c, t)
       \/ \E takeover \in BOOLEAN : AcquireControl(c, t, takeover)
       \/ BeginWrite(c, t) \/ EndWrite(c, t)

Next ==
  \/ \E t \in Ids : OfTerminal(t)
  \/ \E c \in Clients : OfClient(c)
  \/ StopSome \/ StopAll
  \/ BeginClose \/ CloseStops \/ CloseKills \/ CloseSevers \/ Exit

Spec == Init /\ [][Next]_vars

\* Timers fire, a killed process is gone, its end is seen, and the result of a
\* provider is read or given up.  No client need do anything.
FairSpec ==
  /\ Spec
  /\ \A t \in Ids :
       /\ WF_vars(KillTimer(t))
       /\ WF_vars(t \in killed /\ ProcessExit(t))
       /\ WF_vars(BeginFinalize(t)) /\ WF_vars(Finalize(t))
       /\ WF_vars(HostCreated(t) \/ HostFails(t))
  /\ WF_vars(CloseStops) /\ WF_vars(CloseKills)
  /\ WF_vars(CloseSevers) /\ WF_vars(Exit)

-----------------------------------------------------------------------------
(* Properties.                                                             *)

\* However many starts are pending, fail or succeed, and whatever was stopped in
\* between: no more processes live or are about to than the daemon admits, and no
\* two of them in one working tree (startTerminal, server.mjs 619).
WithinCapacity ==
  LET occupied == Claimed \cup {t \in Ids : process[t] = "alive"} IN
  /\ Cardinality(occupied) <= MaxTerminals
  /\ \A t, u \in occupied : TreeOf[t] = TreeOf[u] => t = u

\* The two sides of control agree: the terminal's controller is connected, knows
\* of it and is the only one that does, and a terminal that has ended has none,
\* through takeovers, disconnections and exits in any order.
ControlAgrees ==
  \A t \in Ids : \A c \in Clients :
    /\ controller[t] = c <=> t \in controlled[c]
    /\ controller[t] = c => c \in connected /\ status[t] \in Active

\* A stop that was accepted is not undone by a lifecycle report or by an input
\* whose write ends later, and an end not by anything (transitionTerminal).
NoWayBack ==
  [][\A t \in Ids :
       /\ status[t] = "stopping" => status'[t] \in {"stopping", "final"}
       /\ status[t] = "final" => status'[t] \in {"final", "forgotten"}
       /\ status[t] = "forgotten" => status'[t] = "forgotten"]_vars

\* A daemon that has shut down leaves no process behind that it has not killed,
\* not even that of a start which was pending when the shutdown began.
NothingLeftRunning ==
  closing = "exited" =>
    \A t \in Ids : status[t] # "claimed" /\ (process[t] = "alive" => t \in killed)

\* A terminal that is being stopped ends, even one that ignores the interrupt, unless
\* the daemon exits before: close() does not wait for a provider's result for more
\* than its own deadlines.
StopEnds ==
  \A t \in Ids : status[t] = "stopping" ~> (status[t] \in {"final", "forgotten"} \/ ~Up)

=============================================================================
