---------------------------- MODULE DaemonStart ----------------------------
(***************************************************************************)
(* How clients find, start and lose the terminal daemon: ensureDaemon of   *)
(* the command line, connectOrStart of the desktop, runTerminalDaemon from *)
(* its first look at the endpoint to the end of close, over the two names  *)
(* they share: the descriptor file and the endpoint.  One protocol         *)
(* version, and descriptors that are always well formed: they are renamed  *)
(* into place.                                                             *)
(***************************************************************************)
EXTENDS Naturals

CONSTANTS
  Commands,   \* processes that call ensureDaemon and connect
  Desktops,   \* processes that call connectOrStart, and again when it fails
  Daemons,    \* the daemon processes that can be spawned
  NamedPipe,  \* TRUE: Windows, where an endpoint lives and dies with its owner
  SlowProbe,  \* TRUE: a probe may time out although a daemon listens
  MaxEnds,    \* bound: daemons that die or are closed
  None

Clients == Commands \union Desktops

VARIABLES
  descriptor,  \* the daemon the descriptor file names, or None
  endpoint,    \* the daemon that bound the endpoint's name, or None
  phase,       \* daemon -> where runTerminalDaemon, or close, is
  step,        \* client -> where its call is
  seen,        \* client -> the descriptor it has read, or None
  link,        \* client -> the daemon it is connected to, or None
  ends         \* daemons that have died or been closed
vars == <<descriptor, endpoint, phase, step, seen, link, ends>>

Listening(d) == phase[d] \in {"writing", "serving"}

\* What answers at the endpoint's name: nothing, or the daemon that bound it.
Answers == endpoint # None /\ Listening(endpoint)

Probed == IF SlowProbe /\ Answers THEN {TRUE, FALSE} ELSE {Answers}

Init ==
  /\ descriptor = None /\ endpoint = None
  /\ phase = [d \in Daemons |-> "unborn"]
  /\ step = [c \in Clients |-> "idle"]
  /\ seen = [c \in Clients |-> None]
  /\ link = [c \in Clients |-> None]
  /\ ends = 0

Goes(c, to) == step' = [step EXCEPT ![c] = to]
Enters(d, to) == phase' = [phase EXCEPT ![d] = to]

KeepNames == UNCHANGED <<descriptor, endpoint>>
KeepDaemons == UNCHANGED <<phase, ends>>
KeepClients == UNCHANGED <<step, seen, link>>

\* The client lstats and reads the descriptor file.
Reads(c) == seen' = [seen EXCEPT ![c] = descriptor]

----------------------------------------------------------------------------
(* The daemon.                                                             *)

Spawn(d) ==
  /\ phase[d] = "unborn"
  /\ Enters(d, "preparing")

\* lstat: with nothing there the endpoint is ready.  A pipe is probed at once.
Prepare(d) ==
  /\ phase[d] = "preparing"
  /\ Enters(d, IF endpoint = None /\ ~NamedPipe THEN "binding" ELSE "probing")
  /\ KeepNames /\ KeepClients /\ UNCHANGED ends

\* A daemon that answers is left alone: this one exits.
Probe(d) ==
  /\ phase[d] = "probing"
  /\ \E live \in Probed :
       Enters(d, IF live THEN "gone"
                 ELSE IF NamedPipe THEN "binding" ELSE "clearing")
  /\ KeepNames /\ KeepClients /\ UNCHANGED ends

\* rm of the name, whoever has bound it by now.
Clear(d) ==
  /\ phase[d] = "clearing"
  /\ endpoint' = None
  /\ Enters(d, "binding")
  /\ KeepClients /\ UNCHANGED <<descriptor, ends>>

\* listen, which fails if the name is taken.
Bind(d) ==
  /\ phase[d] = "binding"
  /\ IF endpoint = None
     THEN endpoint' = d /\ Enters(d, "writing")
     ELSE UNCHANGED endpoint /\ Enters(d, "gone")
  /\ KeepClients /\ UNCHANGED <<descriptor, ends>>

WriteDescriptor(d) ==
  /\ phase[d] = "writing"
  /\ descriptor' = d
  /\ Enters(d, "serving")
  /\ KeepClients /\ UNCHANGED <<endpoint, ends>>

\* The clients of a daemon that is gone find their sockets closed.
Disconnected(d) ==
  /\ link' = [c \in Clients |-> IF link[c] = d THEN None ELSE link[c]]
  /\ step' = [c \in Clients |-> IF link[c] = d THEN "idle" ELSE step[c]]
  /\ UNCHANGED seen

\* close, and a descriptor that cannot be written: the server stops listening
\* and unlinks its name.
StopListening(d, to) ==
  /\ ends < MaxEnds
  /\ ends' = ends + 1
  /\ Enters(d, to)
  /\ endpoint' = IF NamedPipe /\ endpoint # d THEN endpoint ELSE None
  /\ Disconnected(d)
  /\ UNCHANGED descriptor

WriteFails(d) == phase[d] = "writing" /\ StopListening(d, "abandoning")

Close(d) == phase[d] = "serving" /\ StopListening(d, "closing")

\* rm of the endpoint's name, once more, whoever has bound it by now.
RemoveEndpoint(d) ==
  /\ phase[d] \in {"abandoning", "closing"}
  /\ endpoint' = IF NamedPipe THEN endpoint ELSE None
  /\ Enters(d, IF phase[d] = "closing" THEN "comparing" ELSE "gone")
  /\ KeepClients /\ UNCHANGED <<descriptor, ends>>

\* The descriptor of a replacement is left alone.
CompareDescriptor(d) ==
  /\ phase[d] = "comparing"
  /\ Enters(d, IF descriptor = d THEN "removing" ELSE "gone")
  /\ KeepNames /\ KeepClients /\ UNCHANGED ends

RemoveDescriptor(d) ==
  /\ phase[d] = "removing"
  /\ descriptor' = None
  /\ Enters(d, "gone")
  /\ KeepClients /\ UNCHANGED <<endpoint, ends>>

\* A daemon dies: a socket file stays, a pipe goes.
Die(d) ==
  /\ phase[d] \notin {"unborn", "gone"} /\ ends < MaxEnds
  /\ ends' = ends + 1
  /\ Enters(d, "gone")
  /\ endpoint' = IF NamedPipe /\ endpoint = d THEN None ELSE endpoint
  /\ Disconnected(d)
  /\ UNCHANGED descriptor

----------------------------------------------------------------------------
(* ensureDaemon.                                                           *)

Ensure(c) ==
  /\ step[c] = "idle"
  /\ Reads(c)
  /\ Goes(c, IF descriptor = None THEN "probeCanonical" ELSE "probeNamed")
  /\ KeepNames /\ KeepDaemons /\ UNCHANGED link

\* Every descriptor names the one endpoint of this data directory.
ProbeNamed(c) ==
  /\ step[c] = "probeNamed"
  /\ \E live \in Probed : Goes(c, IF live THEN "open" ELSE "probeCanonical")
  /\ KeepNames /\ KeepDaemons /\ UNCHANGED <<seen, link>>

\* A live endpoint is not touched: the call fails.
ProbeCanonical(c) ==
  /\ step[c] = "probeCanonical"
  /\ \E live \in Probed : Goes(c, IF live THEN "idle" ELSE "rmDescriptor")
  /\ KeepNames /\ KeepDaemons /\ UNCHANGED <<seen, link>>

CleanDescriptor(c) ==
  /\ step[c] = "rmDescriptor"
  /\ descriptor' = None
  /\ Goes(c, "rmEndpoint")
  /\ KeepDaemons /\ UNCHANGED <<endpoint, seen, link>>

CleanEndpoint(c) ==
  /\ step[c] = "rmEndpoint"
  /\ endpoint' = IF NamedPipe THEN endpoint ELSE None
  /\ Goes(c, "spawn")
  /\ KeepDaemons /\ UNCHANGED <<descriptor, seen, link>>

EnsureSpawns(c) ==
  /\ step[c] = "spawn"
  /\ \E d \in Daemons : Spawn(d)
  /\ Goes(c, "poll")
  /\ KeepNames /\ UNCHANGED <<seen, link, ends>>

Poll(c) ==
  /\ step[c] = "poll"
  /\ descriptor # None
  /\ Reads(c)
  /\ Goes(c, "probePolled")
  /\ KeepNames /\ KeepDaemons /\ UNCHANGED link

ProbePolled(c) ==
  /\ step[c] = "probePolled"
  /\ \E live \in Probed : Goes(c, IF live THEN "open" ELSE "poll")
  /\ KeepNames /\ KeepDaemons /\ UNCHANGED <<seen, link>>

\* The deadline of a call that polls, or a process that cannot be spawned.
GiveUp(c) ==
  /\ step[c] \in {"spawn", "spawnDesktop", "poll", "reopen"}
  /\ Goes(c, "idle")
  /\ KeepNames /\ KeepDaemons /\ UNCHANGED <<seen, link>>

----------------------------------------------------------------------------
(* connect, and connectOrStart of the desktop.                             *)

\* How a call goes on when it finds no daemon: the desktop's first attempt
\* spawns one, its later attempts poll, a command fails.
Missed(c) ==
  IF step[c] \in {"start", "dial"} /\ c \in Desktops THEN "spawnDesktop"
  ELSE IF step[c] \in {"reopen", "redial"} THEN "reopen" ELSE "idle"

ConnectOrStart(c) ==
  /\ step[c] = "idle"
  /\ Goes(c, "start")
  /\ KeepNames /\ KeepDaemons /\ UNCHANGED <<seen, link>>

\* openConnection reads the descriptor.
Open(c) ==
  /\ step[c] \in {"open", "start", "reopen"}
  /\ Reads(c)
  /\ Goes(c, IF descriptor = None THEN Missed(c)
             ELSE IF step[c] = "reopen" THEN "redial" ELSE "dial")
  /\ KeepNames /\ KeepDaemons /\ UNCHANGED link

\* It connects to the endpoint and says hello with the token it has read, which
\* only the daemon that wrote it takes.  Refused by another one, it fails.
Dial(c) ==
  /\ step[c] \in {"dial", "redial"}
  /\ IF Answers /\ seen[c] = endpoint
     THEN Goes(c, "connected") /\ link' = [link EXCEPT ![c] = endpoint]
     ELSE /\ Goes(c, IF Answers /\ step[c] = "dial" THEN "idle" ELSE Missed(c))
          /\ UNCHANGED link
  /\ KeepNames /\ KeepDaemons /\ UNCHANGED seen

DesktopSpawns(c) ==
  /\ step[c] = "spawnDesktop"
  /\ \E d \in Daemons : Spawn(d)
  /\ Goes(c, "reopen")
  /\ KeepNames /\ UNCHANGED <<seen, link, ends>>

\* A command ends, a window is closed.
Leave(c) ==
  /\ step[c] = "connected"
  /\ link' = [link EXCEPT ![c] = None]
  /\ Goes(c, "idle")
  /\ KeepNames /\ KeepDaemons /\ UNCHANGED seen

----------------------------------------------------------------------------

DaemonStep(d) ==
  \/ Prepare(d) \/ Probe(d) \/ Clear(d) \/ Bind(d)
  \/ WriteDescriptor(d) \/ WriteFails(d)
  \/ Close(d) \/ RemoveEndpoint(d) \/ CompareDescriptor(d) \/ RemoveDescriptor(d)
  \/ Die(d)

CommandStep(c) ==
  \/ Ensure(c) \/ ProbeNamed(c) \/ ProbeCanonical(c)
  \/ CleanDescriptor(c) \/ CleanEndpoint(c) \/ EnsureSpawns(c)
  \/ Poll(c) \/ ProbePolled(c)

Next ==
  \/ \E d \in Daemons : DaemonStep(d)
  \/ \E c \in Commands : CommandStep(c)
  \/ \E c \in Desktops : ConnectOrStart(c) \/ DesktopSpawns(c)
  \/ \E c \in Clients : Open(c) \/ Dial(c) \/ GiveUp(c) \/ Leave(c)

Spec == Init /\ [][Next]_vars

----------------------------------------------------------------------------

DaemonPhases ==
  {"unborn", "preparing", "probing", "clearing", "binding", "writing", "serving",
   "abandoning", "closing", "comparing", "removing", "gone"}

ClientSteps ==
  {"idle", "probeNamed", "probeCanonical", "rmDescriptor", "rmEndpoint", "spawn",
   "poll", "probePolled", "open", "start", "dial", "spawnDesktop", "reopen",
   "redial", "connected"}

TypeOK ==
  /\ descriptor \in Daemons \union {None} /\ endpoint \in Daemons \union {None}
  /\ phase \in [Daemons -> DaemonPhases]
  /\ step \in [Clients -> ClientSteps]
  /\ seen \in [Clients -> Daemons \union {None}]
  /\ link \in [Clients -> Daemons \union {None}]
  /\ ends \in 0..MaxEnds

\* ensureDaemon removes the descriptor and the endpoint "only when daemon is not
\* live": no daemon listens while a client is about to remove them.
CleanupSparesLive ==
  \A c \in Clients :
    step[c] \in {"rmDescriptor", "rmEndpoint"} => \A d \in Daemons : ~Listening(d)

\* A daemon that serves can be found: the descriptor and the endpoint are its
\* own, so that the sessions it owns are reached by a client that starts later.
ServingIsFound ==
  \A d \in Daemons : phase[d] = "serving" => descriptor = d /\ endpoint = d

\* A client is connected to a daemon that wrote the descriptor it read and that
\* has not ended: never to one that bound the endpoint after another's descriptor.
LinkedToWriter ==
  \A c \in Clients : step[c] = "connected" => link[c] = seen[c] /\ Listening(link[c])

=============================================================================
