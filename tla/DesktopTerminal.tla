--------------------------- MODULE DesktopTerminal ---------------------------
(***************************************************************************)
(* A terminal of the daemon in a window of the desktop application.  The   *)
(* main process has one connection to the daemon, which may be lost and is *)
(* made again; it fetches output and hands it to the window one batch at a *)
(* time, each batch acknowledged before the next, and reports the exit     *)
(* behind the output.  The window may be reloaded at any time.             *)
(*                                                                         *)
(* What the daemon sent may be read in one piece: its frames are then      *)
(* handled one after the other, and what awaited the responses among them  *)
(* goes on only afterwards.                                                *)
(***************************************************************************)
EXTENDS OutputRing

CONSTANTS
  None,        \* nothing
  Chunks,      \* how many bytes the terminal may write at a time
  MaxBytes,    \* bound: bytes of output
  MaxDrops,    \* bound: lost connections
  MaxReloads,  \* bound: reloads of the window
  MaxTouches   \* bound: changes of a terminal that has ended

\* An entry of terminalDeliveries: the window's generation, what it has acknowledged,
\* the end of the batch that it has not, and the exit that is held back: behind which
\* byte it comes, and its sequence.
Entries == [of : Nat, cursor : Nat, inFlight : Nat \cup {None}, pumping : BOOLEAN,
            pendingExit : Nat \cup {None}, exitSequence : Nat]

ASSUME WindowAssumption ==
  /\ Chunks \subseteq 1..MaxBytes
  /\ {MaxBytes, MaxDrops, MaxReloads, MaxTouches} \subseteq Nat
  /\ None \notin Nat \cup Entries

VARIABLES
  ring, ended,  \* the daemon's terminal: its output, and whether its end is published
  touched,      \* by how much its sequence has grown since then
  requests,     \* requests that the daemon has not answered
  channel,      \* frames that the main process has not handled
  resolved,     \* responses handled, for which somebody still waits
  link,         \* "down", "listing", "up"
  inventory,    \* what the main process knows of the terminal
  handler,      \* terminal-inventory under way: "no", "list", "control"
  listed,       \* the inventory item it goes on with
  older,        \* an earlier page's terminal-inventory that still awaits control
  overwritten,  \* history: it has replaced the entry of the present page
  delivery,     \* the window's entry of terminalDeliveries
  ready,        \* the window is in readyRenderers
  window,       \* "loading", "asked", "ready", "failed"
  toWindow, toMain,  \* messages between the main process and the window
  sequence,     \* the tab's sequence when it has handled what is on its way to it
  outputCursor, shown, told,  \* the tab: its cursor, its bytes, exitPresented
  drops, reloads  \* counters

daemon == <<ring, ended, touched>>
wire == <<requests, channel, resolved, link, drops>>
superseded == <<older, overwritten>>
main == <<inventory, handler, listed, superseded, delivery, ready, sequence>>
tab == <<window, outputCursor, shown, told, reloads>>
messages == <<toWindow, toMain>>
vars == <<daemon, wire, main, tab, messages>>

\* publicTerminal; sequences count from the terminal's end.
Item == [next |-> ring.next, oldest |-> ring.oldest, final |-> ended,
         sequence |-> touched]

\* The connection is up, the window is about to load.
Init ==
  /\ ring = EmptyRing /\ ended = FALSE /\ touched = 0
  /\ requests = <<>> /\ channel = <<>> /\ resolved = <<>> /\ link = "up" /\ drops = 0
  /\ inventory = Item /\ handler = "no" /\ listed = None
  /\ older = None /\ overwritten = FALSE
  /\ delivery = None /\ ready = FALSE /\ sequence = 0
  /\ window = "loading" /\ outputCursor = 0 /\ shown = <<>> /\ told = FALSE
  /\ reloads = 0
  /\ toWindow = <<>> /\ toMain = <<>>

-----------------------------------------------------------------------------
(* The daemon.                                                             *)

Say(m) == channel' = IF link = "down" THEN channel ELSE Append(channel, m)

Output ==
  /\ ~ended
  /\ \E n \in Chunks :
       /\ ring.next + n <= MaxBytes
       /\ ring' = AppendOutput(ring, n)
  /\ Say([op |-> "output", next |-> ring'.next])
  /\ UNCHANGED <<ended, touched, requests, resolved, link, drops, main, tab, messages>>

End ==
  /\ ~ended /\ ended' = TRUE
  /\ Say([op |-> "exit", next |-> ring.next])
  /\ UNCHANGED <<ring, touched, requests, resolved, link, drops, main, tab, messages>>

\* A terminal that has ended is hidden or shown, or its end reaches the state at last:
\* its sequence grows.
Touch ==
  /\ ended /\ touched < MaxTouches /\ touched' = touched + 1
  /\ Say([op |-> "touched", item |-> [Item EXCEPT !.sequence = touched + 1]])
  /\ UNCHANGED <<ring, ended, requests, resolved, link, drops, main, tab, messages>>

\* dispatch of list and attach.
Serve ==
  /\ requests # <<>>
  /\ LET request == Head(requests) IN
     Say(CASE request.op = "attach" ->
                [op |-> "slice", of |-> request.of, item |-> Item,
                 slice |-> OutputSlice(ring, request.cursor),
                 truncated |-> request.cursor < ring.oldest]
           [] request.op = "list" -> [op |-> "list", to |-> request.to, item |-> Item])
  /\ requests' = Tail(requests)
  /\ UNCHANGED <<daemon, resolved, link, drops, main, tab, messages>>

-----------------------------------------------------------------------------
(* Delivery to the window.                                                 *)

\* Fault: a terminal that has ended already is delivered like a live one.
EntryLive(item) ==
  [of |-> reloads, cursor |-> item.oldest, inFlight |-> None, pumping |-> FALSE,
   pendingExit |-> None, exitSequence |-> 0]

\* A fresh entry; "of" tells the entries of one window apart.
Entry(item) ==
  [of |-> reloads, cursor |-> item.oldest, inFlight |-> None, pumping |-> FALSE,
   pendingExit |-> IF item.final THEN item.next ELSE None,
   exitSequence |-> item.sequence]

\* The exit of item is held back.
HoldExit(d, item) ==
  IF d = None THEN None
  ELSE [d EXCEPT !.pendingExit = item.next, !.exitSequence = item.sequence]

\* Fault: the exit overtakes the output.
ExitDueAtOnce(d) == d.pendingExit # None

\* sendPendingExit sends.
ExitDue(d) ==
  d.pendingExit # None /\ d.inFlight = None /\ d.cursor >= d.pendingExit

SendExit(d) ==
  /\ delivery' = [d EXCEPT !.pendingExit = None]
  /\ toWindow' = Append(toWindow,
       [op |-> "exit", sequence |-> d.exitSequence, after |-> sequence])

\* Fault: the next batch does not wait for the acknowledgement.
FreeUnacknowledged(d, isReady) == isReady /\ d # None /\ ~d.pumping

Free(d, isReady) == isReady /\ d # None /\ ~d.pumping /\ d.inFlight = None

\* pumpTerminal, up to its await: a request that cannot be made fails.
Pump(d, isReady) ==
  IF ~Free(d, isReady) THEN delivery' = d /\ UNCHANGED <<requests, toWindow>>
  ELSE IF ExitDue(d) THEN SendExit(d) /\ UNCHANGED requests
  ELSE IF link' = "down" THEN delivery' = d /\ UNCHANGED <<requests, toWindow>>
  ELSE /\ delivery' = [d EXCEPT !.pumping = TRUE]
       /\ requests' = Append(requests, [op |-> "attach", of |-> d.of, cursor |-> d.cursor])
       /\ UNCHANGED toWindow

\* wakeTerminalOwners and queueTerminalExit, in the handling of an event.
Event(op) ==
  /\ channel # <<>> /\ Head(channel).op = op
  /\ channel' = Tail(channel)
  /\ UNCHANGED <<daemon, resolved, link, drops, handler, listed, superseded, ready, tab,
                 toMain>>

OnOutputAvailable ==
  /\ Event("output")
  /\ inventory' = [inventory EXCEPT !.next = Head(channel).next]
  /\ Pump(delivery, ready) /\ UNCHANGED sequence

OnExit ==
  /\ Event("exit")
  /\ inventory' = [inventory EXCEPT !.next = Head(channel).next, !.final = TRUE]
  /\ Pump(HoldExit(delivery, inventory'), ready) /\ UNCHANGED sequence

\* forwardTerminalStatus: a page that is ready is told of the new sequence.
OnTouched ==
  /\ Event("touched")
  /\ inventory' = Head(channel).item
  /\ sequence' = IF ready THEN Head(channel).item.sequence ELSE sequence
  /\ UNCHANGED <<delivery, requests, toWindow>>

\* handleFrame of a response: the inventory is updated, who waits will go on.
OnResponse ==
  /\ channel # <<>> /\ Head(channel).op \in {"slice", "list"}
  /\ channel' = Tail(channel)
  /\ resolved' = Append(resolved, Head(channel))
  /\ inventory' = Head(channel).item
  /\ UNCHANGED <<daemon, requests, link, drops, handler, listed, superseded, delivery,
                 ready, sequence, tab, messages>>

\* The first who waits goes on.
Continue(op) ==
  /\ resolved # <<>> /\ Head(resolved).op = op
  /\ resolved' = Tail(resolved)
  /\ UNCHANGED <<daemon, channel, drops, inventory, superseded, tab, toMain>>

\* The response is for the window's present entry.
IsCurrent(response) == delivery # None /\ delivery.of = response.of /\ ready

\* The rest of pumpTerminal.
OnBatch ==
  /\ Continue("slice")
  /\ LET response == Head(resolved)
         d == [delivery EXCEPT !.pumping = FALSE]
     IN
     IF ~IsCurrent(response) THEN UNCHANGED <<delivery, toWindow>>
     ELSE IF response.slice.data # <<>> \/ response.truncated
     THEN /\ delivery' = [d EXCEPT !.inFlight = response.slice.end]
          /\ toWindow' = Append(toWindow,
               [op |-> "data", slice |-> response.slice, truncated |-> response.truncated])
     ELSE IF ExitDue(d) THEN SendExit(d)
     ELSE delivery' = d /\ UNCHANGED toWindow
  /\ UNCHANGED <<requests, link, handler, listed, ready, sequence>>

\* The connection is there again: what was missed is made up for.
OnConnected ==
  /\ Continue("list") /\ Head(resolved).to = "connect"
  /\ link' = "up"
  /\ Pump(IF inventory.final THEN HoldExit(delivery, inventory) ELSE delivery, ready)
  /\ UNCHANGED <<handler, listed, ready, sequence>>

\* The window's inventory is complete: it gets an entry, and the answer.
Answer(item) ==
  /\ delivery' = Entry(item) /\ sequence' = item.sequence
  /\ handler' = "no" /\ listed' = None
  /\ toWindow' = IF window = "asked"
                 THEN Append(toWindow, [op |-> "inventory", item |-> item])
                 ELSE toWindow

\* terminal-inventory goes on: it may have to acquire control of this terminal first, or
\* of one that is listed before it.
OnListed ==
  /\ Continue("list") /\ Head(resolved).to = "window"
  /\ \/ Answer(Head(resolved).item)
     \/ /\ handler' = "control" /\ listed' = Head(resolved).item
        /\ delivery' = None /\ UNCHANGED <<sequence, toWindow>>
  /\ UNCHANGED <<requests, link, ready>>

\* The last of the acquisitions is answered, in whatever order with other frames.
OnControl ==
  /\ handler = "control" /\ Answer(listed)
  /\ UNCHANGED <<daemon, wire, inventory, superseded, ready, tab, toMain>>

\* terminal-inventory of an earlier page goes on after its acquisitions: it replaces the
\* entry, too, whatever has come of the present page's since.  A page whose own handler
\* is still to come or under way gets the entry of that one in the end.
OldAnswer ==
  /\ older # None /\ older' = None
  /\ IF handler = "no" /\ window \in {"asked", "ready"}
     THEN /\ delivery' = [Entry(older.item) EXCEPT !.of = older.of]
          /\ overwritten' = TRUE
     ELSE UNCHANGED <<delivery, overwritten>>
  /\ UNCHANGED <<daemon, wire, inventory, handler, listed, ready, sequence, tab, messages>>

\* Everything that waits for the daemon fails; an acquisition's failure is ignored.  An
\* earlier page's handler goes on, too, in any order with the present one's (OldAnswer).
Drop ==
  /\ resolved = <<>> /\ link # "down" /\ drops < MaxDrops
  /\ link' = "down" /\ drops' = drops + 1
  /\ channel' = <<>> /\ requests' = <<>>
  /\ CASE handler = "control" ->
            Answer(listed) /\ UNCHANGED window
       [] OTHER ->
            /\ delivery' = IF delivery = None THEN None
                           ELSE [delivery EXCEPT !.pumping = FALSE]
            /\ handler' = "no" /\ UNCHANGED <<listed, sequence, toWindow>>
            /\ window' = IF handler = "list" /\ window = "asked" THEN "failed" ELSE window
  /\ UNCHANGED <<daemon, resolved, inventory, superseded, ready, outputCursor, shown, told,
                 reloads, toMain>>

\* scheduleDaemonReconnect.
Reconnect ==
  /\ resolved = <<>> /\ link = "down"
  /\ link' = "listing" /\ requests' = <<[op |-> "list", to |-> "connect"]>>
  /\ UNCHANGED <<daemon, channel, resolved, drops, main, tab, messages>>

-----------------------------------------------------------------------------
(* The window, and what it sends to the main process.                      *)

\* did-start-loading: the tab and what is on the way to it and from it are gone.
Reload ==
  /\ resolved = <<>> /\ window # "loading" /\ reloads < MaxReloads
  /\ window' = "loading" /\ reloads' = reloads + 1
  /\ ready' = FALSE /\ delivery' = None
  /\ toWindow' = <<>> /\ toMain' = <<>>
  /\ outputCursor' = 0 /\ shown' = <<>> /\ told' = FALSE /\ sequence' = 0
  /\ UNCHANGED <<daemon, wire, inventory, handler, listed, superseded>>

\* The page asks for the inventory.  An earlier page's handler that has its list already
\* goes on beside the new one (bound: one of them at a time); one that has not is
\* answered before the new one, as lists come in the order in which they are asked for.
Ask ==
  /\ resolved = <<>> /\ window = "loading"
  /\ \/ handler = "no" /\ older' = older
     \/ /\ handler = "control" /\ older = None
        /\ older' = [item |-> listed, of |-> reloads - 1]
  /\ IF link = "down"
     THEN window' = "failed" /\ handler' = "no" /\ UNCHANGED requests
     ELSE /\ window' = "asked" /\ handler' = "list"
          /\ requests' = Append(requests, [op |-> "list", to |-> "window"])
  /\ listed' = None
  /\ UNCHANGED <<daemon, channel, resolved, link, drops, inventory, overwritten, delivery,
                 ready, sequence, outputCursor, shown, told, reloads, messages>>

Get(op) ==
  /\ toWindow # <<>> /\ Head(toWindow).op = op
  /\ toWindow' = Tail(toWindow)
  /\ UNCHANGED <<daemon, wire, main, reloads>>

Send(m) == toMain' = Append(toMain, m)

\* reconcileInventory and rendererReady.
GetInventory ==
  /\ Get("inventory")
  /\ window' = "ready" /\ outputCursor' = Head(toWindow).item.oldest
  /\ Send([op |-> "ready"])
  /\ UNCHANGED <<shown, told>>

\* applyTerminalEvent of data.
GetData ==
  /\ Get("data")
  /\ LET slice == Head(toWindow).slice IN
     IF slice.end <= outputCursor
     THEN /\ Send([op |-> "ack", cursor |-> outputCursor])
          /\ UNCHANGED <<outputCursor, shown>>
     ELSE /\ outputCursor' = slice.end /\ shown' = shown \o slice.data
          /\ Send([op |-> "ack", cursor |-> slice.end])
  /\ UNCHANGED <<window, told>>

\* applyTerminalEvent of an exit: one that is older than what the tab has seen is dropped.
GetExit ==
  /\ Get("exit")
  /\ LET exit == Head(toWindow) IN
     told' = (told \/ exit.sequence >= exit.after)
  /\ UNCHANGED <<toMain, window, outputCursor, shown>>

Receive(op) ==
  /\ resolved = <<>> /\ toMain # <<>> /\ Head(toMain).op = op
  /\ toMain' = Tail(toMain)
  /\ UNCHANGED <<daemon, channel, resolved, link, drops, inventory, handler, listed,
                 superseded, sequence, tab>>

\* renderer-ready.
OnReady ==
  /\ Receive("ready")
  /\ ready' = TRUE /\ Pump(delivery, TRUE)

\* terminal-output-ack.
OnAck ==
  /\ Receive("ack")
  /\ IF delivery = None \/ delivery.inFlight # Head(toMain).cursor
     THEN UNCHANGED <<delivery, requests, toWindow>>
     ELSE Pump([delivery EXCEPT !.cursor = delivery.inFlight, !.inFlight = None], ready)
  /\ UNCHANGED ready

-----------------------------------------------------------------------------

Main ==
  \/ OnOutputAvailable \/ OnExit \/ OnTouched \/ OnResponse
  \/ OnBatch \/ OnConnected \/ OnListed \/ OnControl \/ OldAnswer \/ OnReady \/ OnAck

Window == Ask \/ GetInventory \/ GetData \/ GetExit

Next == Output \/ End \/ Touch \/ Serve \/ Main \/ Window \/ Drop \/ Reconnect \/ Reload

Spec == Init /\ [][Next]_vars

\* The daemon answers, frames and messages arrive and are handled, a page that is
\* loading asks, and a lost connection is made again.
FairSpec ==
  /\ Spec
  /\ WF_vars(Serve) /\ WF_vars(Main) /\ WF_vars(Window) /\ WF_vars(Reconnect)

-----------------------------------------------------------------------------
(* Properties.                                                             *)

\* A tab shows the output in order, nothing twice, and misses only what the ring had
\* dropped, through lost connections and reloads (pumpTerminal, applyTerminalEvent),
\* unless an earlier page's handler has replaced its entry.
ShownInOrder ==
  ~overwritten =>
    \A i \in 1..Len(shown) :
      LET before == IF i = 1 THEN -1 ELSE shown[i - 1] IN
      /\ before < shown[i]
      /\ shown[i] # before + 1 => ring.oldest >= shown[i]

\* The exit is presented below the last byte of output, never above output that is
\* still fetched, in flight or unacknowledged (sendPendingExit), unless an earlier
\* page's handler has replaced the entry.
ExitBelowOutput ==
  ~overwritten /\ told /\ ring.next > 0 => shown # <<>> /\ Last(shown) = ring.next - 1

\* The exit that is held back, or on its way, is older than what the tab will have seen
\* by then.
Overtaken ==
  \/ delivery # None /\ delivery.pendingExit # None /\ delivery.exitSequence < sequence
  \/ \E i \in 1..Len(toWindow) :
       toWindow[i].op = "exit" /\ toWindow[i].sequence < toWindow[i].after

\* A window that is reloaded after the terminal's end presents the end, unless the
\* daemon cannot be reached when the page asks for its inventory (the page's own
\* request fails then, and is not repeated), an earlier page's handler replaces the
\* entry, or a later change of the terminal reaches the page before its exit.
ReloadPresentsExit ==
  ended /\ window = "loading" ~>
    told \/ window = "failed" \/ overwritten \/ Overtaken

\* That it presents the end without the last two exceptions (desktop_overlap.cfg,
\* desktop_hidden.cfg) fails.
EveryReloadPresentsExit == ended /\ window = "loading" ~> told \/ window = "failed"

\* A window that is there when the terminal ends presents the end.
WindowPresentsExit == ended /\ window = "ready" ~> told \/ window # "ready"

=============================================================================
