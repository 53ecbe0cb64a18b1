---------------------------- MODULE InputChannel ----------------------------
(***************************************************************************)
(* Input from the browser to the host: InputController (web/src/input.ts)  *)
(* and WebRtcSession (web/src/webrtc.ts) on one side, the input            *)
(* DataChannel in between, Session (host/internal/session) and its Sink on *)
(* the other. The DataChannel is created unordered and with zero           *)
(* retransmits, so a message may be lost or overtake another.              *)
(*                                                                         *)
(* The Sink is the boundary to the operating system: "held" is what the    *)
(* calls of Handle and ReleaseAll it has seen so far amount to. Mouse      *)
(* moves and wheel events leave nothing behind and are left out.           *)
(***************************************************************************)
EXTENDS Naturals, Sequences, SequencesExt

CONSTANTS
  Keys,        \* keyboard keys
  Buttons,     \* mouse buttons
  Pads,        \* the states of the gamepad
  Neutral,     \* the state of a gamepad nobody touches
  NoPad,       \* lastGamepadPayload has no entry, nothing was sent
  MaxInFlight  \* messages in the channel while the user goes on (a bound)

ASSUME InputAssumption ==
  /\ Neutral \in Pads
  /\ NoPad \notin Pads
  /\ Keys \cap Buttons = {}
  /\ MaxInFlight \in Nat \ {0}

VARIABLES
  down,       \* keys and buttons the user holds down
  pad,        \* what the user does with the gamepad
  focused,    \* the browser window has the focus
  locked,     \* document.pointerLockElement is the video element
  capturing,  \* InputController is started
  lastPad,    \* InputController.lastGamepadPayload
  channel,    \* readyState of WebRtcSession.input
  signaling,  \* the WebSocket between the two
  net,        \* messages in the DataChannel, in the order they were sent
  host,       \* how far Session.Start and Session.Close are
  listening,  \* the host's DataChannel still delivers messages
  held,       \* keys and buttons that are down for the Sink
  heldPad,    \* the gamepad as the Sink has it
  gap,        \* history: a message was lost or overtaken
  orphans,    \* history: buttons held when the pointer lock was left
  sentPad     \* history: the gamepad state last given to the channel

vars == <<down, pad, focused, locked, capturing, lastPad, channel, signaling,
          net, host, listening, held, heldPad, gap, orphans, sentPad>>
userVars == <<down, pad, focused, locked>>
browserVars == <<capturing, lastPad, channel, sentPad, orphans>>
hostVars == <<host, listening>>
sinkVars == <<held, heldPad>>

Control(c, isDown) == [type |-> "control", code |-> c, down |-> isDown]
Gamepad(p) == [type |-> "gamepad", state |-> p]
ReleaseAll == [type |-> "release_all"]
Messages ==
  [type : {"control"}, code : Keys \cup Buttons, down : BOOLEAN]
    \cup [type : {"gamepad"}, state : Pads] \cup {ReleaseAll}

Init ==
  /\ down = {}
  /\ pad = Neutral
  /\ focused = TRUE
  /\ locked = FALSE
  /\ capturing = FALSE
  /\ lastPad = NoPad
  /\ channel = "none"
  /\ signaling = "none"
  /\ net = <<>>
  /\ host = "none"
  /\ listening = FALSE
  /\ held = {}
  /\ heldPad = Neutral
  /\ gap = FALSE
  /\ orphans = {}
  /\ sentPad = NoPad

\* The user goes on only while the channel has room (bound of the model).
Room == Len(net) < MaxInFlight

\* sendInput: what is sent while the channel is not open is dropped.
Send(msgs) == net' = IF channel = "open" THEN net \o msgs ELSE net

-----------------------------------------------------------------------------
(* The session: the Connect button, the peer connection, the way down.     *)

Connect ==
  /\ signaling = "none"
  /\ signaling' = "open"
  /\ capturing' = TRUE
  /\ host' = "reading"
  /\ UNCHANGED <<userVars, lastPad, channel, sentPad, orphans, net, listening,
                 sinkVars, gap>>

ChannelOpens ==
  /\ channel = "none"
  /\ signaling = "open"
  /\ channel' = "open"
  /\ listening' = TRUE
  /\ UNCHANGED <<userVars, capturing, lastPad, sentPad, orphans, signaling,
                 net, host, sinkVars, gap>>

\* The Disconnect button: InputController.stop and WebRtcSession.close each
\* send a release_all before the channel is closed.
Disconnect ==
  /\ capturing
  /\ capturing' = FALSE
  /\ Send(<<ReleaseAll, ReleaseAll>>)
  /\ channel' = "closed"
  /\ signaling' = "closed"
  /\ UNCHANGED <<userVars, lastPad, sentPad, orphans, hostVars, sinkVars, gap>>

\* The page or its network is gone, without a word to the host.
BrowserVanishes ==
  /\ capturing
  /\ capturing' = FALSE
  /\ locked' = FALSE
  /\ channel' = "gone"
  /\ UNCHANGED <<down, pad, focused, lastPad, sentPad, orphans, signaling,
                 net, hostVars, sinkVars, gap>>

SignalingDrops ==
  /\ signaling = "open"
  /\ signaling' = "closed"
  /\ UNCHANGED <<userVars, browserVars, net, hostVars, sinkVars, gap>>

-----------------------------------------------------------------------------
(* InputController.                                                        *)

\* A key goes down, or repeats.
KeyDown(k) ==
  /\ Room
  /\ focused
  /\ down' = down \cup {k}
  /\ IF capturing THEN Send(<<Control(k, TRUE)>>) ELSE UNCHANGED net
  /\ UNCHANGED <<pad, focused, locked, browserVars, signaling, hostVars,
                 sinkVars, gap>>

\* The page only sees it if it has the focus.
KeyUp(k) ==
  /\ Room
  /\ k \in down
  /\ down' = down \ {k}
  /\ IF capturing /\ focused THEN Send(<<Control(k, FALSE)>>) ELSE UNCHANGED net
  /\ UNCHANGED <<pad, focused, locked, browserVars, signaling, hostVars,
                 sinkVars, gap>>

MouseDown(b) ==
  /\ Room
  /\ down' = down \cup {b}
  /\ IF capturing /\ locked THEN Send(<<Control(b, TRUE)>>) ELSE UNCHANGED net
  /\ UNCHANGED <<pad, focused, locked, browserVars, signaling, hostVars,
                 sinkVars, gap>>

MouseUp(b) ==
  /\ Room
  /\ b \in down
  /\ down' = down \ {b}
  /\ IF capturing /\ locked
       THEN Send(<<Control(b, FALSE)>>) /\ orphans' = orphans \ {b}
       ELSE UNCHANGED <<net, orphans>>
  /\ UNCHANGED <<pad, focused, locked, capturing, lastPad, channel, sentPad,
                 signaling, hostVars, sinkVars, gap>>

LockPointer ==
  /\ capturing /\ focused /\ ~locked
  /\ locked' = TRUE
  /\ UNCHANGED <<down, pad, focused, browserVars, signaling, net, hostVars,
                 sinkVars, gap>>

\* The user leaves the lock with Escape; no listener reacts to that.
UnlockPointer ==
  /\ locked
  /\ locked' = FALSE
  /\ orphans' = orphans \cup (down \cap Buttons)
  /\ UNCHANGED <<down, pad, focused, capturing, lastPad, channel, sentPad,
                 signaling, net, hostVars, sinkVars, gap>>

\* (mutant: nobody listens for blur)
BlurMut ==
  /\ Room
  /\ focused
  /\ focused' = FALSE
  /\ locked' = FALSE
  /\ orphans' = IF capturing THEN {} ELSE orphans
  /\ UNCHANGED <<down, pad, capturing, lastPad, channel, sentPad, signaling,
                 net, hostVars, sinkVars, gap>>

Blur ==
  /\ Room
  /\ focused
  /\ focused' = FALSE
  /\ locked' = FALSE
  /\ IF capturing THEN Send(<<ReleaseAll>>) /\ orphans' = {}
                  ELSE UNCHANGED <<net, orphans>>
  /\ UNCHANGED <<down, pad, capturing, lastPad, channel, sentPad, signaling,
                 hostVars, sinkVars, gap>>

Focus ==
  /\ ~focused
  /\ focused' = TRUE
  /\ UNCHANGED <<down, pad, locked, browserVars, signaling, net, hostVars,
                 sinkVars, gap>>

UserMovesPad(p) ==
  /\ pad' = p
  /\ UNCHANGED <<down, focused, locked, browserVars, signaling, net, hostVars,
                 sinkVars, gap>>

\* One animation frame. The state is remembered whether it was sent or not.
PollGamepads ==
  /\ Room
  /\ capturing
  /\ pad # lastPad
  /\ lastPad' = pad
  /\ Send(<<Gamepad(pad)>>)
  /\ sentPad' = IF channel = "open" THEN pad ELSE sentPad
  /\ UNCHANGED <<userVars, capturing, channel, orphans, signaling, hostVars,
                 sinkVars, gap>>

-----------------------------------------------------------------------------
(* The channel and the host's message callback.                            *)

Lose(i) ==
  /\ net' = RemoveAt(net, i)
  /\ gap' = TRUE
  /\ UNCHANGED <<userVars, browserVars, signaling, hostVars, sinkVars>>

\* handleInput: a release_all goes to ReleaseAll, the others to Handle.
Apply(m) ==
  /\ held' = CASE m.type = "control" -> IF m.down THEN held \cup {m.code}
                                                  ELSE held \ {m.code}
               [] m.type = "gamepad" -> held
               [] m.type = "release_all" -> {}
  /\ heldPad' = CASE m.type = "control" -> heldPad
                  [] m.type = "gamepad" -> m.state
                  [] m.type = "release_all" -> Neutral

\* OnMessage. A release_all that arrives last makes every gap good.
Deliver(i) ==
  /\ listening
  /\ Apply(net[i])
  /\ net' = RemoveAt(net, i)
  /\ gap' = (net # <<ReleaseAll>> /\ (gap \/ i > 1))
  /\ UNCHANGED <<userVars, browserVars, signaling, hostVars>>

SinkReleasesAll == held' = {} /\ heldPad' = Neutral

\* ReadJSON fails, Start returns, Close begins with a ReleaseAll of its own.
SessionEnds ==
  /\ host = "reading"
  /\ signaling = "closed"
  /\ host' = "ending"
  /\ SinkReleasesAll
  /\ UNCHANGED <<userVars, browserVars, signaling, net, listening, gap>>

\* Close goes on to pc.Close; messages already read are still handled.
PeerCloses ==
  /\ host = "ending"
  /\ host' = "closed"
  /\ UNCHANGED <<userVars, browserVars, signaling, net, listening, sinkVars,
                 gap>>

\* OnConnectionStateChange(Closed), on a goroutine of its own.
PeerCloseReported ==
  /\ host = "closed"
  /\ host' = "reported"
  /\ SinkReleasesAll
  /\ UNCHANGED <<userVars, browserVars, signaling, net, listening, gap>>

\* (mutant: the channel's OnClose only logs)
ChannelClosesMut ==
  /\ listening
  /\ channel = "closed" \/ host \in {"closed", "reported"}
  /\ listening' = FALSE
  /\ UNCHANGED <<userVars, browserVars, signaling, net, host, sinkVars, gap>>

\* OnClose of the channel, after its last message: the browser closed it, or
\* the host's peer connection is closed.
ChannelCloses ==
  /\ listening
  /\ channel = "closed" \/ host \in {"closed", "reported"}
  /\ listening' = FALSE
  /\ SinkReleasesAll
  /\ UNCHANGED <<userVars, browserVars, signaling, net, host, gap>>

-----------------------------------------------------------------------------
UserStep ==
  \/ \E k \in Keys : KeyDown(k) \/ KeyUp(k)
  \/ \E b \in Buttons : MouseDown(b) \/ MouseUp(b)
  \/ \E p \in Pads : UserMovesPad(p)
  \/ LockPointer \/ UnlockPointer \/ Blur \/ Focus
  \/ Connect \/ Disconnect \/ BrowserVanishes

Teardown == SessionEnds \/ PeerCloses \/ PeerCloseReported \/ ChannelCloses

Next ==
  \/ UserStep
  \/ ChannelOpens \/ SignalingDrops \/ PollGamepads
  \/ \E i \in 1..Len(net) : Lose(i) \/ Deliver(i)
  \/ Teardown

\* The host's own steps towards the end of a session, nothing else: neither
\* the user, nor the network, nor the browser owes the host anything.
Fairness ==
  /\ WF_vars(SessionEnds)
  /\ WF_vars(PeerCloses)
  /\ WF_vars(ChannelCloses)

Spec == Init /\ [][Next]_vars /\ Fairness

-----------------------------------------------------------------------------
(* Properties.                                                             *)

\* Each variable stays in its type.
TypeOK ==
  /\ down \in SUBSET (Keys \cup Buttons) /\ held \in SUBSET (Keys \cup Buttons)
  /\ orphans \in SUBSET Buttons
  /\ pad \in Pads /\ heldPad \in Pads
  /\ lastPad \in Pads \cup {NoPad} /\ sentPad \in Pads \cup {NoPad}
  /\ focused \in BOOLEAN /\ locked \in BOOLEAN /\ capturing \in BOOLEAN
  /\ listening \in BOOLEAN /\ gap \in BOOLEAN
  /\ channel \in {"none", "open", "closed", "gone"}
  /\ signaling \in {"none", "open", "closed"}
  /\ net \in Seq(Messages)
  /\ host \in {"none", "reading", "ending", "closed", "reported"}

\* While the channel is open, and all that was sent has arrived in order or a
\* release_all has arrived since, the host holds nothing down that the user
\* has let go: neither a key released while the window had no focus nor a
\* stale gamepad state. The exception are buttons released after the pointer
\* lock was left.
NoStuckInput ==
  channel = "open" /\ net = <<>> /\ ~gap =>
    /\ held \subseteq down \cup orphans
    /\ heldPad \in {Neutral, lastPad}

\* Once the host's channel is closed nothing is held, whatever was lost or
\* delivered between the ReleaseAll calls of the teardown.
ClosedHoldsNothing == ~listening => held = {} /\ heldPad = Neutral

\* A browser that disconnects or is cut off leaves nothing pressed for good,
\* once the host has noticed.
DisconnectReleases ==
  signaling = "closed" ~> [](held = {} /\ heldPad = Neutral)

\* Once the connection is up the state of the gamepad is sent to the host, as
\* README.md of the host says of all input: a state that pollGamepads takes
\* for sent has been given to the open channel.
RememberedPadWasSent == channel = "open" => sentPad = lastPad
=============================================================================
