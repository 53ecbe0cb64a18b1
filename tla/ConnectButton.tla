--------------------------- MODULE ConnectButton ----------------------------
(***************************************************************************)
(* The Connect button of the page (web/src/main.ts) and the life of the    *)
(* WebRtcSession objects it creates (web/src/webrtc.ts). The page keeps    *)
(* one "session" and one "inputController"; the button is never disabled,  *)
(* so it may be clicked at any time, also while connect() is pending.      *)
(*                                                                         *)
(* JavaScript runs one task at a time, and what follows an await of a      *)
(* settled promise belongs to the same task: a click that disconnects, and *)
(* an error event with the catch branch of connect() and the close event   *)
(* behind it, are one step each. The events of a WebSocket are tasks of    *)
(* their own and arrive after its close() has returned, possibly after the *)
(* next click.                                                             *)
(***************************************************************************)
CONSTANTS
  Sessions,   \* the WebRtcSession objects a behaviour can create (a bound)
  NoSession   \* null

ASSUME ConnectAssumption == NoSession \notin Sessions

VARIABLES
  session,     \* the page's session
  controller,  \* the session the page's inputController sends to
  socket,      \* the WebSocket of each session
  event,       \* the event its WebSocket still has to deliver
  pc,          \* the peer connection of each session
  stats,       \* its statistics timer runs
  label,       \* the text of the button
  painter,     \* history: the session that wrote it last
  lost         \* history: sessions the page let go of without closing them

vars == <<session, controller, socket, event, pc, stats, label, painter, lost>>
pageVars == <<session, controller>>

Alive(s) == pc[s] \notin {"none", "closed"}

Init ==
  /\ session = NoSession /\ controller = NoSession
  /\ socket = [s \in Sessions |-> "none"]
  /\ event = [s \in Sessions |-> "none"]
  /\ pc = [s \in Sessions |-> "none"]
  /\ stats = [s \in Sessions |-> FALSE]
  /\ label = "Connect"
  /\ painter = NoSession
  /\ lost = {}

\* onStateChange of session s.
Shows(s, text) == label' = text /\ painter' = s

\* close(): a WebSocket that is still connecting will report an error.
CloseSession(s) ==
  /\ socket' = [socket EXCEPT ![s] = "closed"]
  /\ event' = [event EXCEPT ![s] = CASE socket[s] = "connecting" -> "error"
                                     [] socket[s] = "open" -> "close"
                                     [] OTHER -> @]
  /\ pc' = [pc EXCEPT ![s] = "closed"]
  /\ stats' = [stats EXCEPT ![s] = FALSE]
  /\ Shows(s, "Connect")

-----------------------------------------------------------------------------
(* The button.                                                             *)

ClickConnects(s) ==
  /\ session = NoSession
  /\ socket[s] = "none"
  /\ session' = s
  /\ controller' = s
  /\ socket' = [socket EXCEPT ![s] = "connecting"]
  /\ pc' = [pc EXCEPT ![s] = "new"]
  /\ Shows(s, "Connecting")
  /\ UNCHANGED <<event, stats, lost>>

ClickDisconnects ==
  /\ session # NoSession
  /\ session' = NoSession
  /\ controller' = NoSession
  /\ CloseSession(session)
  /\ UNCHANGED lost

-----------------------------------------------------------------------------
(* The WebSocket.                                                          *)

SocketOpens(s) ==
  /\ socket[s] = "connecting"
  /\ socket' = [socket EXCEPT ![s] = "open"]
  /\ UNCHANGED <<pageVars, event, pc, stats, label, painter, lost>>

\* The host cannot be reached, or it or the network ends the connection.
SocketEnds(s) ==
  /\ socket[s] \in {"connecting", "open"}
  /\ socket' = [socket EXCEPT ![s] = "closed"]
  /\ event' = [event EXCEPT ![s] =
                 IF socket[s] = "connecting" THEN "error" ELSE "close"]
  /\ UNCHANGED <<pageVars, pc, stats, label, painter, lost>>

\* (mutant: the catch branch does not close the session)
ConnectFailsMut(s) ==
  /\ event[s] = "error"
  /\ controller # NoSession
  /\ session' = NoSession
  /\ controller' = NoSession
  /\ lost' = lost \cup ({session} \ {s, NoSession})
  /\ event' = [event EXCEPT ![s] = "none"]
  /\ UNCHANGED <<socket, pc, stats, label, painter>>

\* (mutant: the page's session is not cleared)
ConnectFailsKeepsMut(s) ==
  /\ event[s] = "error"
  /\ controller # NoSession
  /\ controller' = NoSession
  /\ event' = [event EXCEPT ![s] = "none"]
  /\ pc' = [pc EXCEPT ![s] = "closed"]
  /\ stats' = [stats EXCEPT ![s] = FALSE]
  /\ Shows(s, "Connect")
  /\ UNCHANGED <<session, socket, lost>>

\* onerror rejects connect(), whose catch branch stops inputController, closes
\* s and clears the page's variables, whichever session they hold by now.
ConnectFails(s) ==
  /\ event[s] = "error"
  /\ controller # NoSession
  /\ session' = NoSession
  /\ controller' = NoSession
  /\ lost' = lost \cup ({session} \ {s, NoSession})
  /\ event' = [event EXCEPT ![s] = "none"]
  /\ pc' = [pc EXCEPT ![s] = "closed"]
  /\ stats' = [stats EXCEPT ![s] = FALSE]
  /\ Shows(s, "Connect")
  /\ UNCHANGED socket

\* The same while inputController is null: its stop() throws, the rest of the
\* catch branch is skipped; the close event shows "disconnected".
ConnectFailsLate(s) ==
  /\ event[s] = "error"
  /\ controller = NoSession
  /\ event' = [event EXCEPT ![s] = "none"]
  /\ Shows(s, "Connect")
  /\ UNCHANGED <<pageVars, socket, pc, stats, lost>>

\* ws.onclose: it shows "disconnected" unless this session's own peer
\* connection is up, and also for a session that was closed before.
SocketReportsClose(s) ==
  /\ event[s] = "close"
  /\ event' = [event EXCEPT ![s] = "none"]
  /\ IF pc[s] = "connected" THEN UNCHANGED <<label, painter>>
                            ELSE Shows(s, "Connect")
  /\ UNCHANGED <<pageVars, socket, pc, stats, lost>>

-----------------------------------------------------------------------------
(* The peer connection.                                                    *)

\* handleSignal has answered the offer (module Signaling).
Negotiates(s) ==
  /\ socket[s] = "open"
  /\ pc[s] = "new"
  /\ pc' = [pc EXCEPT ![s] = "negotiated"]
  /\ UNCHANGED <<pageVars, socket, event, stats, label, painter, lost>>

PeerConnects(s) ==
  /\ pc[s] \in {"negotiated", "disconnected"}
  /\ pc' = [pc EXCEPT ![s] = "connected"]
  /\ stats' = [stats EXCEPT ![s] = TRUE]
  /\ Shows(s, "Disconnect")
  /\ UNCHANGED <<pageVars, socket, event, lost>>

\* (mutant: "disconnected" is taken for a passing state)
PeerDisconnectsMut(s) ==
  /\ pc[s] \in {"negotiated", "connected"}
  /\ pc' = [pc EXCEPT ![s] = "disconnected"]
  /\ UNCHANGED <<pageVars, socket, event, stats, label, painter, lost>>

PeerDisconnects(s) ==
  /\ pc[s] \in {"negotiated", "connected"}
  /\ pc' = [pc EXCEPT ![s] = "disconnected"]
  /\ Shows(s, "Connect")
  /\ UNCHANGED <<pageVars, socket, event, stats, lost>>

\* The statistics go on.
PeerFails(s) ==
  /\ pc[s] \in {"negotiated", "connected", "disconnected"}
  /\ pc' = [pc EXCEPT ![s] = "failed"]
  /\ Shows(s, "Connect")
  /\ UNCHANGED <<pageVars, socket, event, stats, lost>>

SocketReports(s) ==
  ConnectFails(s) \/ ConnectFailsLate(s) \/ SocketReportsClose(s)

\* No further session in this behaviour (bound of the model).
Over ==
  /\ session = NoSession
  /\ \A s \in Sessions : socket[s] = "closed"
  /\ UNCHANGED vars

Next ==
  \/ ClickDisconnects
  \/ \E s \in Sessions :
       \/ ClickConnects(s)
       \/ SocketOpens(s) \/ SocketEnds(s) \/ SocketReports(s)
       \/ Negotiates(s)
       \/ PeerConnects(s) \/ PeerDisconnects(s) \/ PeerFails(s)
  \/ Over

\* The browser delivers its events; user, host and network owe nothing.
Fairness == \A s \in Sessions : WF_vars(SocketReports(s))

Spec == Init /\ [][Next]_vars /\ Fairness

-----------------------------------------------------------------------------
(* Properties.                                                             *)

\* Each variable stays in its type.
TypeOK ==
  /\ session \in Sessions \cup {NoSession}
  /\ controller \in Sessions \cup {NoSession}
  /\ painter \in Sessions \cup {NoSession}
  /\ socket \in [Sessions -> {"none", "connecting", "open", "closed"}]
  /\ event \in [Sessions -> {"none", "error", "close"}]
  /\ pc \in [Sessions -> {"none", "new", "negotiated", "connected",
                          "disconnected", "failed", "closed"}]
  /\ stats \in [Sessions -> BOOLEAN]
  /\ label \in {"Connect", "Connecting", "Disconnect"}
  /\ lost \in SUBSET Sessions

\* A session whose peer connection or WebSocket is alive is the page's own, so
\* that the next click closes it. The one exception is a session that was the
\* page's when the catch branch of an earlier connect() cleared it.
LiveSessionIsOurs ==
  \A s \in Sessions :
    Alive(s) \/ socket[s] \in {"connecting", "open"} => s \in {session} \cup lost

\* Input is captured for the session the page has, and for no other.
InputFeedsSession == controller # NoSession => controller = session

\* A statistics timer does not outlive its session, whichever of close(), the
\* catch branch and the state events came first.
StatsEndWithSession == \A s \in Sessions : stats[s] => Alive(s)

\* As long as no other session wrote it last, the button says "Disconnect" if
\* and only if the page's session is connected; it never says so on behalf of
\* a session the page has closed.
LabelAgrees ==
  /\ painter # NoSession /\ painter = session =>
       (label = "Disconnect" <=> pc[session] = "connected")
  /\ label = "Disconnect" => painter \in {session} \cup lost

\* A connect() that failed gives the page free for the next one without a
\* click: no dead session stays behind the button.
FailedConnectResolves ==
  \A s \in Sessions : event[s] = "error" /\ session = s ~> session # s
=============================================================================
