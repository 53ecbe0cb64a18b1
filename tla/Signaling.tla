----------------------------- MODULE Signaling ------------------------------
(***************************************************************************)
(* One session's negotiation over the WebSocket of /ws/session: Session    *)
(* (host/internal/session) offers, WebRtcSession (web/src/webrtc.ts)       *)
(* answers, both trickle their ICE candidates.                             *)
(*                                                                         *)
(* On the host three kinds of goroutines write to the socket, one at a     *)
(* time under writeMu: Start, the candidate callback and the state         *)
(* callback. In the browser every message starts an asynchronous           *)
(* handleSignal; its operations on the peer connection are carried out in  *)
(* the order they were requested. Two facts of the libraries matter: pion  *)
(* puts the candidates gathered so far into LocalDescription(), and a      *)
(* browser refuses a candidate while it has no remote description.         *)
(*                                                                         *)
(* The browser's candidates surface only after setLocalDescription is      *)
(* resolved, and the answer is sent in the continuation of that very task. *)
(* The host never sends "session-ended", and the browser's page sends only *)
(* well-formed messages; both are left out.                                *)
(***************************************************************************)
EXTENDS Sequences, SequencesExt

CONSTANTS
  HostCandidates,    \* what the host's ICE agent may gather
  BrowserCandidates  \* what the browser's ICE agent may gather

ASSUME SignalingAssumption == HostCandidates \cap BrowserCandidates = {}

VARIABLES
  start,         \* how far Start and then Close are
  gathered,      \* host candidates the agent has found
  sent,          \* those whose callback has run
  local,         \* candidates in the description Start has read
  link,          \* connection state of the host's peer connection
  hostRemote,    \* the host's remote description
  hostKnows,     \* browser candidates the host has added
  toBrowser,     \* messages on the WebSocket to the browser
  toHost,        \* messages on the WebSocket to the host
  socket,        \* the WebSocket: open, or who ended it
  ws,            \* readyState of WebRtcSession.ws
  page,          \* how far handleSignal is with the offer
  browserKnows,  \* host candidates the browser has
  browserSent,   \* browser candidates handed to sendSignal
  shown,         \* onError has been called
  early          \* history: candidates in neither the offer nor behind it

vars == <<start, gathered, sent, local, link, hostRemote, hostKnows, toBrowser,
          toHost, socket, ws, page, browserKnows, browserSent, shown, early>>
agentVars == <<gathered, sent, early>>
hostVars == <<start, local, link, hostRemote, hostKnows>>
browserVars == <<ws, page, browserKnows, browserSent, shown>>

Offer(cs) == [type |-> "offer", candidates |-> cs]
Answer == [type |-> "answer"]
Ice(c) == [type |-> "ice", candidate |-> c]
Error == [type |-> "error"]
HostSignals ==
  [type : {"offer"}, candidates : SUBSET HostCandidates]
    \cup [type : {"ice"}, candidate : HostCandidates] \cup {Error}
ClientSignals == [type : {"ice"}, candidate : BrowserCandidates] \cup {Answer}

\* New is done, the browser's socket has just opened.
Init ==
  /\ start = "begin"
  /\ gathered = {} /\ sent = {} /\ local = {} /\ early = {}
  /\ link = "new"
  /\ hostRemote = "none" /\ hostKnows = {}
  /\ toBrowser = <<>> /\ toHost = <<>>
  /\ socket = "open" /\ ws = "open"
  /\ page = "waiting"
  /\ browserKnows = {} /\ browserSent = {}
  /\ shown = FALSE

-----------------------------------------------------------------------------
(* The host. A write to a socket that is gone is lost (and logged).        *)

HostSends(m) ==
  toBrowser' = IF socket = "open" THEN Append(toBrowser, m) ELSE toBrowser

\* CreateOffer and SetLocalDescription; the agent starts to gather.
DescribesItself ==
  /\ start = "begin"
  /\ start' = "described"
  /\ UNCHANGED <<local, link, hostRemote, hostKnows, agentVars, toBrowser,
                 toHost, socket, browserVars>>

\* (mutant: the description CreateOffer returned is used)
ReadsLocalDescriptionMut ==
  /\ start = "described"
  /\ start' = "offering"
  /\ local' = {}
  /\ UNCHANGED <<link, hostRemote, hostKnows, agentVars, toBrowser, toHost,
                 socket, browserVars>>

ReadsLocalDescription ==
  /\ start = "described"
  /\ start' = "offering"
  /\ local' = gathered
  /\ UNCHANGED <<link, hostRemote, hostKnows, agentVars, toBrowser, toHost,
                 socket, browserVars>>

SendsOffer ==
  /\ start = "offering"
  /\ start' = "reading"
  /\ HostSends(Offer(local))
  /\ UNCHANGED <<local, link, hostRemote, hostKnows, agentVars, toHost,
                 socket, browserVars>>

\* An error exit of Start before it reads; the write fails only once the
\* socket is gone.
StartFails ==
  /\ \/ start \in {"begin", "described"}
     \/ start = "offering" /\ socket # "open"
  /\ start' = "ending"
  /\ UNCHANGED <<local, link, hostRemote, hostKnows, agentVars, toBrowser,
                 toHost, socket, browserVars>>

Gathers(c) ==
  /\ start \notin {"begin", "done"}
  /\ link # "closed"
  /\ gathered' = gathered \cup {c}
  /\ UNCHANGED <<sent, early, hostVars, toBrowser, toHost, socket,
                 browserVars>>

\* OnICECandidate. Nothing keeps it from running before the offer is sent.
SendsCandidate(c) ==
  /\ c \in gathered \ sent
  /\ sent' = sent \cup {c}
  /\ HostSends(Ice(c))
  /\ early' = IF start = "offering" /\ c \notin local
              THEN early \cup {c} ELSE early
  /\ UNCHANGED <<gathered, hostVars, toHost, socket, browserVars>>

\* The read loop takes the next message off the socket.
Reads(m) ==
  /\ start = "reading"
  /\ toHost # <<>>
  /\ m = Head(toHost)
  /\ toHost' = Tail(toHost)

HostTakesAnswer ==
  /\ Reads(Answer)
  /\ hostRemote' = "set"
  /\ UNCHANGED <<start, local, link, hostKnows, agentVars, toBrowser, socket,
                 browserVars>>

\* SetRemoteDescription refuses the answer; the browser is told.
HostRefusesAnswer ==
  /\ Reads(Answer)
  /\ hostRemote' = "refused"
  /\ HostSends(Error)
  /\ UNCHANGED <<start, local, link, hostKnows, agentVars, socket,
                 browserVars>>

\* AddICECandidate fails without a remote description; that is only logged.
HostTakesCandidate(c) ==
  /\ Reads(Ice(c))
  /\ hostKnows' = IF hostRemote = "set" THEN hostKnows \cup {c} ELSE hostKnows
  /\ UNCHANGED <<start, local, link, hostRemote, agentVars, toBrowser, socket,
                 browserVars>>

HostReads ==
  \/ HostTakesAnswer \/ HostRefusesAnswer
  \/ \E c \in BrowserCandidates : HostTakesCandidate(c)

\* (mutant: the loop goes on when the browser closed the socket)
ReadFailsMut ==
  /\ start = "reading"
  /\ socket = "broken"
  /\ start' = "ending"
  /\ UNCHANGED <<local, link, hostRemote, hostKnows, agentVars, toBrowser,
                 toHost, socket, browserVars>>

\* ReadJSON returns an error and Start returns: after the last message of a
\* browser that left, at any time when the connection broke.
ReadFails ==
  /\ start = "reading"
  /\ \/ socket = "left" /\ toHost = <<>>
     \/ socket = "broken"
  /\ start' = "ending"
  /\ UNCHANGED <<local, link, hostRemote, hostKnows, agentVars, toBrowser,
                 toHost, socket, browserVars>>

\* The deferred Close: first the peer connection ...
ClosesPeer ==
  /\ start = "ending"
  /\ start' = "peerClosed"
  /\ link' = "closed"
  /\ UNCHANGED <<local, hostRemote, hostKnows, agentVars, toBrowser, toHost,
                 socket, browserVars>>

\* ... then the socket.
HangsUp ==
  /\ start = "peerClosed"
  /\ start' = "done"
  /\ socket' = IF socket = "open" THEN "ended" ELSE socket
  /\ UNCHANGED <<local, link, hostRemote, hostKnows, agentVars, toBrowser,
                 toHost, browserVars>>

\* (mutant: the failure is only logged)
ReportsFailureMut ==
  /\ link = "failing"
  /\ link' = "failed"
  /\ UNCHANGED <<start, local, hostRemote, hostKnows, agentVars, toBrowser,
                 toHost, socket, browserVars>>

\* OnConnectionStateChange(Failed), on a goroutine of its own.
ReportsFailure ==
  /\ link = "failing"
  /\ link' = "failed"
  /\ HostSends(Error)
  /\ UNCHANGED <<start, local, hostRemote, hostKnows, agentVars, toHost,
                 socket, browserVars>>

-----------------------------------------------------------------------------
(* The browser. sendSignal drops what it is given unless ws is open.       *)

SendSignal(m) ==
  toHost' = IF ws = "open" /\ socket = "open" THEN Append(toHost, m)
                                              ELSE toHost

\* A message event; without a peer connection handleSignal returns at once.
Receives(m) ==
  /\ ws = "open"
  /\ toBrowser # <<>>
  /\ m = Head(toBrowser)
  /\ toBrowser' = Tail(toBrowser)

HasRemote == page \in {"remote", "answered", "unanswered"}

BrowserTakesOffer(cs) ==
  /\ Receives(Offer(cs))
  /\ page' = "remote"
  /\ browserKnows' = browserKnows \cup cs
  /\ UNCHANGED <<hostVars, agentVars, toHost, socket, ws, browserSent, shown>>

\* setRemoteDescription rejects: the user is told, the host is not.
BrowserRefusesOffer(cs) ==
  /\ Receives(Offer(cs))
  /\ page' = "refused"
  /\ shown' = TRUE
  /\ UNCHANGED <<hostVars, agentVars, toHost, socket, ws, browserKnows,
                 browserSent>>

\* (mutant: the answer is left to the candidates' end)
BrowserAnswersMut ==
  /\ page = "remote"
  /\ page' = "answered"
  /\ UNCHANGED <<hostVars, agentVars, toBrowser, toHost, socket, ws,
                 browserKnows, browserSent, shown>>

\* The continuations after createAnswer and setLocalDescription.
BrowserAnswers ==
  /\ page = "remote"
  /\ page' = "answered"
  /\ SendSignal(Answer)
  /\ UNCHANGED <<hostVars, agentVars, toBrowser, socket, ws, browserKnows,
                 browserSent, shown>>

\* createAnswer or setLocalDescription rejects: the remote description stays,
\* no answer is sent; the user is told, the host is not.
BrowserAnswerFails ==
  /\ page = "remote"
  /\ page' = "unanswered"
  /\ shown' = TRUE
  /\ UNCHANGED <<hostVars, agentVars, toBrowser, toHost, socket, ws,
                 browserKnows, browserSent>>

BrowserTakesCandidate(c) ==
  /\ Receives(Ice(c))
  /\ HasRemote
  /\ browserKnows' = browserKnows \cup {c}
  /\ UNCHANGED <<hostVars, agentVars, toHost, socket, ws, page, browserSent,
                 shown>>

\* addIceCandidate rejects: there is no remote description.
BrowserRefusesCandidate(c) ==
  /\ Receives(Ice(c))
  /\ ~HasRemote
  /\ shown' = TRUE
  /\ UNCHANGED <<hostVars, agentVars, toHost, socket, ws, page, browserKnows,
                 browserSent>>

BrowserTakesError ==
  /\ Receives(Error)
  /\ shown' = TRUE
  /\ UNCHANGED <<hostVars, agentVars, toHost, socket, ws, page, browserKnows,
                 browserSent>>

BrowserReceives ==
  \/ \E cs \in SUBSET HostCandidates :
       BrowserTakesOffer(cs) \/ BrowserRefusesOffer(cs)
  \/ \E c \in HostCandidates :
       BrowserTakesCandidate(c) \/ BrowserRefusesCandidate(c)
  \/ BrowserTakesError

\* (mutant: the answer is sent after one more await)
BrowserSendsCandidateMut(c) ==
  /\ page \in {"remote", "answered"}
  /\ c \notin browserSent
  /\ browserSent' = browserSent \cup {c}
  /\ SendSignal(Ice(c))
  /\ UNCHANGED <<hostVars, agentVars, toBrowser, socket, ws, page,
                 browserKnows, shown>>

\* pc.onicecandidate
BrowserSendsCandidate(c) ==
  /\ page = "answered"
  /\ c \notin browserSent
  /\ browserSent' = browserSent \cup {c}
  /\ SendSignal(Ice(c))
  /\ UNCHANGED <<hostVars, agentVars, toBrowser, socket, ws, page,
                 browserKnows, shown>>

\* close(): the socket with what was sent before, then the peer connection.
BrowserLeaves ==
  /\ page # "left"
  /\ page' = "left"
  /\ ws' = "closed"
  /\ socket' = IF socket = "open" THEN "left" ELSE socket
  /\ toBrowser' = <<>>
  /\ UNCHANGED <<hostVars, agentVars, toHost, browserKnows, browserSent,
                 shown>>

\* ws.onclose; what had not arrived is lost.
BrowserSeesClose ==
  /\ ws = "open"
  /\ socket \in {"ended", "broken"}
  /\ ws' = "closed"
  /\ toBrowser' = <<>>
  /\ UNCHANGED <<hostVars, agentVars, toHost, socket, page, browserKnows,
                 browserSent, shown>>

-----------------------------------------------------------------------------
(* The network.                                                            *)

ConnectionBreaks ==
  /\ socket = "open"
  /\ socket' = "broken"
  /\ UNCHANGED <<hostVars, agentVars, toBrowser, toHost, browserVars>>

LinkConnects ==
  /\ link = "new"
  /\ hostRemote = "set"
  /\ page = "answered"
  /\ hostKnows # {} \/ browserKnows # {}
  /\ link' = "connected"
  /\ UNCHANGED <<start, local, hostRemote, hostKnows, agentVars, toBrowser,
                 toHost, socket, browserVars>>

LinkFails ==
  /\ link \in {"new", "connected"}
  /\ hostRemote = "set"
  /\ link' = "failing"
  /\ UNCHANGED <<start, local, hostRemote, hostKnows, agentVars, toBrowser,
                 toHost, socket, browserVars>>

\* The session is over on both sides.
Over ==
  /\ start = "done" /\ page = "left"
  /\ UNCHANGED vars

StartStep == DescribesItself \/ ReadsLocalDescription \/ SendsOffer
CloseStep == ReadFails \/ ClosesPeer \/ HangsUp

Next ==
  \/ StartStep \/ StartFails
  \/ \E c \in HostCandidates : Gathers(c) \/ SendsCandidate(c)
  \/ HostReads \/ CloseStep \/ ReportsFailure
  \/ BrowserReceives \/ BrowserAnswers \/ BrowserAnswerFails
  \/ \E c \in BrowserCandidates : BrowserSendsCandidate(c)
  \/ BrowserLeaves \/ BrowserSeesClose
  \/ ConnectionBreaks \/ LinkConnects \/ LinkFails
  \/ Over

\* Goroutines and the page's event loop go on, the socket delivers. Nobody is
\* obliged to gather, to leave or to connect.
Fairness ==
  /\ WF_vars(StartStep)
  /\ WF_vars(HostReads)
  /\ WF_vars(CloseStep)
  /\ WF_vars(ReportsFailure)
  /\ WF_vars(BrowserReceives)
  /\ WF_vars(BrowserAnswers \/ BrowserAnswerFails)
  /\ WF_vars(BrowserSeesClose)

Spec == Init /\ [][Next]_vars /\ Fairness

-----------------------------------------------------------------------------
(* Properties.                                                             *)

\* Each variable stays in its type.
TypeOK ==
  /\ start \in {"begin", "described", "offering", "reading", "ending",
                "peerClosed", "done"}
  /\ gathered \in SUBSET HostCandidates /\ sent \in SUBSET gathered
  /\ local \in SUBSET gathered /\ early \in SUBSET sent
  /\ link \in {"new", "connected", "failing", "failed", "closed"}
  /\ hostRemote \in {"none", "set", "refused"}
  /\ hostKnows \in SUBSET BrowserCandidates
  /\ browserSent \in SUBSET BrowserCandidates
  /\ toBrowser \in Seq(HostSignals) /\ toHost \in Seq(ClientSignals)
  /\ socket \in {"open", "left", "ended", "broken"}
  /\ ws \in {"open", "closed"}
  /\ page \in {"waiting", "remote", "answered", "unanswered", "refused",
             "left"}
  /\ browserKnows \in SUBSET HostCandidates
  /\ shown \in BOOLEAN

BrowserReady == HasRemote /\ ws = "open" /\ socket = "open"

\* A candidate whose callback ran before the offer was sent is not lost if the
\* agent had found it when Start read the local description: the browser
\* refuses the "ice" message but has the candidate from the offer. All that
\* were sent later arrive behind the offer.
HostCandidatesArrive ==
  BrowserReady /\ toBrowser = <<>> => sent \ early \subseteq browserKnows

\* The answer precedes the browser's candidates, so the host, which reads one
\* message after the other, refuses none of them.
BrowserCandidatesArrive ==
  hostRemote = "set" /\ toHost = <<>> /\ socket = "open" /\ ws = "open"
    => browserSent \subseteq hostKnows

\* An offer is followed by the host's verdict on an answer, unless the browser
\* refuses the offer or cannot answer it, or one side goes away.
NegotiationEnds ==
  <>(hostRemote # "none" \/ page \in {"refused", "unanswered", "left"}
      \/ ws = "closed")

\* When the page closes the session, the host closes its own: the read loop is
\* the only thing that ends it.
SessionFollowsBrowser == page = "left" ~> start = "done"

\* A peer connection that fails on the host is reported to the user as long as
\* the socket is there.
FailureIsShown == link = "failing" ~> shown \/ ws = "closed"
=============================================================================
