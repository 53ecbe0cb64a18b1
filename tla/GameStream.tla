----------------------------- MODULE GameStream -----------------------------
(***************************************************************************)
(* The GameStream session of sunshine.Client (host/internal/sunshine):     *)
(* activeSession and what is derived from it, the cached RTSP setup        *)
(* (rtspProbe) and the cached media diagnostic (mediaProbe). Each of the   *)
(* three is guarded by a mutex of its own, and no operation ever holds two *)
(* of them, so Launch and Cancel replace the session and drop the caches   *)
(* in three separate steps, between the steps of any number of concurrent  *)
(* ProbeRTSP and ProbeMedia calls.                                         *)
(*                                                                         *)
(* A session stands for one LaunchSession (its RIKey and RIKeyID are       *)
(* generated for that launch): SessionURL may repeat from one launch to    *)
(* the next and tells nothing apart. Sunshine is external.                 *)
(***************************************************************************)
EXTENDS Naturals

CONSTANTS
  Handlers,   \* HTTP handlers running at the same time (a bound)
  Sessions,   \* the sessions Sunshine can grant (a bound)
  NoSession,  \* activeSession = nil
  NoProbe     \* rtspProbe = nil, mediaProbe = nil

VARIABLES
  activeSession,  \* Client.activeSession
  rtspProbe,      \* Client.rtspProbe
  mediaProbe,     \* Client.mediaProbe
  pc,             \* what each handler does next
  mine,           \* the session a handler was granted or has read
  setup,          \* the session of the RTSP setup a handler makes or uses
  sunshine,       \* the session running in Sunshine
  granted,        \* the sessions Sunshine has granted so far
  overlap,        \* history: the session changed while the handler worked
  diverged        \* history: the client cannot know what Sunshine runs

vars == <<activeSession, rtspProbe, mediaProbe, pc, mine, setup, sunshine,
          granted, overlap, diverged>>
clientVars == <<activeSession, rtspProbe, mediaProbe>>
sunshineVars == <<sunshine, granted>>
localVars == <<mine, setup, overlap>>

\* A cached probe: the session it was made for, and whether that session was
\* replaced while it was being made (history, not in the code).
RtspProbes == [session : Sessions, ready : BOOLEAN, late : BOOLEAN]
MediaStates == {"starting", "receiving", "packets_received", "error"}
MediaProbes == [state : MediaStates, session : Sessions, setup : Sessions,
                late : BOOLEAN]

ASSUME GameStreamAssumption ==
  /\ NoSession \notin Sessions
  /\ NoProbe \notin RtspProbes \cup MediaProbes

Answered == {"launched", "cancelled"}    \* Sunshine's answer is under way
Resetting == {"drop_rtsp", "drop_media"} \* activeSession set, caches not yet
Capturing == {"announce", "play", "capture"}
Media == {"media", "media_rtsp", "media_setup", "bind"} \cup Capturing
Probing == {"rtsp"} \cup Media
PcValues == {"idle", "launch", "cancel"} \cup Answered \cup Resetting
              \cup Probing

Init ==
  /\ activeSession = NoSession
  /\ rtspProbe = NoProbe
  /\ mediaProbe = NoProbe
  /\ pc = [h \in Handlers |-> "idle"]
  /\ mine = [h \in Handlers |-> NoSession]
  /\ setup = [h \in Handlers |-> NoSession]
  /\ sunshine \in {NoSession} \cup Sessions   \* left by an earlier execution
  /\ granted = {sunshine} \ {NoSession}
  /\ overlap = [h \in Handlers |-> FALSE]
  /\ diverged = (sunshine # NoSession)

Advance(h, from, to) ==
  /\ pc[h] = from
  /\ pc' = [pc EXCEPT ![h] = to]

\* The handler returns, and its local variables with it.
Returns(h) ==
  /\ pc' = [pc EXCEPT ![h] = "idle"]
  /\ mine' = [mine EXCEPT ![h] = NoSession]
  /\ setup' = [setup EXCEPT ![h] = NoSession]
  /\ overlap' = [overlap EXCEPT ![h] = FALSE]

\* Some handler has replaced the session and not yet dropped rtspProbe.
RtspOutdated == \E h \in Handlers : pc[h] = "drop_rtsp"
MediaOutdated == \E h \in Handlers : pc[h] \in Resetting

-----------------------------------------------------------------------------
(* Launch and Cancel.                                                      *)

\* The checks, Probe and the request that is sent, without its answer.
LaunchBegins(h) ==
  /\ Advance(h, "idle", "launch")
  /\ UNCHANGED <<clientVars, sunshineVars, localVars, diverged>>

CancelBegins(h) ==
  /\ Advance(h, "idle", "cancel")
  /\ UNCHANGED <<clientVars, sunshineVars, localVars, diverged>>

\* An answer that is not the last word: another one is still to be stored.
Reordered(h) == \E g \in Handlers \ {h} : pc[g] \in Answered

SunshineLaunches(h, s) ==
  /\ s \notin granted
  /\ Advance(h, "launch", "launched")
  /\ sunshine' = s
  /\ granted' = granted \cup {s}
  /\ mine' = [mine EXCEPT ![h] = s]
  /\ diverged' = Reordered(h)
  /\ UNCHANGED <<clientVars, setup, overlap>>

SunshineCancels(h) ==
  /\ Advance(h, "cancel", "cancelled")
  /\ sunshine' = NoSession
  /\ diverged' = Reordered(h)
  /\ UNCHANGED <<clientVars, granted, localVars>>

\* The session changes under every probe that is under way.
Replaced == overlap' = [h \in Handlers |-> pc[h] \in Probing]

LaunchStores(h) ==
  /\ Advance(h, "launched", "drop_rtsp")
  /\ activeSession' = mine[h]
  /\ Replaced
  /\ UNCHANGED <<rtspProbe, mediaProbe, mine, setup, sunshineVars, diverged>>

\* (mutant: Cancel drops the caches only)
CancelStoresMut(h) ==
  /\ Advance(h, "cancelled", "drop_rtsp")
  /\ Replaced
  /\ UNCHANGED <<clientVars, mine, setup, sunshineVars, diverged>>

CancelStores(h) ==
  /\ Advance(h, "cancelled", "drop_rtsp")
  /\ activeSession' = NoSession
  /\ Replaced
  /\ UNCHANGED <<rtspProbe, mediaProbe, mine, setup, sunshineVars, diverged>>

\* (mutant: the RTSP setup is not dropped)
DropsRtspMut(h) ==
  /\ Advance(h, "drop_rtsp", "drop_media")
  /\ UNCHANGED <<clientVars, localVars, sunshineVars, diverged>>

DropsRtsp(h) ==
  /\ Advance(h, "drop_rtsp", "drop_media")
  /\ rtspProbe' = NoProbe
  /\ UNCHANGED <<activeSession, mediaProbe, localVars, sunshineVars, diverged>>

\* (mutant: the media diagnostic is not dropped)
DropsMediaMut(h) ==
  /\ pc[h] = "drop_media"
  /\ Returns(h)
  /\ UNCHANGED <<clientVars, sunshineVars, diverged>>

DropsMedia(h) ==
  /\ pc[h] = "drop_media"
  /\ Returns(h)
  /\ mediaProbe' = NoProbe
  /\ UNCHANGED <<activeSession, rtspProbe, sunshineVars, diverged>>

\* Launch or Cancel returns an error: the request was refused or not sent, or
\* Sunshine carried it out and its answer got lost or was not accepted.
RequestFails(h) ==
  /\ pc[h] \in {"launch", "cancel"} \cup Answered
  /\ Returns(h)
  /\ diverged' = (diverged \/ pc[h] \in Answered)
  /\ UNCHANGED <<clientVars, sunshineVars>>

-----------------------------------------------------------------------------
(* ProbeRTSP, called by its handler or from within ProbeMedia.             *)

RtspBegins(h) ==
  /\ Advance(h, "idle", "rtsp")
  /\ activeSession # NoSession
  /\ setup' = [setup EXCEPT ![h] = activeSession]
  /\ UNCHANGED <<clientVars, mine, overlap, sunshineVars, diverged>>

\* ProbeRTSP reads the active session again, whatever ProbeMedia had read.
MediaProbesRtsp(h) ==
  /\ Advance(h, "media_rtsp", "media_setup")
  /\ activeSession # NoSession
  /\ setup' = [setup EXCEPT ![h] = activeSession]
  /\ UNCHANGED <<clientVars, mine, overlap, sunshineVars, diverged>>

\* OPTIONS, DESCRIBE and three SETUPs succeeded. "ready" tells whether the
\* answers carried both ping payloads.
RtspStores(h) ==
  /\ \/ pc[h] = "rtsp" /\ Returns(h)
     \/ Advance(h, "media_setup", "bind") /\ UNCHANGED localVars
  /\ \E ready \in BOOLEAN :
       rtspProbe' = [session |-> setup[h], ready |-> ready, late |-> overlap[h]]
  /\ UNCHANGED <<activeSession, mediaProbe, sunshineVars, diverged>>

-----------------------------------------------------------------------------
(* ProbeMedia.                                                             *)

MediaBegins(h) ==
  /\ Advance(h, "idle", "media")
  /\ activeSession # NoSession
  /\ mine' = [mine EXCEPT ![h] = activeSession]
  /\ UNCHANGED <<clientVars, setup, overlap, sunshineVars, diverged>>

\* A cached setup is used as it is, without a look at its session.
Reusable == rtspProbe # NoProbe /\ rtspProbe.ready

MediaReusesRtsp(h) ==
  /\ Reusable
  /\ Advance(h, "media", "bind")
  /\ setup' = [setup EXCEPT ![h] = rtspProbe.session]
  /\ overlap' = [overlap EXCEPT ![h] = @ \/ rtspProbe.late \/ RtspOutdated]
  /\ UNCHANGED <<clientVars, mine, sunshineVars, diverged>>

MediaNeedsRtsp(h) ==
  /\ ~Reusable
  /\ Advance(h, "media", "media_rtsp")
  /\ UNCHANGED <<clientVars, localVars, sunshineVars, diverged>>

SetMediaProbe(h, state) ==
  mediaProbe' = [state |-> state, session |-> mine[h], setup |-> setup[h],
                 late |-> overlap[h]]

\* The UDP sockets are bound: the probe is on display from here on.
MediaStarts(h) ==
  /\ Advance(h, "bind", "announce")
  /\ SetMediaProbe(h, "starting")
  /\ UNCHANGED <<activeSession, rtspProbe, localVars, sunshineVars, diverged>>

MediaAnnounced(h) ==
  /\ Advance(h, "announce", "play")
  /\ UNCHANGED <<clientVars, localVars, sunshineVars, diverged>>

MediaPlays(h) ==
  /\ Advance(h, "play", "capture")
  /\ SetMediaProbe(h, "receiving")
  /\ UNCHANGED <<activeSession, rtspProbe, localVars, sunshineVars, diverged>>

\* The capture window closed and video packets had arrived.
MediaSucceeds(h) ==
  /\ pc[h] = "capture"
  /\ Returns(h)
  /\ SetMediaProbe(h, "packets_received")
  /\ UNCHANGED <<activeSession, rtspProbe, sunshineVars, diverged>>

\* (mutant: an error path that only returns the error)
MediaFailsMut(h) ==
  /\ pc[h] \in Capturing
  /\ Returns(h)
  /\ UNCHANGED <<clientVars, sunshineVars, diverged>>

\* mediaFailure: ANNOUNCE or PLAY failed, the caller went away, or no video.
MediaFails(h) ==
  /\ pc[h] \in Capturing
  /\ Returns(h)
  /\ SetMediaProbe(h, "error")
  /\ UNCHANGED <<activeSession, rtspProbe, sunshineVars, diverged>>

\* A probe that fails before that caches nothing, a failed ProbeRTSP neither.
ProbeFails(h) ==
  /\ pc[h] \in {"rtsp", "media_rtsp", "media_setup", "bind"}
  /\ Returns(h)
  /\ UNCHANGED <<clientVars, sunshineVars, diverged>>

-----------------------------------------------------------------------------
\* The game ends on its own; nothing tells the client.
SunshineEnds ==
  /\ sunshine # NoSession
  /\ sunshine' = NoSession
  /\ diverged' = TRUE
  /\ UNCHANGED <<clientVars, pc, localVars, granted>>

Begin(h) ==
  LaunchBegins(h) \/ CancelBegins(h) \/ RtspBegins(h) \/ MediaBegins(h)

Step(h) ==
  \/ \E s \in Sessions : SunshineLaunches(h, s)
  \/ SunshineCancels(h)
  \/ LaunchStores(h)
  \/ CancelStores(h)
  \/ DropsRtsp(h)
  \/ DropsMedia(h)
  \/ RequestFails(h)
  \/ MediaProbesRtsp(h)
  \/ RtspStores(h)
  \/ MediaReusesRtsp(h)
  \/ MediaNeedsRtsp(h)
  \/ MediaStarts(h)
  \/ MediaAnnounced(h)
  \/ MediaPlays(h)
  \/ MediaSucceeds(h)
  \/ MediaFails(h)
  \/ ProbeFails(h)

Next == SunshineEnds \/ \E h \in Handlers : Begin(h) \/ Step(h)

\* Every request of a handler carries a deadline, so a handler that has begun
\* always moves on; nobody is obliged to begin.
Fairness == \A h \in Handlers : WF_vars(Step(h))

Spec == Init /\ [][Next]_vars /\ Fairness

-----------------------------------------------------------------------------
(* Properties.                                                             *)

\* Each variable stays in its type; in particular the states of mediaProbe are
\* those the browser knows.
TypeOK ==
  /\ activeSession \in Sessions \cup {NoSession}
  /\ rtspProbe \in RtspProbes \cup {NoProbe}
  /\ mediaProbe \in MediaProbes \cup {NoProbe}
  /\ pc \in [Handlers -> PcValues]
  /\ mine \in [Handlers -> Sessions \cup {NoSession}]
  /\ setup \in [Handlers -> Sessions \cup {NoSession}]
  /\ sunshine \in Sessions \cup {NoSession}
  /\ granted \in SUBSET Sessions
  /\ overlap \in [Handlers -> BOOLEAN]
  /\ diverged \in BOOLEAN

\* A cached RTSP setup belongs to the active session, except in the window
\* between the two steps of Launch and Cancel, and unless its probe was
\* overtaken by one of them: separate mutexes leave no other way to be stale.
RtspIsCurrent ==
  rtspProbe # NoProbe /\ ~rtspProbe.late /\ ~RtspOutdated
    => rtspProbe.session = activeSession

\* The same for the media diagnostic, and for the RTSP setup it was made with.
MediaIsCurrent ==
  mediaProbe # NoProbe /\ ~mediaProbe.late /\ ~MediaOutdated
    => mediaProbe.session = activeSession /\ mediaProbe.setup = activeSession

\* ANNOUNCE and PLAY name the RTSP session of the same launch whose key
\* material the probe had read, although ProbeMedia reads the session and the
\* cached setup under different mutexes; only a Launch or Cancel in between
\* (or a stale setup) can mix two launches.
OneSessionPerProbe ==
  \A h \in Handlers :
    pc[h] \in {"bind"} \cup Capturing /\ ~overlap[h] => setup[h] = mine[h]

\* Once every answer has been stored, the client agrees with Sunshine on what
\* is running, unless an answer got lost, answers overtook one another, or the
\* game ended on its own.
AgreesWithSunshine ==
  ~diverged /\ (\A h \in Handlers : pc[h] \notin Answered)
    => activeSession = sunshine

\* A diagnostic on display as running is being run by some handler, in the
\* phase displayed.
ProbeHasRunner ==
  mediaProbe # NoProbe =>
    /\ mediaProbe.state = "starting" =>
         \E h \in Handlers : pc[h] \in {"announce", "play"}
    /\ mediaProbe.state = "receiving" => \E h \in Handlers : pc[h] = "capture"

ProbeRuns == mediaProbe # NoProbe /\ mediaProbe.state \in {"starting", "receiving"}

\* A diagnostic on display as running comes to a verdict (or is dropped with
\* its session), however many probes overlap.
ProbeResolves == ProbeRuns ~> ~ProbeRuns
=============================================================================
