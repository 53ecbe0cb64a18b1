----------------------------- MODULE LaunchPanel -----------------------------
(***************************************************************************)
(* The launch panel of the page (web/src/main.ts) with the RTSP and media  *)
(* panels inside it, in front of the host's session and its two caches.    *)
(*                                                                         *)
(* launchApp, cancelLaunch, probeRTSP, probeMedia and refreshSunshine are  *)
(* asynchronous: each call, with what it awaits, is a "flow" of its own,   *)
(* and between a request, its answer and the answer's use everything else  *)
(* may happen. The host is GameStream seen from the page: a session is     *)
(* replaced in one step and its caches dropped in the next, and a probe    *)
(* stores what it found for the session it began with. Pairing and the     *)
(* buttons Pair and Refresh are in PairingPanel; one page is open.         *)
(* PageProofs extends this module beside ConnectButton, hence the prefix   *)
(* of the usual names.                                                     *)
(***************************************************************************)
EXTENDS Naturals, FiniteSets

CONSTANTS
  Flows,           \* the calls that can be under way at once (a bound)
  LaunchSessions,  \* the sessions Sunshine can grant (a bound)
  NoLaunch,        \* null; and a panel that is hidden
  Empty,           \* a probe or a panel that tells nothing
  Failed           \* in the place of an answer: the request failed

ASSUME LaunchPanelAssumption ==
  /\ {NoLaunch, Empty, Failed} \cap LaunchSessions = {}
  /\ NoLaunch # Empty /\ NoLaunch # Failed /\ Empty # Failed

VARIABLES
  activeSession, \* Client.activeSession
  rtspProbe,     \* the session Client.rtspProbe was made for
  mediaProbe,    \* the session Client.mediaProbe was made for
  granted,       \* the sessions Sunshine has granted
  at,            \* how far each flow is
  role,          \* the function that called it
  aim,           \* the session its request works for
  got,           \* the answer it has received
  panel,         \* the session the launch panel shows
  rtspPanel,     \* the session the RTSP panel shows
  mediaPanel,    \* the session the media panel shows
  listed,        \* the app buttons are visible
  launching,     \* "launching"
  locked,        \* which of the three buttons are disabled
  stale          \* history: the panels that were told something overtaken

hostVars == <<activeSession, rtspProbe, mediaProbe, granted>>
panelVars == <<panel, rtspPanel, mediaPanel, stale>>
buttonVars == <<listed, launching, locked>>
launchVars == <<hostVars, at, role, aim, got, panelVars, buttonVars>>

Buttons == {"rtsp", "media", "cancel"}
Panels == {"launch", "rtsp", "media"}

\* Where a flow can be inside probeRTSP, probeMedia and refreshSunshine.
InRtsp == {"rtsp", "probing", "probed"}
InMedia == {"media", "preparing", "capturing", "captured"}
InRefresh == {"refresh", "session", "told", "rtsp_status", "rtsp_told",
              "media_status", "media_told"}

\* The page is loaded and refreshes; the host may have a session from before,
\* and what was cached about it.
LaunchInit ==
  /\ activeSession \in LaunchSessions \cup {NoLaunch}
  /\ rtspProbe \in {NoLaunch, activeSession}
  /\ mediaProbe \in {NoLaunch, activeSession}
  /\ granted = {activeSession} \ {NoLaunch}
  /\ \E f \in Flows : at = [g \in Flows |-> IF g = f THEN "refresh" ELSE "idle"]
  /\ role = [f \in Flows |-> IF at[f] = "idle" THEN "none" ELSE "refresh"]
  /\ aim = [f \in Flows |-> NoLaunch]
  /\ got = [f \in Flows |-> Failed]
  /\ panel = NoLaunch /\ rtspPanel = NoLaunch /\ mediaPanel = NoLaunch
  /\ listed = FALSE /\ launching = FALSE /\ locked = {}
  /\ stale = {}

Begins(f, r, where) ==
  /\ at[f] = "idle"
  /\ at' = [at EXCEPT ![f] = where]
  /\ role' = [role EXCEPT ![f] = r]
  /\ UNCHANGED <<aim, got>>

GoesOn(f, from, to) ==
  /\ at[f] = from
  /\ at' = [at EXCEPT ![f] = to]
  /\ role' = IF to = "idle" THEN [role EXCEPT ![f] = "none"] ELSE role

\* A request is answered with one of the values vs, or fails.
Answers(f, vs) ==
  /\ \E v \in vs \cup {Failed} : got' = [got EXCEPT ![f] = v]
  /\ UNCHANGED aim

\* An answer has been used.
Used(f) ==
  /\ got' = [got EXCEPT ![f] = Failed]
  /\ aim' = [aim EXCEPT ![f] = NoLaunch]

\* Where a call goes on after refreshSunshine: its finally unlocks its button.
Ends(f) ==
  /\ GoesOn(f, at[f], "idle")
  /\ launching' = (launching /\ role[f] # "launch")
  /\ locked' = IF role[f] = "cancel" THEN locked \ {"cancel"} ELSE locked

\* A panel is told s, which the host has replaced meanwhile, or has not.
Tells(which, s) ==
  stale' = IF s \in {activeSession, NoLaunch, Empty} THEN stale \ {which}
                                                ELSE stale \cup {which}

-----------------------------------------------------------------------------
(* launchApp.                                                              *)

ClickLaunch(f) ==
  /\ listed /\ ~launching
  /\ Begins(f, "launch", "launch")
  /\ launching' = TRUE
  /\ UNCHANGED <<hostVars, panelVars, listed, locked>>

\* Launch stores the session Sunshine has granted ...
LaunchExecuted(f, s) ==
  /\ GoesOn(f, "launch", "drop")
  /\ s \notin granted
  /\ granted' = granted \cup {s}
  /\ activeSession' = s
  /\ aim' = [aim EXCEPT ![f] = s]
  /\ UNCHANGED <<rtspProbe, mediaProbe, got, panelVars, buttonVars>>

\* ... and drops the caches, as Cancel does. The answer may get lost.
CachesDropped(f) ==
  /\ GoesOn(f, "drop", IF role[f] = "launch" THEN "launched" ELSE "cancelled")
  /\ rtspProbe' = NoLaunch /\ mediaProbe' = NoLaunch
  /\ Answers(f, {aim[f]})
  /\ UNCHANGED <<activeSession, granted, panelVars, buttonVars>>

LaunchRefused(f) ==
  /\ GoesOn(f, "launch", "launched")
  /\ Answers(f, {})
  /\ UNCHANGED <<hostVars, panelVars, buttonVars>>

\* The answer is shown, and probeRTSP is called.
LaunchReturns(f) ==
  /\ at[f] = "launched"
  /\ got[f] # Failed
  /\ GoesOn(f, "launched", "rtsp")
  /\ panel' = got[f]
  /\ Tells("launch", got[f])
  /\ locked' = locked \cup {"rtsp"}
  /\ Used(f)
  /\ UNCHANGED <<hostVars, rtspPanel, mediaPanel, listed, launching>>

\* (mutant: launching is reset on success only)
LaunchFailsMut(f) ==
  /\ at[f] = "launched"
  /\ got[f] = Failed
  /\ GoesOn(f, "launched", "idle")
  /\ stale' = IF aim[f] = NoLaunch THEN stale ELSE Panels
  /\ Used(f)
  /\ UNCHANGED <<hostVars, panel, rtspPanel, mediaPanel, buttonVars>>

\* An error is shown; the session may have been replaced all the same.
LaunchFails(f) ==
  /\ at[f] = "launched"
  /\ got[f] = Failed
  /\ Ends(f)
  /\ UNCHANGED listed
  /\ stale' = IF aim[f] = NoLaunch THEN stale ELSE Panels
  /\ Used(f)
  /\ UNCHANGED <<hostVars, panel, rtspPanel, mediaPanel>>

-----------------------------------------------------------------------------
(* cancelLaunch.                                                           *)

ClickCancel(f) ==
  /\ panel # NoLaunch /\ "cancel" \notin locked
  /\ Begins(f, "cancel", "cancel")
  /\ locked' = locked \cup {"cancel"}
  /\ UNCHANGED <<hostVars, panelVars, listed, launching>>

CancelExecuted(f) ==
  /\ GoesOn(f, "cancel", "drop")
  /\ activeSession' = NoLaunch
  /\ UNCHANGED <<rtspProbe, mediaProbe, granted, aim, got, panelVars, buttonVars>>

CancelRefused(f) ==
  /\ GoesOn(f, "cancel", "refused")
  /\ UNCHANGED <<hostVars, aim, got, panelVars, buttonVars>>

\* (mutant: the panels are left to the refresh)
CancelReturnsMut(f) ==
  /\ at[f] = "cancelled"
  /\ got[f] # Failed
  /\ GoesOn(f, "cancelled", "refresh")
  /\ Used(f)
  /\ UNCHANGED <<hostVars, panelVars, buttonVars>>

\* All three panels are hidden.
CancelReturns(f) ==
  /\ at[f] = "cancelled"
  /\ got[f] # Failed
  /\ GoesOn(f, "cancelled", "refresh")
  /\ panel' = NoLaunch /\ rtspPanel' = NoLaunch /\ mediaPanel' = NoLaunch
  /\ stale' = {}
  /\ Used(f)
  /\ UNCHANGED <<hostVars, buttonVars>>

CancelFails(f) ==
  /\ \/ at[f] = "refused" /\ UNCHANGED stale
     \/ at[f] = "cancelled" /\ got[f] = Failed /\ stale' = Panels
  /\ Ends(f)
  /\ UNCHANGED listed
  /\ Used(f)
  /\ UNCHANGED <<hostVars, panel, rtspPanel, mediaPanel>>
-----------------------------------------------------------------------------
(* probeRTSP, called by its button and by launchApp.                       *)

ClickProbeRtsp(f) ==
  /\ panel # NoLaunch /\ "rtsp" \notin locked
  /\ Begins(f, "rtsp", "rtsp")
  /\ locked' = locked \cup {"rtsp"}
  /\ UNCHANGED <<hostVars, panelVars, listed, launching>>

\* ProbeRTSP reads the session ...
RtspBegins(f) ==
  /\ GoesOn(f, "rtsp", "probing")
  /\ aim' = [aim EXCEPT ![f] = activeSession]
  /\ UNCHANGED <<hostVars, got, panelVars, buttonVars>>

\* ... and caches the setup it made for it.
RtspEnds(f) ==
  /\ GoesOn(f, "probing", "probed")
  /\ \/ aim[f] # NoLaunch /\ rtspProbe' = aim[f] /\ Answers(f, {aim[f]})
     \/ UNCHANGED rtspProbe /\ Answers(f, {})
  /\ UNCHANGED <<activeSession, mediaProbe, granted, panelVars, buttonVars>>

\* (mutant: the answer is rendered without a look at it)
RtspReturnsMut(f) ==
  /\ GoesOn(f, "probed", IF role[f] = "launch" THEN "refresh" ELSE "idle")
  /\ rtspPanel' = got[f] /\ Tells("rtsp", got[f])
  /\ locked' = locked \ {"rtsp"}
  /\ Used(f)
  /\ UNCHANGED <<hostVars, panel, mediaPanel, listed, launching>>

\* The setup, or that it failed.
RtspReturns(f) ==
  /\ GoesOn(f, "probed", IF role[f] = "launch" THEN "refresh" ELSE "idle")
  /\ LET s == IF got[f] = Failed THEN Empty ELSE got[f]
     IN  rtspPanel' = s /\ Tells("rtsp", s)
  /\ locked' = locked \ {"rtsp"}
  /\ Used(f)
  /\ UNCHANGED <<hostVars, panel, mediaPanel, listed, launching>>

-----------------------------------------------------------------------------
(* probeMedia.                                                             *)

ClickProbeMedia(f) ==
  /\ panel # NoLaunch /\ "media" \notin locked
  /\ Begins(f, "media", "media")
  /\ locked' = locked \cup {"media"}
  /\ UNCHANGED <<hostVars, panelVars, listed, launching>>

MediaBegins(f) ==
  /\ GoesOn(f, "media", "preparing")
  /\ aim' = [aim EXCEPT ![f] = activeSession]
  /\ UNCHANGED <<hostVars, got, panelVars, buttonVars>>

\* ProbeMedia may make an RTSP setup of its own, of the session of its time.
MaySetUp(f) == rtspProbe' \in {rtspProbe, aim[f], activeSession}

\* "starting" is stored.
MediaStarts(f) ==
  /\ aim[f] # NoLaunch
  /\ GoesOn(f, "preparing", "capturing")
  /\ MaySetUp(f)
  /\ mediaProbe' = aim[f]
  /\ UNCHANGED <<activeSession, granted, aim, got, panelVars, buttonVars>>

\* An early error: the answer holds an empty diagnostic.
MediaFailsEarly(f) ==
  /\ GoesOn(f, "preparing", "captured")
  /\ IF aim[f] = NoLaunch THEN UNCHANGED rtspProbe ELSE MaySetUp(f)
  /\ Answers(f, {Empty})
  /\ UNCHANGED <<activeSession, mediaProbe, granted, panelVars, buttonVars>>

\* The verdict is stored, whichever it is.
MediaEnds(f) ==
  /\ GoesOn(f, "capturing", "captured")
  /\ mediaProbe' = aim[f]
  /\ Answers(f, {aim[f]})
  /\ UNCHANGED <<activeSession, rtspProbe, granted, panelVars, buttonVars>>

MediaReturns(f) ==
  /\ GoesOn(f, "captured", "idle")
  /\ IF got[f] = Failed
     THEN UNCHANGED <<mediaPanel, stale>>
     ELSE mediaPanel' = got[f] /\ Tells("media", got[f])
  /\ locked' = locked \ {"media"}
  /\ Used(f)
  /\ UNCHANGED <<hostVars, panel, rtspPanel, listed, launching>>

-----------------------------------------------------------------------------
(* refreshSunshine with loadActiveSession, loadRTSPStatus, loadMediaStatus. *)

\* By its button, or by the poll of PairingPanel.
ClickRefresh(f) ==
  /\ Begins(f, "refresh", "refresh")
  /\ UNCHANGED <<hostVars, panelVars, buttonVars>>

\* /info and /apps have been answered: the app buttons are there.
AppsListed(f) ==
  /\ GoesOn(f, "refresh", "session")
  /\ listed' = TRUE
  /\ UNCHANGED <<hostVars, aim, got, panelVars, launching, locked>>

\* refreshSunshine does not get to loadActiveSession. After a launch, the media
\* panel keeps what it shows.
RefreshStops(f) ==
  /\ at[f] = "refresh"
  /\ Ends(f)
  /\ listed' \in {listed, FALSE}
  /\ stale' = IF role[f] = "launch" THEN stale \cup {"media"} ELSE stale
  /\ UNCHANGED <<hostVars, aim, got, panel, rtspPanel, mediaPanel>>

SessionAnswered(f) ==
  /\ GoesOn(f, "session", "told")
  /\ Answers(f, {activeSession})
  /\ UNCHANGED <<hostVars, panelVars, buttonVars>>

SessionShown(f) ==
  /\ got[f] \in LaunchSessions
  /\ GoesOn(f, "told", "rtsp_status")
  /\ panel' = got[f]
  /\ Tells("launch", got[f])
  /\ Used(f)
  /\ UNCHANGED <<hostVars, rtspPanel, mediaPanel, buttonVars>>

\* Without a session the launch panel is hidden, with all that is in it; with
\* an error it stays.
SessionMissing(f) ==
  /\ at[f] = "told"
  /\ got[f] \notin LaunchSessions
  /\ Ends(f)
  /\ UNCHANGED listed
  /\ panel' = IF got[f] = NoLaunch THEN NoLaunch ELSE panel
  /\ stale' = IF got[f] = Failed /\ role[f] = "launch"
              THEN stale \cup {"media"} ELSE stale
  /\ Used(f)
  /\ UNCHANGED <<hostVars, rtspPanel, mediaPanel>>

RtspStatusAnswered(f) ==
  /\ GoesOn(f, "rtsp_status", "rtsp_told")
  /\ Answers(f, {rtspProbe})
  /\ UNCHANGED <<hostVars, panelVars, buttonVars>>

RtspStatusReturns(f) ==
  /\ GoesOn(f, "rtsp_told", "media_status")
  /\ LET s == IF got[f] = Failed THEN NoLaunch ELSE got[f]
     IN  rtspPanel' = s /\ Tells("rtsp", s)
  /\ Used(f)
  /\ UNCHANGED <<hostVars, panel, mediaPanel, buttonVars>>

MediaStatusAnswered(f) ==
  /\ GoesOn(f, "media_status", "media_told")
  /\ Answers(f, {mediaProbe})
  /\ UNCHANGED <<hostVars, panelVars, buttonVars>>

MediaStatusReturns(f) ==
  /\ at[f] = "media_told"
  /\ Ends(f)
  /\ UNCHANGED listed
  /\ LET s == IF got[f] = Failed THEN NoLaunch ELSE got[f]
     IN  mediaPanel' = s /\ Tells("media", s)
  /\ Used(f)
  /\ UNCHANGED <<hostVars, panel, rtspPanel>>

FlowStep(f) ==
  \/ \E s \in LaunchSessions : LaunchExecuted(f, s)
  \/ LaunchRefused(f) \/ CachesDropped(f) \/ LaunchReturns(f) \/ LaunchFails(f)
  \/ CancelExecuted(f) \/ CancelRefused(f) \/ CancelReturns(f) \/ CancelFails(f)
  \/ RtspBegins(f) \/ RtspEnds(f) \/ RtspReturns(f)
  \/ MediaBegins(f) \/ MediaStarts(f) \/ MediaFailsEarly(f) \/ MediaEnds(f)
  \/ MediaReturns(f)
  \/ AppsListed(f) \/ RefreshStops(f) \/ SessionAnswered(f) \/ SessionShown(f)
  \/ SessionMissing(f) \/ RtspStatusAnswered(f) \/ RtspStatusReturns(f)
  \/ MediaStatusAnswered(f) \/ MediaStatusReturns(f)

LaunchNext ==
  \E f \in Flows :
    \/ FlowStep(f)
    \/ ClickLaunch(f) \/ ClickCancel(f) \/ ClickProbeRtsp(f)
    \/ ClickProbeMedia(f) \/ ClickRefresh(f)

LaunchSpec == LaunchInit /\ [][LaunchNext]_launchVars

-----------------------------------------------------------------------------
(* Properties.                                                             *)

\* Each variable stays in its type.
LaunchTypeOK ==
  /\ activeSession \in LaunchSessions \cup {NoLaunch}
  /\ rtspProbe \in LaunchSessions \cup {NoLaunch}
  /\ mediaProbe \in LaunchSessions \cup {NoLaunch}
  /\ granted \in SUBSET LaunchSessions
  /\ at \in [Flows -> {"idle", "launch", "launched", "cancel", "refused",
                       "cancelled", "drop"} \cup InRtsp \cup InMedia \cup InRefresh]
  /\ role \in [Flows -> {"launch", "cancel", "rtsp", "media", "refresh", "none"}]
  /\ aim \in [Flows -> LaunchSessions \cup {NoLaunch}]
  /\ got \in [Flows -> LaunchSessions \cup {NoLaunch, Empty, Failed}]
  /\ panel \in LaunchSessions \cup {NoLaunch}
  /\ rtspPanel \in LaunchSessions \cup {NoLaunch, Empty}
  /\ mediaPanel \in LaunchSessions \cup {NoLaunch, Empty}
  /\ listed \in BOOLEAN /\ launching \in BOOLEAN
  /\ locked \in SUBSET Buttons /\ stale \in SUBSET Panels

\* A call that has replaced the session and has not yet got round to a panel:
\* a launch tells the RTSP panel in its probe, the media panel in its refresh.
Owes(f, which) ==
  \/ at[f] \in {"drop", "cancelled"}
  \/ at[f] = "launched" /\ aim[f] # NoLaunch
  \/ role[f] = "launch" /\ which \in {"rtsp", "media"} /\ at[f] \in InRtsp
  \/ role[f] = "launch" /\ which = "media" /\ at[f] \in InRefresh

Agrees(which, s) ==
  s \in LaunchSessions /\ which \notin stale /\ (\A f \in Flows : ~Owes(f, which))
    => s = activeSession

\* Once the launches and cancels that reached the host have come back, every
\* panel is about the session the host has, unless it was told something
\* overtaken or the answer of the replacement was lost. (The two panels inside
\* a hidden launch panel are ready to be shown with the next session.)
PanelsTellLive ==
  /\ Agrees("launch", panel)
  /\ Agrees("rtsp", rtspPanel)
  /\ Agrees("media", mediaPanel)

\* "Launching" and a disabled button belong to a call that is under way: no
\* error path and no overlap of calls locks the panel for good.
LocksHaveOwner ==
  /\ launching => \E f \in Flows : at[f] # "idle" /\ role[f] = "launch"
  /\ "cancel" \in locked => \E f \in Flows : at[f] # "idle" /\ role[f] = "cancel"
  /\ "rtsp" \in locked => \E f \in Flows : at[f] \in InRtsp
  /\ "media" \in locked => \E f \in Flows : at[f] \in InMedia
=============================================================================
