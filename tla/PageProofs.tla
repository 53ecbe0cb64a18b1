----------------------------- MODULE PageProofs ------------------------------
(* Proofs about the page (web/src/main.ts). Of ConnectButton: for any number  *)
(* of sessions, however the clicks, the socket events and the peer            *)
(* connections interleave. Of LaunchPanel: for any number of calls under way  *)
(* at once and of sessions, however requests, answers and their use overlap.  *)
EXTENDS ConnectButton, LaunchPanel, TLAPS

-----------------------------------------------------------------------------
(* ConnectButton.                                                          *)

\* The type invariant without the timers, which are for Zenon.
Others ==
  /\ session \in Sessions \cup {NoSession}
  /\ controller \in Sessions \cup {NoSession}
  /\ painter \in Sessions \cup {NoSession}
  /\ socket \in [Sessions -> {"none", "connecting", "open", "closed"}]
  /\ event \in [Sessions -> {"none", "error", "close"}]
  /\ pc \in [Sessions -> {"none", "new", "negotiated", "connected",
                          "disconnected", "failed", "closed"}]
  /\ label \in {"Connect", "Connecting", "Disconnect"}
  /\ lost \in SUBSET Sessions

\* A socket event outlives its socket only, and an error is reported of a
\* session that never got as far as its offer.
SocketOrder ==
  \A s \in Sessions :
    /\ event[s] # "none" => socket[s] = "closed"
    /\ socket[s] = "none" => pc[s] = "none"
    /\ socket[s] = "connecting" => pc[s] = "new"
    /\ event[s] = "error" => pc[s] \in {"new", "closed"}

\* Type correctness of ConnectButton.
THEOREM TypeCorrect == Spec => []TypeOK
<1> DEFINE Timers == stats \in [Sessions -> BOOLEAN]
<1>1. Init => Timers /\ Others
  <2>1. Init => Timers
    BY Zenon DEF Init
  <2>2. Init => Others
    BY DEF Init, Others
  <2> QED
    BY <2>1, <2>2
<1>2. Others /\ Timers /\ [Next]_vars => Timers'
  <2> SUFFICES ASSUME Others, Timers, [Next]_vars PROVE Timers'
    OBVIOUS
  <2> USE ConnectAssumption DEF Others, pageVars, Shows
  <2>1. CASE ClickDisconnects
    BY <2>1 DEF ClickDisconnects, CloseSession
  <2>2. ASSUME NEW s \in Sessions, ClickConnects(s) PROVE Timers'
    BY <2>2 DEF ClickConnects
  <2>3. ASSUME NEW s \in Sessions, SocketOpens(s) PROVE Timers'
    BY <2>3 DEF SocketOpens
  <2>4. ASSUME NEW s \in Sessions, SocketEnds(s) PROVE Timers'
    BY <2>4 DEF SocketEnds
  <2>5. ASSUME NEW s \in Sessions, ConnectFails(s) PROVE Timers'
    BY <2>5 DEF ConnectFails
  <2>6. ASSUME NEW s \in Sessions, ConnectFailsLate(s) PROVE Timers'
    BY <2>6 DEF ConnectFailsLate
  <2>7. ASSUME NEW s \in Sessions, SocketReportsClose(s) PROVE Timers'
    BY <2>7 DEF SocketReportsClose
  <2>8. ASSUME NEW s \in Sessions, Negotiates(s) PROVE Timers'
    BY <2>8 DEF Negotiates
  <2>9. ASSUME NEW s \in Sessions, PeerConnects(s) PROVE Timers'
    BY <2>9 DEF PeerConnects
  <2>10. ASSUME NEW s \in Sessions, PeerDisconnects(s) PROVE Timers'
    BY <2>10 DEF PeerDisconnects
  <2>11. ASSUME NEW s \in Sessions, PeerFails(s) PROVE Timers'
    BY <2>11 DEF PeerFails
  <2>12. CASE UNCHANGED vars
    BY <2>12 DEF vars
  <2> QED
    BY <2>1, <2>2, <2>3, <2>4, <2>5, <2>6, <2>7,
       <2>8, <2>9, <2>10, <2>11, <2>12 DEF Next, SocketReports, Over
<1>3. Others /\ [Next]_vars => Others'
  <2> SUFFICES ASSUME Others, [Next]_vars PROVE Others'
    OBVIOUS
  <2> USE ConnectAssumption DEF Others, pageVars, Shows
  <2>1. CASE ClickDisconnects
    BY <2>1 DEF ClickDisconnects, CloseSession
  <2>2. ASSUME NEW s \in Sessions, ClickConnects(s) PROVE Others'
    BY <2>2 DEF ClickConnects
  <2>3. ASSUME NEW s \in Sessions, SocketOpens(s) PROVE Others'
    BY <2>3 DEF SocketOpens
  <2>4. ASSUME NEW s \in Sessions, SocketEnds(s) PROVE Others'
    BY <2>4 DEF SocketEnds
  <2>5. ASSUME NEW s \in Sessions, ConnectFails(s) PROVE Others'
    BY <2>5 DEF ConnectFails
  <2>6. ASSUME NEW s \in Sessions, ConnectFailsLate(s) PROVE Others'
    BY <2>6 DEF ConnectFailsLate
  <2>7. ASSUME NEW s \in Sessions, SocketReportsClose(s) PROVE Others'
    BY <2>7 DEF SocketReportsClose
  <2>8. ASSUME NEW s \in Sessions, Negotiates(s) PROVE Others'
    BY <2>8 DEF Negotiates
  <2>9. ASSUME NEW s \in Sessions, PeerConnects(s) PROVE Others'
    BY <2>9 DEF PeerConnects
  <2>10. ASSUME NEW s \in Sessions, PeerDisconnects(s) PROVE Others'
    BY <2>10 DEF PeerDisconnects
  <2>11. ASSUME NEW s \in Sessions, PeerFails(s) PROVE Others'
    BY <2>11 DEF PeerFails
  <2>12. CASE UNCHANGED vars
    BY <2>12 DEF vars
  <2> QED
    BY <2>1, <2>2, <2>3, <2>4, <2>5, <2>6, <2>7,
       <2>8, <2>9, <2>10, <2>11, <2>12 DEF Next, SocketReports, Over
<1>4. TypeOK <=> Timers /\ Others
  BY DEF TypeOK, Others
<1> QED
  BY <1>1, <1>2, <1>3, <1>4, PTL DEF Spec

Inv == SocketOrder /\ LiveSessionIsOurs /\ InputFeedsSession /\ LabelAgrees

\* Inv is inductive.
LEMMA Invariance == Spec => []Inv
<1>1. Init => Inv
  BY ConnectAssumption DEF Init, Inv, SocketOrder, LiveSessionIsOurs, Alive,
     InputFeedsSession, LabelAgrees
<1>2. TypeOK /\ Inv /\ [Next]_vars => Inv'
  <2> SUFFICES ASSUME TypeOK, Inv, [Next]_vars PROVE Inv'
    OBVIOUS
  <2> USE ConnectAssumption DEF TypeOK, Inv, SocketOrder, LiveSessionIsOurs, Alive,
                        InputFeedsSession, LabelAgrees, pageVars, Shows
  <2>1. CASE ClickDisconnects
    BY <2>1 DEF ClickDisconnects, CloseSession
  <2>2. ASSUME NEW s \in Sessions, ClickConnects(s) PROVE Inv'
    BY <2>2 DEF ClickConnects
  <2>3. ASSUME NEW s \in Sessions, SocketOpens(s) PROVE Inv'
    BY <2>3 DEF SocketOpens
  <2>4. ASSUME NEW s \in Sessions, SocketEnds(s) PROVE Inv'
    BY <2>4 DEF SocketEnds
  <2>5. ASSUME NEW s \in Sessions, ConnectFails(s) PROVE Inv'
    BY <2>5 DEF ConnectFails
  <2>6. ASSUME NEW s \in Sessions, ConnectFailsLate(s) PROVE Inv'
    BY <2>6 DEF ConnectFailsLate
  <2>7. ASSUME NEW s \in Sessions, SocketReportsClose(s) PROVE Inv'
    BY <2>7 DEF SocketReportsClose
  <2>8. ASSUME NEW s \in Sessions, Negotiates(s) PROVE Inv'
    BY <2>8 DEF Negotiates
  <2>9. ASSUME NEW s \in Sessions, PeerConnects(s) PROVE Inv'
    BY <2>9 DEF PeerConnects
  <2>10. ASSUME NEW s \in Sessions, PeerDisconnects(s) PROVE Inv'
    BY <2>10 DEF PeerDisconnects
  <2>11. ASSUME NEW s \in Sessions, PeerFails(s) PROVE Inv'
    BY <2>11 DEF PeerFails
  <2>12. CASE UNCHANGED vars
    BY <2>12 DEF vars
  <2> QED
    BY <2>1, <2>2, <2>3, <2>4, <2>5, <2>6, <2>7,
       <2>8, <2>9, <2>10, <2>11, <2>12 DEF Next, SocketReports, Over
<1> QED
  BY <1>1, <1>2, TypeCorrect, PTL DEF Spec

\* No session with a live socket or peer connection escapes the button, but
\* those a failed connect() cleared away.
THEOREM LiveSessionsAreOurs == Spec => []LiveSessionIsOurs
BY Invariance, PTL DEF Inv

\* The page never captures input for a session other than its own.
THEOREM InputFeedsOurSession == Spec => []InputFeedsSession
BY Invariance, PTL DEF Inv

\* The button tells the truth about the session that wrote it last.
THEOREM LabelIsTrue == Spec => []LabelAgrees
BY Invariance, PTL DEF Inv

\* Statistics timers end with their sessions.
THEOREM StatsEnd == Spec => []StatsEndWithSession
<1>1. Init => StatsEndWithSession
  BY DEF Init, StatsEndWithSession
<1>2. TypeOK /\ StatsEndWithSession /\ [Next]_vars => StatsEndWithSession'
  <2> SUFFICES ASSUME TypeOK, StatsEndWithSession, [Next]_vars
               PROVE  StatsEndWithSession'
    OBVIOUS
  <2> USE ConnectAssumption DEF TypeOK, StatsEndWithSession, Alive, pageVars, Shows
  <2>1. CASE ClickDisconnects
    BY <2>1 DEF ClickDisconnects, CloseSession
  <2>2. ASSUME NEW s \in Sessions, ClickConnects(s) PROVE StatsEndWithSession'
    BY <2>2 DEF ClickConnects
  <2>3. ASSUME NEW s \in Sessions, SocketOpens(s) PROVE StatsEndWithSession'
    BY <2>3 DEF SocketOpens
  <2>4. ASSUME NEW s \in Sessions, SocketEnds(s) PROVE StatsEndWithSession'
    BY <2>4 DEF SocketEnds
  <2>5. ASSUME NEW s \in Sessions, ConnectFails(s) PROVE StatsEndWithSession'
    BY <2>5 DEF ConnectFails
  <2>6. ASSUME NEW s \in Sessions, ConnectFailsLate(s) PROVE StatsEndWithSession'
    BY <2>6 DEF ConnectFailsLate
  <2>7. ASSUME NEW s \in Sessions, SocketReportsClose(s) PROVE StatsEndWithSession'
    BY <2>7 DEF SocketReportsClose
  <2>8. ASSUME NEW s \in Sessions, Negotiates(s) PROVE StatsEndWithSession'
    BY <2>8 DEF Negotiates
  <2>9. ASSUME NEW s \in Sessions, PeerConnects(s) PROVE StatsEndWithSession'
    BY <2>9 DEF PeerConnects
  <2>10. ASSUME NEW s \in Sessions, PeerDisconnects(s) PROVE StatsEndWithSession'
    BY <2>10 DEF PeerDisconnects
  <2>11. ASSUME NEW s \in Sessions, PeerFails(s) PROVE StatsEndWithSession'
    BY <2>11 DEF PeerFails
  <2>12. CASE UNCHANGED vars
    BY <2>12 DEF vars
  <2> QED
    BY <2>1, <2>2, <2>3, <2>4, <2>5, <2>6, <2>7,
       <2>8, <2>9, <2>10, <2>11, <2>12 DEF Next, SocketReports, Over
<1> QED
  BY <1>1, <1>2, TypeCorrect, PTL DEF Spec

-----------------------------------------------------------------------------
(* LaunchPanel.                                                            *)

\* The type invariant without its flags, which are for Zenon.
LaunchOthers ==
  /\ activeSession \in LaunchSessions \cup {NoLaunch}
  /\ rtspProbe \in LaunchSessions \cup {NoLaunch}
  /\ mediaProbe \in LaunchSessions \cup {NoLaunch}
  /\ granted \in SUBSET LaunchSessions
  /\ at \in [Flows -> {"idle", "launch", "launched", "cancel", "refused",
                       "cancelled", "drop"} \cup InRtsp \cup InMedia \cup InRefresh]
  /\ role \in [Flows -> {"launch", "cancel", "rtsp", "media", "refresh", "none"}]
  /\ aim \in [Flows -> LaunchSessions \cup {NoLaunch}]
  /\ got \in [Flows -> LaunchSessions \cup {NoLaunch, Empty, Failed}]
  /\ panel \in LaunchSessions \cup {NoLaunch}
  /\ rtspPanel \in LaunchSessions \cup {NoLaunch, Empty}
  /\ mediaPanel \in LaunchSessions \cup {NoLaunch, Empty}
  /\ locked \in SUBSET Buttons /\ stale \in SUBSET Panels

\* The function a flow is in fits how far it is, and only probeMedia is ever
\* answered with an empty diagnostic.
FlowShape ==
  \A f \in Flows :
    /\ at[f] = "idle" <=> role[f] = "none"
    /\ at[f] \in {"launch", "launched"} => role[f] = "launch"
    /\ at[f] \in {"cancel", "refused", "cancelled"} => role[f] = "cancel"
    /\ at[f] = "drop" => role[f] \in {"launch", "cancel"}
    /\ at[f] \in InRtsp => role[f] \in {"rtsp", "launch"}
    /\ at[f] \in InMedia => role[f] = "media"
    /\ at[f] \in InRefresh => role[f] \in {"refresh", "launch", "cancel"}
    /\ at[f] = "drop" /\ role[f] = "launch" => aim[f] \in LaunchSessions
    /\ got[f] = Empty => at[f] = "captured"

LaunchShape == LaunchOthers /\ FlowShape

LEMMA LaunchShapeStep ==
  ASSUME LaunchShape, NEW f \in Flows,
         FlowStep(f) \/ ClickLaunch(f) \/ ClickCancel(f) \/ ClickProbeRtsp(f)
           \/ ClickProbeMedia(f) \/ ClickRefresh(f)
  PROVE  LaunchShape'
<1> USE LaunchPanelAssumption
    DEF LaunchShape, LaunchOthers, FlowShape, InRtsp, InMedia, InRefresh,
        Begins, GoesOn, Answers, Used, Ends, Tells, Buttons, Panels,
        hostVars, panelVars, buttonVars
<1>1. ASSUME NEW s \in LaunchSessions, LaunchExecuted(f, s) PROVE LaunchShape'
  BY <1>1 DEF LaunchExecuted
<1>2. CASE LaunchRefused(f)
  BY <1>2 DEF LaunchRefused
<1>3. CASE CachesDropped(f)
  BY <1>3 DEF CachesDropped
<1>4. CASE LaunchReturns(f)
  BY <1>4 DEF LaunchReturns
<1>5. CASE LaunchFails(f)
  BY <1>5 DEF LaunchFails
<1>6. CASE CancelExecuted(f)
  BY <1>6 DEF CancelExecuted
<1>7. CASE CancelRefused(f)
  BY <1>7 DEF CancelRefused
<1>8. CASE CancelReturns(f)
  BY <1>8 DEF CancelReturns
<1>9. CASE CancelFails(f)
  BY <1>9 DEF CancelFails
<1>10. CASE RtspBegins(f)
  BY <1>10 DEF RtspBegins
<1>11. CASE RtspEnds(f)
  BY <1>11 DEF RtspEnds
<1>12. CASE RtspReturns(f)
  BY <1>12 DEF RtspReturns
<1>13. CASE MediaBegins(f)
  BY <1>13 DEF MediaBegins
<1>14. CASE MediaStarts(f)
  BY <1>14 DEF MediaStarts, MaySetUp
<1>15. CASE MediaFailsEarly(f)
  BY <1>15 DEF MediaFailsEarly, MaySetUp
<1>16. CASE MediaEnds(f)
  BY <1>16 DEF MediaEnds
<1>17. CASE MediaReturns(f)
  <2>1. CASE got[f] = Failed
    BY <1>17, <2>1 DEF MediaReturns
  <2>2. CASE got[f] # Failed
    <3>a. got[f] \in LaunchSessions \cup {NoLaunch, Empty} /\ mediaPanel' = got[f]
      BY <1>17, <2>2 DEF MediaReturns
    <3>b. stale' \in SUBSET Panels
      BY <1>17, <2>2, Zenon DEF MediaReturns
    <3>c. locked' \in SUBSET Buttons
      BY <1>17 DEF MediaReturns
    <3>1. LaunchOthers'
      BY <1>17, <3>a, <3>b, <3>c DEF MediaReturns
    <3>2. FlowShape'
      BY <1>17, <2>2 DEF MediaReturns
    <3> QED
      BY <3>1, <3>2
  <2> QED
    BY <2>1, <2>2
<1>18. CASE AppsListed(f)
  BY <1>18 DEF AppsListed
<1>19. CASE RefreshStops(f)
  BY <1>19 DEF RefreshStops
<1>20. CASE SessionAnswered(f)
  BY <1>20 DEF SessionAnswered
<1>21. CASE SessionShown(f)
  BY <1>21 DEF SessionShown
<1>22. CASE SessionMissing(f)
  BY <1>22 DEF SessionMissing
<1>23. CASE RtspStatusAnswered(f)
  BY <1>23 DEF RtspStatusAnswered
<1>24. CASE RtspStatusReturns(f)
  BY <1>24 DEF RtspStatusReturns
<1>25. CASE MediaStatusAnswered(f)
  BY <1>25 DEF MediaStatusAnswered
<1>26. CASE MediaStatusReturns(f)
  BY <1>26 DEF MediaStatusReturns
<1>27. CASE ClickLaunch(f)
  BY <1>27 DEF ClickLaunch
<1>28. CASE ClickCancel(f)
  BY <1>28 DEF ClickCancel
<1>29. CASE ClickProbeRtsp(f)
  BY <1>29 DEF ClickProbeRtsp
<1>30. CASE ClickProbeMedia(f)
  BY <1>30 DEF ClickProbeMedia
<1>31. CASE ClickRefresh(f)
  BY <1>31 DEF ClickRefresh
<1> QED
  BY <1>1, <1>2, <1>3, <1>4, <1>5, <1>6, <1>7, <1>8, <1>9, <1>10, <1>11,
     <1>12, <1>13, <1>14, <1>15, <1>16, <1>17, <1>18, <1>19, <1>20, <1>21,
     <1>22, <1>23, <1>24, <1>25, <1>26, <1>27, <1>28, <1>29, <1>30, <1>31
     DEF FlowStep
\* One launch at a time, and "launching" as long as it runs.
OneLaunch ==
  /\ \A f \in Flows : role[f] = "launch" => launching
  /\ \A f, g \in Flows : role[f] = "launch" /\ role[g] = "launch" => f = g

\* Where a call ends, its lock ends with it, and no other call's.
LEMMA EndsStep ==
  ASSUME LaunchShape, launching \in BOOLEAN, OneLaunch, LocksHaveOwner,
         NEW f \in Flows, Ends(f), at[f] \in {"launched", "refused", "cancelled"} \cup InRefresh
  PROVE  OneLaunch' /\ LocksHaveOwner'
<1>1. launching' = IF role[f] = "launch" THEN FALSE ELSE launching
  BY Zenon DEF Ends
<1> DEFINE Rest == /\ GoesOn(f, at[f], "idle")
                   /\ locked' = IF role[f] = "cancel" THEN locked \ {"cancel"} ELSE locked
<1>2. Rest
  BY Zenon DEF Ends
<1> HIDE DEF Rest
<1> USE <1>2 DEF LaunchShape, LaunchOthers, FlowShape, InRtsp, InMedia, InRefresh,
        GoesOn, Buttons, OneLaunch, LocksHaveOwner, Rest
<1>3. CASE role[f] = "launch"
  BY <1>1, <1>3
<1>4. CASE role[f] # "launch"
  BY <1>1, <1>4
<1> QED
  BY <1>3, <1>4

LEMMA LocksStep ==
  ASSUME LaunchShape, launching \in BOOLEAN, OneLaunch, LocksHaveOwner,
         NEW f \in Flows,
         FlowStep(f) \/ ClickLaunch(f) \/ ClickCancel(f) \/ ClickProbeRtsp(f)
           \/ ClickProbeMedia(f) \/ ClickRefresh(f)
  PROVE  OneLaunch' /\ LocksHaveOwner'
<1> USE LaunchPanelAssumption
    DEF LaunchShape, LaunchOthers, FlowShape, InRtsp, InMedia, InRefresh,
        Begins, GoesOn, Answers, Used, Ends, Buttons,
        hostVars, panelVars, buttonVars, OneLaunch, LocksHaveOwner
<1>1. ASSUME NEW s \in LaunchSessions, LaunchExecuted(f, s) PROVE OneLaunch' /\ LocksHaveOwner'
  BY <1>1 DEF LaunchExecuted
<1>2. CASE LaunchRefused(f)
  BY <1>2 DEF LaunchRefused
<1>3. CASE CachesDropped(f)
  BY <1>3 DEF CachesDropped
<1>4. CASE LaunchReturns(f)
  BY <1>4 DEF LaunchReturns
<1>5. CASE LaunchFails(f)
  BY <1>5, EndsStep, Zenon DEF LaunchFails, InRefresh
<1>6. CASE CancelExecuted(f)
  BY <1>6 DEF CancelExecuted
<1>7. CASE CancelRefused(f)
  BY <1>7 DEF CancelRefused
<1>8. CASE CancelReturns(f)
  BY <1>8 DEF CancelReturns
<1>9. CASE CancelFails(f)
  BY <1>9, EndsStep, Zenon DEF CancelFails, InRefresh
<1>10. CASE RtspBegins(f)
  BY <1>10 DEF RtspBegins
<1>11. CASE RtspEnds(f)
  BY <1>11 DEF RtspEnds
<1>12. CASE RtspReturns(f)
  BY <1>12 DEF RtspReturns
<1>13. CASE MediaBegins(f)
  BY <1>13 DEF MediaBegins
<1>14. CASE MediaStarts(f)
  BY <1>14 DEF MediaStarts, MaySetUp
<1>15. CASE MediaFailsEarly(f)
  BY <1>15 DEF MediaFailsEarly, MaySetUp
<1>16. CASE MediaEnds(f)
  BY <1>16 DEF MediaEnds
<1>17. CASE MediaReturns(f)
  BY <1>17 DEF MediaReturns
<1>18. CASE AppsListed(f)
  BY <1>18 DEF AppsListed
<1>19. CASE RefreshStops(f)
  BY <1>19, EndsStep, Zenon DEF RefreshStops, InRefresh
<1>20. CASE SessionAnswered(f)
  BY <1>20 DEF SessionAnswered
<1>21. CASE SessionShown(f)
  BY <1>21 DEF SessionShown
<1>22. CASE SessionMissing(f)
  BY <1>22, EndsStep, Zenon DEF SessionMissing, InRefresh
<1>23. CASE RtspStatusAnswered(f)
  BY <1>23 DEF RtspStatusAnswered
<1>24. CASE RtspStatusReturns(f)
  BY <1>24 DEF RtspStatusReturns
<1>25. CASE MediaStatusAnswered(f)
  BY <1>25 DEF MediaStatusAnswered
<1>26. CASE MediaStatusReturns(f)
  BY <1>26, EndsStep, Zenon DEF MediaStatusReturns, InRefresh
<1>27. CASE ClickLaunch(f)
  BY <1>27 DEF ClickLaunch
<1>28. CASE ClickCancel(f)
  BY <1>28 DEF ClickCancel
<1>29. CASE ClickProbeRtsp(f)
  BY <1>29 DEF ClickProbeRtsp
<1>30. CASE ClickProbeMedia(f)
  BY <1>30 DEF ClickProbeMedia
<1>31. CASE ClickRefresh(f)
  BY <1>31 DEF ClickRefresh
<1> QED
  BY <1>1, <1>2, <1>3, <1>4, <1>5, <1>6, <1>7, <1>8, <1>9, <1>10, <1>11,
     <1>12, <1>13, <1>14, <1>15, <1>16, <1>17, <1>18, <1>19, <1>20, <1>21,
     <1>22, <1>23, <1>24, <1>25, <1>26, <1>27, <1>28, <1>29, <1>30, <1>31
     DEF FlowStep

\* Without a session no panel has one to tell, but for a cancel on its way
\* back to the page.
NoneShown(which, s) ==
  /\ activeSession = NoLaunch
  /\ which \notin stale
  /\ \A f \in Flows : ~(role[f] = "cancel" /\ at[f] \in {"drop", "cancelled"})
  => s \notin LaunchSessions

\* A launch that has learnt that there is no session (any more) leaves nothing
\* to do for the media panel, which its refresh will not reach.
NothingOwed ==
  \A f \in Flows :
    /\ role[f] = "launch" /\ at[f] = "told" /\ got[f] = NoLaunch
    /\ mediaPanel \in LaunchSessions /\ "media" \notin stale
    /\ \A g \in Flows : g # f => ~Owes(g, "media")
    => mediaPanel = activeSession

PanelInv == PanelsTellLive /\ NoneShown("media", mediaPanel) /\ NothingOwed

LEMMA PanelStep ==
  ASSUME LaunchShape, OneLaunch, PanelInv, NEW f \in Flows,
         FlowStep(f) \/ ClickLaunch(f) \/ ClickCancel(f) \/ ClickProbeRtsp(f)
           \/ ClickProbeMedia(f) \/ ClickRefresh(f)
  PROVE  PanelInv'
<1> USE LaunchPanelAssumption
    DEF LaunchShape, LaunchOthers, FlowShape, InRtsp, InMedia, InRefresh,
        Begins, GoesOn, Answers, Used, Ends, Tells, Panels, hostVars,
        panelVars, buttonVars, OneLaunch, PanelInv, PanelsTellLive, Agrees,
        Owes, NoneShown, NothingOwed
<1>1. ASSUME NEW s \in LaunchSessions, LaunchExecuted(f, s) PROVE PanelInv'
  BY <1>1 DEF LaunchExecuted
<1>2. CASE LaunchRefused(f)
  BY <1>2 DEF LaunchRefused
<1>3. CASE CachesDropped(f)
  BY <1>3 DEF CachesDropped
<1>4. CASE LaunchReturns(f)
  BY <1>4 DEF LaunchReturns
<1>5. CASE LaunchFails(f)
  BY <1>5 DEF LaunchFails
<1>6. CASE CancelExecuted(f)
  BY <1>6 DEF CancelExecuted
<1>7. CASE CancelRefused(f)
  BY <1>7 DEF CancelRefused
<1>8. CASE CancelReturns(f)
  BY <1>8 DEF CancelReturns
<1>9. CASE CancelFails(f)
  BY <1>9 DEF CancelFails
<1>10. CASE RtspBegins(f)
  BY <1>10 DEF RtspBegins
<1>11. CASE RtspEnds(f)
  BY <1>11 DEF RtspEnds
<1>12. CASE RtspReturns(f)
  BY <1>12 DEF RtspReturns
<1>13. CASE MediaBegins(f)
  BY <1>13 DEF MediaBegins
<1>14. CASE MediaStarts(f)
  BY <1>14 DEF MediaStarts, MaySetUp
<1>15. CASE MediaFailsEarly(f)
  BY <1>15 DEF MediaFailsEarly, MaySetUp
<1>16. CASE MediaEnds(f)
  BY <1>16 DEF MediaEnds
<1>17. CASE MediaReturns(f)
  BY <1>17 DEF MediaReturns
<1>18. CASE AppsListed(f)
  BY <1>18 DEF AppsListed
<1>19. CASE RefreshStops(f)
  BY <1>19 DEF RefreshStops
<1>20. CASE SessionAnswered(f)
  BY <1>20 DEF SessionAnswered
<1>21. CASE SessionShown(f)
  BY <1>21 DEF SessionShown
<1>22. CASE SessionMissing(f)
  BY <1>22 DEF SessionMissing
<1>23. CASE RtspStatusAnswered(f)
  BY <1>23 DEF RtspStatusAnswered
<1>24. CASE RtspStatusReturns(f)
  BY <1>24 DEF RtspStatusReturns
<1>25. CASE MediaStatusAnswered(f)
  BY <1>25 DEF MediaStatusAnswered
<1>26. CASE MediaStatusReturns(f)
  BY <1>26 DEF MediaStatusReturns
<1>27. CASE ClickLaunch(f)
  BY <1>27 DEF ClickLaunch
<1>28. CASE ClickCancel(f)
  BY <1>28 DEF ClickCancel
<1>29. CASE ClickProbeRtsp(f)
  BY <1>29 DEF ClickProbeRtsp
<1>30. CASE ClickProbeMedia(f)
  BY <1>30 DEF ClickProbeMedia
<1>31. CASE ClickRefresh(f)
  BY <1>31 DEF ClickRefresh
<1> QED
  BY <1>1, <1>2, <1>3, <1>4, <1>5, <1>6, <1>7, <1>8, <1>9, <1>10, <1>11,
     <1>12, <1>13, <1>14, <1>15, <1>16, <1>17, <1>18, <1>19, <1>20, <1>21,
     <1>22, <1>23, <1>24, <1>25, <1>26, <1>27, <1>28, <1>29, <1>30, <1>31
     DEF FlowStep


\* Type correctness of LaunchPanel: in particular "empty" reaches no panel but
\* those of the diagnostics, for which FlowShape is needed.
THEOREM LaunchTypeCorrect == LaunchSpec => [](LaunchTypeOK /\ FlowShape)
<1> DEFINE Flags == listed \in BOOLEAN /\ launching \in BOOLEAN
<1>1. LaunchInit => Flags
  BY Zenon DEF LaunchInit
<1>2. Flags /\ [LaunchNext]_launchVars => Flags'
  <2> SUFFICES ASSUME Flags, [LaunchNext]_launchVars PROVE Flags'
    OBVIOUS
  <2>1. CASE UNCHANGED launchVars
    BY <2>1, Zenon DEF launchVars, buttonVars
  <2>2. ASSUME NEW f \in Flows, FlowStep(f) PROVE Flags'
    <3>1. ASSUME Ends(f), listed' \in {listed, FALSE} PROVE Flags'
      BY <3>1, Zenon DEF Ends
    <3>2. CASE LaunchFails(f) \/ CancelFails(f) \/ RefreshStops(f)
               \/ SessionMissing(f) \/ MediaStatusReturns(f)
      BY <3>1, <3>2, Zenon DEF LaunchFails, CancelFails, RefreshStops,
         SessionMissing, MediaStatusReturns
    <3>3. CASE ~(LaunchFails(f) \/ CancelFails(f) \/ RefreshStops(f)
                 \/ SessionMissing(f) \/ MediaStatusReturns(f))
      BY <2>2, <3>3, Zenon DEF FlowStep, buttonVars,
         LaunchExecuted, LaunchRefused, CachesDropped, LaunchReturns,
         CancelExecuted, CancelRefused, CancelReturns, RtspBegins, RtspEnds,
         RtspReturns, MediaBegins, MediaStarts, MediaFailsEarly, MediaEnds,
         MediaReturns, AppsListed, SessionAnswered, SessionShown,
         RtspStatusAnswered, RtspStatusReturns, MediaStatusAnswered
    <3> QED
      BY <3>2, <3>3
  <2>3. ASSUME NEW f \in Flows,
               ClickLaunch(f) \/ ClickCancel(f) \/ ClickProbeRtsp(f)
                 \/ ClickProbeMedia(f) \/ ClickRefresh(f)
        PROVE  Flags'
    BY <2>3, Zenon DEF ClickLaunch, ClickCancel, ClickProbeRtsp,
       ClickProbeMedia, ClickRefresh, buttonVars
  <2> QED
    BY <2>1, <2>2, <2>3, Zenon DEF LaunchNext
<1>3. LaunchInit => LaunchShape
  BY LaunchPanelAssumption
     DEF LaunchInit, LaunchShape, LaunchOthers, FlowShape, InRtsp, InMedia,
         InRefresh, Buttons, Panels
<1>4. LaunchShape /\ [LaunchNext]_launchVars => LaunchShape'
  <2> SUFFICES ASSUME LaunchShape, [LaunchNext]_launchVars PROVE LaunchShape'
    OBVIOUS
  <2>1. CASE UNCHANGED launchVars
    BY <2>1 DEF launchVars, hostVars, panelVars, buttonVars, LaunchShape,
                LaunchOthers, FlowShape
  <2>2. CASE LaunchNext
    BY <2>2, LaunchShapeStep DEF LaunchNext
  <2> QED
    BY <2>1, <2>2
<1>5. LaunchTypeOK /\ FlowShape <=> Flags /\ LaunchShape
  BY DEF LaunchTypeOK, LaunchOthers, LaunchShape
<1> QED
  BY <1>1, <1>2, <1>3, <1>4, <1>5, PTL DEF LaunchSpec

\* No overlap of launches, cancels, probes and refreshes leaves "launching" or
\* a disabled button behind: for any number of calls at once, each lock has a
\* call that will give it back, and launches exclude one another.
THEOREM LocksAreOwned == LaunchSpec => [](LocksHaveOwner /\ OneLaunch)
<1>1. LaunchInit => OneLaunch /\ LocksHaveOwner
  BY DEF LaunchInit, OneLaunch, LocksHaveOwner
<1>2. LaunchTypeOK /\ FlowShape => LaunchShape /\ launching \in BOOLEAN
  BY DEF LaunchTypeOK, LaunchOthers, LaunchShape
<1>3. LaunchShape /\ launching \in BOOLEAN /\ OneLaunch /\ LocksHaveOwner
        /\ [LaunchNext]_launchVars => OneLaunch' /\ LocksHaveOwner'
  <2> SUFFICES ASSUME LaunchShape, launching \in BOOLEAN, OneLaunch,
                      LocksHaveOwner, [LaunchNext]_launchVars
               PROVE  OneLaunch' /\ LocksHaveOwner'
    OBVIOUS
  <2>1. CASE UNCHANGED launchVars
    BY <2>1 DEF launchVars, buttonVars, OneLaunch, LocksHaveOwner
  <2>2. CASE LaunchNext
    BY <2>2, LocksStep DEF LaunchNext
  <2> QED
    BY <2>1, <2>2
<1> QED
  BY <1>1, <1>2, <1>3, LaunchTypeCorrect, PTL DEF LaunchSpec

\* Once the launches and cancels that reached the host have come back, every
\* panel tells of the session the host has, unless it was told something
\* overtaken since: whatever else was asked and answered in between.
THEOREM PanelsAreTruthful == LaunchSpec => []PanelsTellLive
<1>1. LaunchInit => PanelInv
  BY LaunchPanelAssumption
     DEF LaunchInit, PanelInv, PanelsTellLive, Agrees, NoneShown, NothingOwed
<1>2. LaunchTypeOK /\ FlowShape => LaunchShape
  BY DEF LaunchTypeOK, LaunchOthers, LaunchShape
<1>3. LaunchShape /\ OneLaunch /\ PanelInv /\ [LaunchNext]_launchVars => PanelInv'
  <2> SUFFICES ASSUME LaunchShape, OneLaunch, PanelInv, [LaunchNext]_launchVars
               PROVE  PanelInv'
    OBVIOUS
  <2>1. CASE UNCHANGED launchVars
    BY <2>1 DEF launchVars, hostVars, panelVars, PanelInv, PanelsTellLive,
                Agrees, Owes, NoneShown, NothingOwed
  <2>2. CASE LaunchNext
    BY <2>2, PanelStep DEF LaunchNext
  <2> QED
    BY <2>1, <2>2
<1>4. PanelInv => PanelsTellLive
  BY DEF PanelInv
<1> QED
  BY <1>1, <1>2, <1>3, <1>4, LaunchTypeCorrect, LocksAreOwned, PTL DEF LaunchSpec

\* How far a call has come: at most thirteen requests and answers.
Place(where) ==
  CASE where \in {"launch", "cancel", "media"} -> 1
    [] where \in {"drop", "preparing"} -> 2
    [] where \in {"launched", "cancelled", "refused", "capturing"} -> 3
    [] where \in {"rtsp", "captured"} -> 4
    [] where = "probing" -> 5
    [] where = "probed" -> 6
    [] where = "refresh" -> 7
    [] where = "session" -> 8
    [] where = "told" -> 9
    [] where = "rtsp_status" -> 10
    [] where = "rtsp_told" -> 11
    [] where = "media_status" -> 12
    [] where = "media_told" -> 13
    [] OTHER -> 0

\* What a call has disabled is enabled again when it ends; probeRTSP enables
\* its button before the refresh that may follow it.
GivesBack(f) ==
  /\ at'[f] = "idle" /\ role[f] = "launch" => ~launching'
  /\ at'[f] = "idle" /\ role[f] = "cancel" => "cancel" \notin locked'
  /\ at[f] \in InRtsp /\ at'[f] \notin InRtsp => "rtsp" \notin locked'
  /\ at[f] \in InMedia /\ at'[f] \notin InMedia => "media" \notin locked'

\* Every step of a call under way takes it further or ends it, whichever error
\* it meets, and gives its button back. With LocksAreOwned: a disabled button
\* waits for at most thirteen steps of one call.
CallsAdvance ==
  [][\A f \in Flows :
       at[f] # "idle" /\ at'[f] # at[f] =>
         /\ FlowStep(f)
         /\ at'[f] = "idle" \/ Place(at'[f]) > Place(at[f])
         /\ GivesBack(f)]_launchVars

\* A call that ends gives "launching" back.
LEMMA LaunchingGivenBack ==
  ASSUME LaunchShape, NEW f \in Flows, FlowStep(f), at'[f] = "idle",
         role[f] = "launch"
  PROVE  ~launching'
<1> USE DEF LaunchShape, LaunchOthers, FlowShape, InRtsp, InMedia, InRefresh, GoesOn
<1>1. ASSUME Ends(f) PROVE ~launching'
  BY <1>1, Zenon DEF Ends
<1>2. CASE LaunchFails(f) \/ CancelFails(f) \/ RefreshStops(f)
           \/ SessionMissing(f) \/ MediaStatusReturns(f)
  BY <1>1, <1>2, Zenon DEF LaunchFails, CancelFails, RefreshStops,
     SessionMissing, MediaStatusReturns
<1>3. CASE (\E s \in LaunchSessions : LaunchExecuted(f, s)) \/ LaunchRefused(f)
           \/ CachesDropped(f) \/ LaunchReturns(f) \/ CancelExecuted(f)
           \/ CancelRefused(f) \/ CancelReturns(f) \/ RtspBegins(f) \/ RtspEnds(f)
           \/ RtspReturns(f)
  BY <1>3 DEF LaunchExecuted, LaunchRefused, CachesDropped, LaunchReturns,
     CancelExecuted, CancelRefused, CancelReturns, RtspBegins, RtspEnds, RtspReturns
<1>4. CASE MediaBegins(f) \/ MediaStarts(f) \/ MediaFailsEarly(f) \/ MediaEnds(f)
           \/ MediaReturns(f) \/ AppsListed(f) \/ SessionAnswered(f)
           \/ SessionShown(f) \/ RtspStatusAnswered(f) \/ RtspStatusReturns(f)
           \/ MediaStatusAnswered(f)
  BY <1>4 DEF MediaBegins, MediaStarts, MediaFailsEarly, MediaEnds, MediaReturns,
     AppsListed, SessionAnswered, SessionShown, RtspStatusAnswered,
     RtspStatusReturns, MediaStatusAnswered
<1> QED
  BY <1>2, <1>3, <1>4 DEF FlowStep

\* A step of one call takes it further, gives its button back when it is over
\* and moves no other call.
LEMMA FlowAdvances ==
  ASSUME LaunchShape, NEW f \in Flows, FlowStep(f)
  PROVE  /\ at'[f] = "idle" \/ Place(at'[f]) > Place(at[f])
         /\ GivesBack(f)
         /\ \A g \in Flows \ {f} : at'[g] = at[g]
<1> DEFINE Further == at'[f] = "idle" \/ Place(at'[f]) > Place(at[f])
           Unlocks == /\ at'[f] = "idle" /\ role[f] = "cancel"
                           => "cancel" \notin locked'
                      /\ at[f] \in InRtsp /\ at'[f] \notin InRtsp
                           => "rtsp" \notin locked'
                      /\ at[f] \in InMedia /\ at'[f] \notin InMedia
                           => "media" \notin locked'
           Still == \A g \in Flows \ {f} : at'[g] = at[g]
<1> SUFFICES Further /\ Unlocks /\ Still
  BY LaunchingGivenBack, Zenon DEF GivesBack
<1> USE DEF LaunchShape, LaunchOthers, FlowShape, InRtsp, InMedia, InRefresh,
            Buttons, GoesOn, Place
<1>1. ASSUME Ends(f), at[f] \in {"launched", "refused", "cancelled"} \cup InRefresh
      PROVE  Further /\ Unlocks /\ Still
  BY <1>1 DEF Ends
<1>2. CASE LaunchFails(f) \/ CancelFails(f) \/ RefreshStops(f)
           \/ SessionMissing(f) \/ MediaStatusReturns(f)
  BY <1>1, <1>2 DEF LaunchFails, CancelFails, RefreshStops, SessionMissing,
     MediaStatusReturns
<1>3. CASE (\E s \in LaunchSessions : LaunchExecuted(f, s)) \/ LaunchRefused(f)
           \/ CachesDropped(f) \/ LaunchReturns(f)
  BY <1>3 DEF LaunchExecuted, LaunchRefused, CachesDropped, LaunchReturns
<1>4. CASE CancelExecuted(f) \/ CancelRefused(f) \/ CancelReturns(f)
  BY <1>4 DEF CancelExecuted, CancelRefused, CancelReturns
<1>5. CASE RtspBegins(f) \/ RtspEnds(f) \/ RtspReturns(f)
  BY <1>5 DEF RtspBegins, RtspEnds, RtspReturns
<1>6. CASE MediaBegins(f) \/ MediaStarts(f) \/ MediaFailsEarly(f) \/ MediaEnds(f)
           \/ MediaReturns(f)
  BY <1>6 DEF MediaBegins, MediaStarts, MediaFailsEarly, MediaEnds, MediaReturns
<1>7. CASE AppsListed(f) \/ SessionAnswered(f) \/ SessionShown(f)
           \/ RtspStatusAnswered(f) \/ RtspStatusReturns(f)
           \/ MediaStatusAnswered(f)
  BY <1>7 DEF AppsListed, SessionAnswered, SessionShown, RtspStatusAnswered,
     RtspStatusReturns, MediaStatusAnswered
<1> QED
  BY <1>2, <1>3, <1>4, <1>5, <1>6, <1>7 DEF FlowStep

\* No button of the launch panel stays disabled and no call goes round in
\* circles: launchApp, cancelLaunch, the probes and the refreshes all end.
THEOREM CallsEnd == LaunchSpec => CallsAdvance
<1> DEFINE Moves ==
      \A f \in Flows :
        at[f] # "idle" /\ at'[f] # at[f] =>
          /\ FlowStep(f)
          /\ at'[f] = "idle" \/ Place(at'[f]) > Place(at[f])
          /\ GivesBack(f)
<1>1. LaunchTypeOK /\ FlowShape => LaunchShape
  BY DEF LaunchTypeOK, LaunchOthers, LaunchShape
<1>2. LaunchShape /\ [LaunchNext]_launchVars => [Moves]_launchVars
  <2> SUFFICES ASSUME LaunchShape, [LaunchNext]_launchVars,
                      launchVars' # launchVars
               PROVE  Moves
    OBVIOUS
  <2>1. ASSUME NEW f \in Flows, FlowStep(f) PROVE Moves
    <3> HIDE DEF LaunchShape
    <3> QED BY <2>1, FlowAdvances
  <2>2. ASSUME NEW f \in Flows,
               ClickLaunch(f) \/ ClickCancel(f) \/ ClickProbeRtsp(f)
                 \/ ClickProbeMedia(f) \/ ClickRefresh(f)
        PROVE  Moves
    <3>1. at[f] = "idle" /\ \A g \in Flows \ {f} : at'[g] = at[g]
      BY <2>2 DEF LaunchShape, LaunchOthers, ClickLaunch, ClickCancel,
         ClickProbeRtsp, ClickProbeMedia, ClickRefresh, Begins
    <3> QED BY <3>1
  <2> QED
    BY <2>1, <2>2 DEF LaunchNext
<1>3. [][Moves]_launchVars => CallsAdvance
  BY DEF CallsAdvance
<1> QED
  BY <1>1, <1>2, <1>3, LaunchTypeCorrect, PTL DEF LaunchSpec
=============================================================================
