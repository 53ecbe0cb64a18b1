-------------------------- MODULE GameStreamProofs --------------------------
(* Proofs that the safety properties of GameStream hold for any number of  *)
(* handlers and sessions, that it implements SessionPromise, that those of *)
(* MediaCapture hold for any number of datagrams, and that a capture is    *)
(* what GameStream's media actions say of it.                              *)
EXTENDS SessionRefinement, MediaCapture, TLAPS

\* A handler has read a session before it uses it; without this the type of
\* what a handler stores would not be inductive.
Assigned ==
  \A h \in Handlers :
    /\ pc[h] \in Media => mine[h] \in Sessions
    /\ pc[h] \in {"rtsp", "media_setup", "bind"} \cup Capturing
         => setup[h] \in Sessions

\* TypeOK together with Assigned is inductive.
LEMMA TypingAssigned == Spec => [](TypeOK /\ Assigned)
<1>1. Init => TypeOK /\ Assigned
  <2> SUFFICES ASSUME Init PROVE TypeOK /\ Assigned
    OBVIOUS
  <2>1. diverged \in BOOLEAN
    BY Zenon DEF Init
  <2>2. pc \in [Handlers -> PcValues]
    BY DEF Init, PcValues
  <2>3. granted \in SUBSET Sessions /\ sunshine \in Sessions \cup {NoSession}
    BY DEF Init
  <2>4. Assigned
    BY DEF Init, Assigned, Media, Capturing
  <2> QED BY <2>1, <2>2, <2>3, <2>4 DEF Init, TypeOK
<1>2. TypeOK /\ Assigned /\ [Next]_vars => TypeOK' /\ Assigned'
  <2> SUFFICES ASSUME TypeOK, Assigned, [Next]_vars PROVE TypeOK' /\ Assigned'
    OBVIOUS
  <2> USE DEF TypeOK, Assigned, clientVars, sunshineVars, localVars,
              PcValues, Answered, Resetting, Capturing, Media, Probing
  <2>1. CASE SunshineEnds
    BY <2>1 DEF SunshineEnds
  <2>2. ASSUME NEW h \in Handlers, Begin(h) PROVE TypeOK' /\ Assigned'
    <3>1. CASE LaunchBegins(h) \/ CancelBegins(h)
      BY <3>1 DEF LaunchBegins, CancelBegins, Advance
    <3>2. CASE RtspBegins(h)
      BY <3>2 DEF RtspBegins, Advance
    <3>3. CASE MediaBegins(h)
      BY <3>3 DEF MediaBegins, Advance
    <3> QED BY <2>2, <3>1, <3>2, <3>3 DEF Begin
  <2>3. ASSUME NEW h \in Handlers, Step(h) PROVE TypeOK' /\ Assigned'
    <3>1. ASSUME NEW s \in Sessions, SunshineLaunches(h, s)
          PROVE  TypeOK' /\ Assigned'
      <4>1. diverged' \in BOOLEAN
        BY <3>1, Zenon DEF SunshineLaunches, Reordered
      <4> QED BY <3>1, <4>1 DEF SunshineLaunches, Advance
    <3>2. CASE SunshineCancels(h)
      <4>1. diverged' \in BOOLEAN
        BY <3>2, Zenon DEF SunshineCancels, Reordered
      <4> QED BY <3>2, <4>1 DEF SunshineCancels, Advance
    <3>3. CASE LaunchStores(h) \/ CancelStores(h)
      <4>1. Replaced
        BY <3>3 DEF LaunchStores, CancelStores
      <4>2. \A g \in Handlers : (pc[g] \in Probing) \in BOOLEAN
        OBVIOUS
      <4>3. overlap' \in [Handlers -> BOOLEAN]
        BY <4>1, <4>2, Zenon DEF Replaced
      <4> QED BY <3>3, <4>3 DEF LaunchStores, CancelStores, Advance
    <3>4. CASE DropsRtsp(h)
      BY <3>4 DEF DropsRtsp, Advance
    <3>5. CASE DropsMedia(h)
      BY <3>5 DEF DropsMedia, Returns
    <3>6. CASE RequestFails(h)
      <4>1. diverged' \in BOOLEAN
        BY <3>6, Zenon DEF RequestFails
      <4> QED BY <3>6, <4>1 DEF RequestFails, Returns
    <3>7. CASE MediaProbesRtsp(h)
      BY <3>7 DEF MediaProbesRtsp, Advance
    <3>8. CASE RtspStores(h)
      <4>1. rtspProbe' \in RtspProbes
        BY <3>8 DEF RtspStores, RtspProbes, Advance
      <4> QED BY <3>8, <4>1 DEF RtspStores, Advance, Returns
    <3>9. CASE MediaReusesRtsp(h)
      <4>1. rtspProbe.session \in Sessions /\ rtspProbe.late \in BOOLEAN
        BY <3>9 DEF MediaReusesRtsp, Reusable, RtspProbes
      <4>2. overlap' \in [Handlers -> BOOLEAN]
        BY <3>9 DEF MediaReusesRtsp
      <4> QED BY <3>9, <4>1, <4>2 DEF MediaReusesRtsp, Advance
    <3>10. CASE MediaNeedsRtsp(h) \/ MediaAnnounced(h)
      BY <3>10 DEF MediaNeedsRtsp, MediaAnnounced, Advance
    <3>11. CASE MediaStarts(h) \/ MediaPlays(h)
      <4>1. mediaProbe' \in MediaProbes
        BY <3>11 DEF MediaStarts, MediaPlays, SetMediaProbe, MediaProbes,
                     MediaStates, Advance
      <4> QED BY <3>11, <4>1 DEF MediaStarts, MediaPlays, Advance
    <3>12. CASE MediaSucceeds(h) \/ MediaFails(h)
      <4>1. mediaProbe' \in MediaProbes
        BY <3>12 DEF MediaSucceeds, MediaFails, SetMediaProbe, MediaProbes,
                     MediaStates
      <4> QED BY <3>12, <4>1 DEF MediaSucceeds, MediaFails, Returns
    <3>13. CASE ProbeFails(h)
      BY <3>13 DEF ProbeFails, Returns
    <3> QED BY <2>3, <3>1, <3>2, <3>3, <3>4, <3>5, <3>6, <3>7, <3>8, <3>9,
               <3>10, <3>11, <3>12, <3>13 DEF Step
  <2>4. CASE UNCHANGED vars
    BY <2>4 DEF vars
  <2> QED BY <2>1, <2>2, <2>3, <2>4 DEF Next
<1> QED BY <1>1, <1>2, PTL DEF Spec

\* Initially, and after every step, each variable is in its type.
THEOREM Typing == Spec => []TypeOK
<1>1. TypeOK /\ Assigned => TypeOK
  OBVIOUS
<1> QED BY <1>1, TypingAssigned, PTL

-----------------------------------------------------------------------------
\* What a probe under way has read belongs to the active session, until a
\* Launch or Cancel replaces that session. This is what makes RtspIsCurrent
\* and MediaIsCurrent inductive: it holds for the value about to be stored.
ReadsAreCurrent ==
  \A h \in Handlers :
    ~overlap[h] =>
      /\ pc[h] \in Media => mine[h] = activeSession
      /\ pc[h] \in {"rtsp", "media_setup", "bind"} \cup Capturing
           => setup[h] = activeSession

CacheInv == ReadsAreCurrent /\ RtspIsCurrent /\ MediaIsCurrent

\* The three statements together are preserved by every step.
LEMMA CacheStep ==
  ASSUME TypeOK, CacheInv, [Next]_vars
  PROVE  CacheInv'
<1> USE DEF TypeOK, CacheInv, ReadsAreCurrent, RtspIsCurrent, MediaIsCurrent,
            RtspOutdated, MediaOutdated, clientVars, sunshineVars, localVars,
            PcValues, Answered, Resetting, Capturing, Media, Probing
<1>1. CASE SunshineEnds
  BY <1>1 DEF SunshineEnds
<1>2. ASSUME NEW h \in Handlers, Begin(h) PROVE CacheInv'
  <2>1. CASE LaunchBegins(h) \/ CancelBegins(h)
    BY <2>1 DEF LaunchBegins, CancelBegins, Advance
  <2>2. CASE RtspBegins(h)
    BY <2>2 DEF RtspBegins, Advance
  <2>3. CASE MediaBegins(h)
    BY <2>3 DEF MediaBegins, Advance
  <2> QED BY <1>2, <2>1, <2>2, <2>3 DEF Begin
<1>3. ASSUME NEW h \in Handlers, Step(h) PROVE CacheInv'
  <2>1. ASSUME NEW s \in Sessions, SunshineLaunches(h, s) PROVE CacheInv'
    BY <2>1 DEF SunshineLaunches, Advance
  <2>2. CASE SunshineCancels(h)
    BY <2>2 DEF SunshineCancels, Advance
  <2>3. CASE LaunchStores(h) \/ CancelStores(h)
    <3>1. RtspOutdated' /\ MediaOutdated'
      BY <2>3 DEF LaunchStores, CancelStores, Advance
    <3>2. ASSUME NEW g \in Handlers, pc'[g] \in Probing PROVE overlap'[g]
      <4>1. pc[g] \in Probing
        BY <2>3, <3>2 DEF LaunchStores, CancelStores, Advance
      <4>2. overlap'[g] = (pc[g] \in Probing)
        BY <2>3, Zenon DEF LaunchStores, CancelStores, Replaced
      <4> QED BY <4>1, <4>2
    <3>3. ReadsAreCurrent'
      BY <3>2
    <3> QED BY <3>1, <3>3
  <2>4. CASE DropsRtsp(h)
    BY <2>4 DEF DropsRtsp, Advance
  <2>5. CASE DropsMedia(h)
    BY <2>5 DEF DropsMedia, Returns
  <2>6. CASE RequestFails(h) \/ ProbeFails(h)
    BY <2>6 DEF RequestFails, ProbeFails, Returns
  <2>7. CASE MediaProbesRtsp(h)
    BY <2>7 DEF MediaProbesRtsp, Advance
  <2>8. CASE RtspStores(h)
    <3>1. rtspProbe'.session = setup[h] /\ rtspProbe'.late = overlap[h]
      BY <2>8 DEF RtspStores
    <3>2. ~overlap[h] => setup[h] = activeSession
      BY <2>8 DEF RtspStores, Advance
    <3>3. RtspIsCurrent'
      BY <2>8, <3>1, <3>2 DEF RtspStores
    <3>4. ReadsAreCurrent' /\ MediaIsCurrent'
      BY <2>8 DEF RtspStores, Advance, Returns
    <3> QED BY <3>3, <3>4
  <2>9. CASE MediaReusesRtsp(h)
    <3>1. ~overlap'[h] => ~overlap[h] /\ rtspProbe.session = activeSession
      BY <2>9 DEF MediaReusesRtsp, Reusable
    <3> QED BY <2>9, <3>1 DEF MediaReusesRtsp, Advance
  <2>10. CASE MediaNeedsRtsp(h) \/ MediaAnnounced(h)
    BY <2>10 DEF MediaNeedsRtsp, MediaAnnounced, Advance
  <2>11. CASE MediaStarts(h) \/ MediaPlays(h) \/ MediaSucceeds(h) \/ MediaFails(h)
    <3>1. /\ mediaProbe'.session = mine[h] /\ mediaProbe'.setup = setup[h]
          /\ mediaProbe'.late <=> overlap[h]
      BY <2>11 DEF MediaStarts, MediaPlays, MediaSucceeds, MediaFails,
                   SetMediaProbe
    <3>2. ~overlap[h] => mine[h] = activeSession /\ setup[h] = activeSession
      BY <2>11 DEF MediaStarts, MediaPlays, MediaSucceeds, MediaFails, Advance
    <3>3. UNCHANGED <<activeSession, rtspProbe>>
      BY <2>11 DEF MediaStarts, MediaPlays, MediaSucceeds, MediaFails
    <3>4. MediaIsCurrent'
      BY <3>1, <3>2, <3>3
    <3>5. ReadsAreCurrent' /\ RtspIsCurrent'
      BY <2>11 DEF MediaStarts, MediaPlays, MediaSucceeds, MediaFails,
                   Advance, Returns
    <3> QED BY <3>4, <3>5
  <2> QED BY <1>3, <2>1, <2>2, <2>3, <2>4, <2>5, <2>6, <2>7, <2>8, <2>9,
             <2>10, <2>11 DEF Step
<1>4. CASE UNCHANGED vars
  BY <1>4 DEF vars
<1> QED BY <1>1, <1>2, <1>3, <1>4 DEF Next

LEMMA CachesInvariant == Spec => []CacheInv
<1>1. Init => CacheInv
  BY DEF Init, CacheInv, ReadsAreCurrent, RtspIsCurrent, MediaIsCurrent,
         Media, Capturing
<1>2. TypeOK /\ CacheInv /\ [Next]_vars => CacheInv'
  BY CacheStep
<1> QED BY <1>1, <1>2, Typing, PTL DEF Spec

\* The cached RTSP setup is that of the active session, however Launch, Cancel
\* and the probes interleave (see RtspIsCurrent for the two exceptions).
THEOREM RtspSafe == Spec => []RtspIsCurrent
<1>1. CacheInv => RtspIsCurrent
  BY DEF CacheInv
<1> QED BY <1>1, CachesInvariant, PTL

\* The same for the media diagnostic and the setup it used.
THEOREM MediaSafe == Spec => []MediaIsCurrent
<1>1. CacheInv => MediaIsCurrent
  BY DEF CacheInv
<1> QED BY <1>1, CachesInvariant, PTL

\* A media diagnostic never mixes two launches unless one of them happened
\* while it was preparing.
THEOREM OneSessionSafe == Spec => []OneSessionPerProbe
<1>1. CacheInv => OneSessionPerProbe
  BY DEF CacheInv, ReadsAreCurrent, OneSessionPerProbe, Media
<1> QED BY <1>1, CachesInvariant, PTL

-----------------------------------------------------------------------------
\* A diagnostic displayed as running is being run: the handler that leaves a
\* phase stores the next one, or the verdict, in the same step.
THEOREM RunnerSafe == Spec => []ProbeHasRunner
<1>1. Init => ProbeHasRunner
  BY DEF Init, ProbeHasRunner
<1>2. TypeOK /\ ProbeHasRunner /\ [Next]_vars => ProbeHasRunner'
  <2> SUFFICES ASSUME TypeOK, ProbeHasRunner, [Next]_vars
               PROVE  ProbeHasRunner'
    OBVIOUS
  <2> USE DEF TypeOK, ProbeHasRunner, clientVars, sunshineVars, localVars,
              PcValues, Answered, Resetting, Capturing, Media, Probing
  <2>1. CASE SunshineEnds
    BY <2>1 DEF SunshineEnds
  <2>2. ASSUME NEW h \in Handlers, Begin(h) PROVE ProbeHasRunner'
    BY <2>2 DEF Begin, LaunchBegins, CancelBegins, RtspBegins, MediaBegins,
                Advance
  <2>3. ASSUME NEW h \in Handlers, Step(h) PROVE ProbeHasRunner'
    <3>1. ASSUME NEW s \in Sessions, SunshineLaunches(h, s)
          PROVE  ProbeHasRunner'
      BY <3>1 DEF SunshineLaunches, Advance
    <3>2. CASE SunshineCancels(h) \/ LaunchStores(h) \/ CancelStores(h)
               \/ DropsRtsp(h) \/ RequestFails(h)
      BY <3>2 DEF SunshineCancels, LaunchStores, CancelStores, DropsRtsp,
                  RequestFails, Advance, Returns
    <3>3. CASE DropsMedia(h)
      BY <3>3 DEF DropsMedia
    <3>4. CASE MediaProbesRtsp(h) \/ MediaReusesRtsp(h) \/ MediaNeedsRtsp(h)
               \/ RtspStores(h) \/ ProbeFails(h)
      BY <3>4 DEF MediaProbesRtsp, MediaReusesRtsp, MediaNeedsRtsp,
                  RtspStores, ProbeFails, Advance, Returns
    <3>5. CASE MediaStarts(h)
      BY <3>5 DEF MediaStarts, SetMediaProbe, Advance
    <3>6. CASE MediaAnnounced(h)
      BY <3>6 DEF MediaAnnounced, Advance
    <3>7. CASE MediaPlays(h)
      BY <3>7 DEF MediaPlays, SetMediaProbe, Advance
    <3>8. CASE MediaSucceeds(h) \/ MediaFails(h)
      BY <3>8 DEF MediaSucceeds, MediaFails, SetMediaProbe
    <3> QED BY <2>3, <3>1, <3>2, <3>3, <3>4, <3>5, <3>6, <3>7, <3>8 DEF Step
  <2>4. CASE UNCHANGED vars
    BY <2>4 DEF vars
  <2> QED BY <2>1, <2>2, <2>3, <2>4 DEF Next
<1> QED BY <1>1, <1>2, Typing, PTL DEF Spec

-----------------------------------------------------------------------------
\* While nothing has gone astray at most one answer of Sunshine is on its way,
\* and what it will make the client store is what Sunshine runs.
AgreementInv ==
  ~diverged =>
    /\ (\A h \in Handlers : pc[h] \notin Answered) => activeSession = sunshine
    /\ \A h \in Handlers :
         /\ pc[h] = "launched" => mine[h] = sunshine
         /\ pc[h] = "cancelled" => sunshine = NoSession
         /\ pc[h] \in Answered => ~Reordered(h)

\* The client and Sunshine agree on the running session once every answer has
\* been stored (see AgreesWithSunshine for what may come in between).
THEOREM AgreementSafe == Spec => []AgreesWithSunshine
<1>1. Init => AgreementInv
  BY DEF Init, AgreementInv, Answered
<1>2. TypeOK /\ AgreementInv /\ [Next]_vars => AgreementInv'
  <2> SUFFICES ASSUME TypeOK, AgreementInv, [Next]_vars
               PROVE  AgreementInv'
    OBVIOUS
  <2> USE DEF TypeOK, AgreementInv, Reordered, Answered, clientVars,
              sunshineVars, localVars
  <2>1. CASE SunshineEnds
    BY <2>1 DEF SunshineEnds
  <2>2. ASSUME NEW h \in Handlers, Begin(h) PROVE AgreementInv'
    <3>1. CASE LaunchBegins(h) \/ CancelBegins(h) \/ RtspBegins(h)
      BY <3>1 DEF LaunchBegins, CancelBegins, RtspBegins, Advance
    <3>2. CASE MediaBegins(h)
      BY <3>2 DEF MediaBegins, Advance
    <3> QED BY <2>2, <3>1, <3>2 DEF Begin
  <2>3. ASSUME NEW h \in Handlers, Step(h) PROVE AgreementInv'
    <3>1. ASSUME NEW s \in Sessions, SunshineLaunches(h, s)
          PROVE  AgreementInv'
      BY <3>1 DEF SunshineLaunches, Advance
    <3>2. CASE SunshineCancels(h)
      BY <3>2 DEF SunshineCancels, Advance
    <3>3. CASE LaunchStores(h)
      BY <3>3 DEF LaunchStores, Advance
    <3>4. CASE CancelStores(h)
      BY <3>4 DEF CancelStores, Advance
    <3>5. CASE RequestFails(h)
      BY <3>5 DEF RequestFails, Returns
    <3>6. CASE DropsRtsp(h) \/ DropsMedia(h)
      BY <3>6 DEF DropsRtsp, DropsMedia, Advance, Returns
    <3>7. CASE MediaProbesRtsp(h) \/ MediaReusesRtsp(h) \/ MediaNeedsRtsp(h)
      BY <3>7 DEF MediaProbesRtsp, MediaReusesRtsp, MediaNeedsRtsp, Advance
    <3>8. CASE RtspStores(h)
      BY <3>8 DEF RtspStores, Advance, Returns
    <3>9. CASE MediaStarts(h) \/ MediaAnnounced(h) \/ MediaPlays(h)
      BY <3>9 DEF MediaStarts, MediaAnnounced, MediaPlays, Advance
    <3>10. CASE MediaSucceeds(h) \/ MediaFails(h) \/ ProbeFails(h)
      BY <3>10 DEF MediaSucceeds, MediaFails, ProbeFails, Returns, Capturing
    <3> QED BY <2>3, <3>1, <3>2, <3>3, <3>4, <3>5, <3>6, <3>7, <3>8, <3>9,
               <3>10 DEF Step
  <2>4. CASE UNCHANGED vars
    BY <2>4 DEF vars
  <2> QED BY <2>1, <2>2, <2>3, <2>4 DEF Next
<1>3. AgreementInv => AgreesWithSunshine
  BY DEF AgreementInv, AgreesWithSunshine
<1> QED BY <1>1, <1>2, <1>3, Typing, PTL DEF Spec

-----------------------------------------------------------------------------
\* Each step of the code is one of the promise, seen through the views, or
\* leaves the views alone.
LEMMA SessionStep ==
  ASSUME TypeOK, Assigned, CacheInv, [Next]_vars
  PROVE  [S!SessionNext]_(S!sessionVars)
<1> DEFINE Kept == [S!SessionNext]_(S!sessionVars)
<1> USE GameStreamAssumption DEF TypeOK, clientVars, sunshineVars, localVars
<1>0. ASSUME UNCHANGED <<activeSession, RtspView, MediaView>> PROVE Kept
  BY <1>0 DEF S!sessionVars
<1>1. CASE SunshineEnds
  BY <1>1, <1>0 DEF SunshineEnds, RtspView, RtspOutdated, MediaView, MediaOutdated
<1>2. ASSUME NEW h \in Handlers, Begin(h) PROVE Kept
  <2>1. UNCHANGED clientVars /\ UNCHANGED <<RtspOutdated, MediaOutdated>>
    BY <1>2 DEF Begin, LaunchBegins, CancelBegins, RtspBegins, MediaBegins,
                Advance, RtspOutdated, MediaOutdated, Resetting
  <2> QED BY <2>1, <1>0 DEF RtspView, MediaView
<1>3. ASSUME NEW h \in Handlers, Step(h) PROVE Kept
  <2>1. CASE (\E s \in Sessions : SunshineLaunches(h, s)) \/ SunshineCancels(h)
             \/ RequestFails(h) \/ MediaProbesRtsp(h) \/ MediaReusesRtsp(h)
             \/ MediaNeedsRtsp(h) \/ MediaAnnounced(h) \/ ProbeFails(h)
    <3>1. UNCHANGED clientVars /\ UNCHANGED <<RtspOutdated, MediaOutdated>>
      BY <2>1 DEF SunshineLaunches, SunshineCancels, RequestFails,
                  MediaProbesRtsp, MediaReusesRtsp, MediaNeedsRtsp,
                  MediaAnnounced, ProbeFails, Advance, Returns, Answered,
                  RtspOutdated, MediaOutdated, Resetting
    <3> QED BY <3>1, <1>0 DEF RtspView, MediaView
  <2>2. CASE LaunchStores(h) \/ CancelStores(h)
    <3>1. RtspOutdated' /\ MediaOutdated'
      BY <2>2 DEF LaunchStores, CancelStores, Advance, RtspOutdated,
                  MediaOutdated, Resetting
    <3>2. RtspView' = NoProbe /\ MediaView' = NoProbe
      BY <3>1 DEF RtspView, MediaView
    <3>3. activeSession' \in Sessions \cup {NoSession}
      BY <2>2 DEF LaunchStores, CancelStores
    <3>4. S!Replace(activeSession')
      BY <3>2 DEF S!Replace
    <3> QED BY <3>3, <3>4 DEF S!SessionNext
  <2>3. CASE DropsRtsp(h)
    <3>1. RtspView = NoProbe /\ RtspView' = NoProbe
      BY <2>3 DEF DropsRtsp, Advance, RtspView, RtspOutdated
    <3>2. UNCHANGED <<mediaProbe, activeSession, MediaOutdated>>
      BY <2>3 DEF DropsRtsp, Advance, MediaOutdated, Resetting
    <3> QED BY <3>1, <3>2, <1>0 DEF MediaView
  <2>4. CASE DropsMedia(h)
    <3>1. MediaView = NoProbe /\ MediaView' = NoProbe
      BY <2>4 DEF DropsMedia, MediaView, MediaOutdated, Resetting
    <3>2. UNCHANGED <<rtspProbe, activeSession, RtspOutdated>>
      BY <2>4 DEF DropsMedia, Returns, RtspOutdated
    <3> QED BY <3>1, <3>2, <1>0 DEF RtspView
  <2>5. CASE RtspStores(h)
    <3>1. UNCHANGED <<activeSession, mediaProbe, RtspOutdated, MediaOutdated>>
      BY <2>5 DEF RtspStores, Returns, Advance, RtspOutdated, MediaOutdated,
                  Resetting
    <3>2. UNCHANGED <<activeSession, MediaView>>
      BY <3>1 DEF MediaView
    <3>3. CASE RtspView' = NoProbe
      <4>1. S!Forget
        BY <3>2, <3>3 DEF S!Forget
      <4> QED BY <4>1 DEF S!SessionNext
    <3>4. CASE RtspView' # NoProbe
      <4>1. rtspProbe'.session = setup[h] /\ (rtspProbe'.late <=> overlap[h])
        BY <2>5 DEF RtspStores
      <4>2. RtspView' = setup[h] /\ ~overlap[h]
        BY <3>4, <4>1 DEF RtspView
      <4>3. setup[h] = activeSession /\ setup[h] \in Sessions
        BY <2>5, <4>2 DEF RtspStores, Advance, CacheInv, ReadsAreCurrent, Assigned
      <4>4. S!CacheRtsp
        BY <3>2, <4>2, <4>3 DEF S!CacheRtsp
      <4> QED BY <4>4 DEF S!SessionNext
    <3> QED BY <3>3, <3>4
  <2>6. CASE MediaStarts(h) \/ MediaPlays(h) \/ MediaSucceeds(h) \/ MediaFails(h)
    <3>1. UNCHANGED <<activeSession, rtspProbe, RtspOutdated, MediaOutdated>>
      BY <2>6 DEF MediaStarts, MediaPlays, MediaSucceeds, MediaFails, Returns,
                  Advance, RtspOutdated, MediaOutdated, Resetting, Capturing
    <3>2. UNCHANGED <<activeSession, RtspView>>
      BY <3>1 DEF RtspView
    <3>3. CASE MediaView' = NoProbe
      <4>1. S!Forget
        BY <3>2, <3>3 DEF S!Forget
      <4> QED BY <4>1 DEF S!SessionNext
    <3>4. CASE MediaView' # NoProbe
      <4>1. PICK st \in MediaStates :
              mediaProbe' = [state |-> st, session |-> mine[h],
                             setup |-> setup[h], late |-> overlap[h]]
        BY <2>6 DEF MediaStarts, MediaPlays, MediaSucceeds, MediaFails,
                    SetMediaProbe, MediaStates
      <4>2. ~overlap[h] /\ MediaView' = [state |-> st, session |-> mine[h],
                                         setup |-> setup[h]]
        BY <3>4, <4>1 DEF MediaView
      <4>3. mine[h] = activeSession /\ setup[h] = activeSession
            /\ setup[h] \in Sessions
        BY <2>6, <4>2 DEF MediaStarts, MediaPlays, MediaSucceeds, MediaFails,
                          Advance, CacheInv, ReadsAreCurrent, Assigned, Media,
                          Capturing
      <4>4. S!CacheMedia(st)
        BY <3>2, <4>2, <4>3 DEF S!CacheMedia
      <4> QED BY <4>4 DEF S!SessionNext
    <3> QED BY <3>3, <3>4
  <2> QED BY <1>3, <2>1, <2>2, <2>3, <2>4, <2>5, <2>6 DEF Step
<1>4. CASE UNCHANGED vars
  BY <1>4, <1>0 DEF vars, RtspView, RtspOutdated, MediaView, MediaOutdated
<1> QED BY <1>1, <1>2, <1>3, <1>4 DEF Next

\* GameStream implements SessionPromise: however Launch, Cancel and the probes
\* interleave, a reader sees one session replaced together with its caches.
THEOREM SessionPromiseSafe == Spec => KeepsSessionPromise
<1>1. Init => S!SessionInit
  BY DEF Init, S!SessionInit, RtspView, MediaView
<1> QED BY <1>1, SessionStep, TypingAssigned, CachesInvariant, PTL
        DEF Spec, KeepsSessionPromise, S!SessionSafety

\* What a reader may conclude from the promise alone: what it sees is of the
\* session there is now, and without a session there is nothing to see.
SeenIsCurrent ==
  /\ RtspView \in {NoProbe, activeSession}
  /\ MediaView # NoProbe =>
       MediaView.session = activeSession /\ MediaView.setup = activeSession
  /\ activeSession = NoSession => RtspView = NoProbe /\ MediaView = NoProbe

\* SessionPromise is strong enough for that, whoever implements it.
THEOREM PromiseShowsCurrent == S!SessionSafety => []SeenIsCurrent
<1>1. S!SessionInit => SeenIsCurrent
  BY DEF S!SessionInit, SeenIsCurrent
<1>2. SeenIsCurrent /\ [S!SessionNext]_(S!sessionVars) => SeenIsCurrent'
  <2> SUFFICES ASSUME SeenIsCurrent, [S!SessionNext]_(S!sessionVars)
               PROVE  SeenIsCurrent'
    OBVIOUS
  <2> USE DEF SeenIsCurrent
  <2>1. CASE \E s \in Sessions \cup {NoSession} : S!Replace(s)
    BY <2>1 DEF S!Replace
  <2>2. CASE S!CacheRtsp
    BY <2>2 DEF S!CacheRtsp
  <2>3. CASE \E s \in MediaStates : S!CacheMedia(s)
    BY <2>3 DEF S!CacheMedia
  <2>4. CASE S!Forget
    BY <2>4 DEF S!Forget
  <2>5. CASE UNCHANGED S!sessionVars
    BY <2>5 DEF S!sessionVars
  <2> QED BY <2>1, <2>2, <2>3, <2>4, <2>5 DEF S!SessionNext
<1> QED BY <1>1, <1>2, PTL DEF S!SessionSafety

-----------------------------------------------------------------------------
\* How far a handler has come, at most seven requests and sections long. The
\* setup of ProbeRTSP counts as in ProbeMedia, which may go on after it.
Progress(label) ==
  CASE label \in {"launch", "cancel", "media"} -> 1
    [] label \in Answered \cup {"media_rtsp"} -> 2
    [] label \in {"drop_rtsp", "rtsp", "media_setup"} -> 3
    [] label \in {"drop_media", "bind"} -> 4
    [] label = "announce" -> 5
    [] label = "play" -> 6
    [] label = "capture" -> 7
    [] OTHER -> 0

\* Every step of a handler under way ends it or takes it further, and nobody
\* else moves it: none of the four functions retries or goes back, so each
\* returns within seven steps. (That it takes them is the fairness of Spec.)
HandlersAdvance ==
  [][\A h \in Handlers :
       /\ Step(h) => pc'[h] # pc[h]
       /\ pc'[h] # pc[h] /\ pc[h] # "idle" =>
            Step(h) /\ (pc'[h] = "idle" \/ Progress(pc'[h]) > Progress(pc[h]))]_vars

\* Launch, Cancel, ProbeRTSP and ProbeMedia make progress with every step.
THEOREM HandlersReturn == Spec => HandlersAdvance
<1> DEFINE Advanced(h) ==
      pc'[h] = "idle" \/ Progress(pc'[h]) > Progress(pc[h])
    Moves ==
      \A h \in Handlers :
        /\ Step(h) => pc'[h] # pc[h]
        /\ pc'[h] # pc[h] /\ pc[h] # "idle" => Step(h) /\ Advanced(h)
<1>1. ASSUME TypeOK, NEW h \in Handlers, Step(h)
      PROVE  /\ pc[h] # "idle" /\ pc'[h] # pc[h] /\ Advanced(h)
             /\ \A g \in Handlers \ {h} : pc'[g] = pc[g]
  <2> USE <1>1 DEF TypeOK, Progress, PcValues, Answered, Resetting, Capturing,
                   Media, Probing
  <2>1. CASE (\E s \in Sessions : SunshineLaunches(h, s)) \/ SunshineCancels(h)
             \/ LaunchStores(h) \/ CancelStores(h) \/ DropsRtsp(h)
    BY <2>1 DEF SunshineLaunches, SunshineCancels, LaunchStores, CancelStores,
                DropsRtsp, Advance
  <2>2. CASE MediaProbesRtsp(h) \/ MediaReusesRtsp(h) \/ MediaNeedsRtsp(h)
             \/ MediaStarts(h) \/ MediaAnnounced(h) \/ MediaPlays(h)
    BY <2>2 DEF MediaProbesRtsp, MediaReusesRtsp, MediaNeedsRtsp, MediaStarts,
                MediaAnnounced, MediaPlays, Advance
  <2>3. CASE DropsMedia(h) \/ RequestFails(h) \/ MediaSucceeds(h)
             \/ MediaFails(h) \/ ProbeFails(h) \/ RtspStores(h)
    BY <2>3 DEF DropsMedia, RequestFails, MediaSucceeds, MediaFails, ProbeFails,
                RtspStores, Returns, Advance
  <2> QED BY <2>1, <2>2, <2>3 DEF Step
<1>2. ASSUME TypeOK, NEW h \in Handlers, Begin(h)
      PROVE  pc[h] = "idle" /\ \A g \in Handlers \ {h} : pc'[g] = pc[g]
  BY <1>2 DEF TypeOK, Begin, LaunchBegins, CancelBegins, RtspBegins,
              MediaBegins, Advance
<1>3. TypeOK /\ [Next]_vars => [Moves]_vars
  <2> SUFFICES ASSUME TypeOK, [Next]_vars, vars' # vars PROVE Moves
    OBVIOUS
  <2>1. CASE SunshineEnds
    <3>1. UNCHANGED pc
      BY <2>1 DEF SunshineEnds
    <3> QED BY <3>1, <1>1
  <2>2. CASE \E h \in Handlers : Begin(h) \/ Step(h)
    BY <2>2, <1>1, <1>2
  <2> QED BY <2>1, <2>2 DEF Next
<1>4. [][Moves]_vars => HandlersAdvance
  BY DEF HandlersAdvance
<1> QED BY <1>3, <1>4, Typing, PTL DEF Spec

-----------------------------------------------------------------------------
(* The capture of one ProbeMedia (MediaCapture).                           *)

\* The type invariant without its flags, which are for Zenon.
CaptureOthers ==
  /\ main \in {"announce", "announcing", "pause", "play", "playing", "wait",
               "tally", "leave", "close", "done"}
  /\ state \in {"starting", "receiving", "packets_received", "error"}
  /\ ping \in [Kinds -> {"off", "send", "wait", "ended"}]
  /\ collector \in [Kinds -> {"off", "read", "reported"}]
  /\ arrived \in [Kinds -> 0..MaxPackets]
  /\ packets \in [Kinds -> Nat] /\ told \in [Kinds -> Nat]
  /\ \A k \in Kinds : told[k] <= packets[k] /\ packets[k] <= arrived[k]
  /\ heard \subseteq Kinds /\ deadlines \subseteq Kinds

\* Before both sockets are read nothing has been counted, and what is told is
\* what was counted when both collectors had reported.
CountsAgree ==
  /\ main \in {"announce", "announcing", "pause", "play", "playing"} =>
       /\ collector = Each("off")
       /\ packets = Each(0) /\ told = Each(0)
  /\ main = "wait" => \A k \in Kinds : collector[k] # "off"
  /\ main = "tally" => collector = Each("reported") /\ told = packets

\* The pings start with the answer to ANNOUNCE, and until the results are in
\* only the end of the request stops them.
PingsRun ==
  /\ main \in {"announce", "announcing"} => ~cancelled /\ ping = Each("off")
  /\ main \in {"pause", "play", "playing", "wait"} =>
       /\ ~cancelled
       /\ \A k \in Kinds : ping[k] # "off" /\ (ping[k] = "ended" => ctxDone)

\* What the handler has stored last.
StateTold ==
  /\ main \in {"announce", "announcing", "pause", "play", "playing"} =>
       state = "starting"
  /\ main \in {"wait", "tally"} => state = "receiving"

CaptureInv == CountsAgree /\ StateTold /\ VerdictMatchesTraffic /\ PingsRun

\* Type correctness of MediaCapture, for any number of datagrams: nothing is
\* counted that did not arrive, and nothing told that was not counted.
THEOREM CaptureTypeCorrect == CaptureSpec => []CaptureTypeOK
<1> DEFINE Flags == ctxDone \in BOOLEAN /\ cancelled \in BOOLEAN
                    /\ expired \in BOOLEAN
<1>1. CaptureInit => Flags
  BY Zenon DEF CaptureInit
<1>2. Flags /\ [CaptureNext]_captureVars => Flags'
  BY Zenon DEF CaptureNext, HandlerStep, captureVars, pingVars, readVars,
     Connects, Announced, PauseOver, CaptureFails, Plays, Waited, Verdict,
     Leaves, Closes, RequestEnds, Pings, Ticks, PingStops, Arrives,
     DeadlinePasses, Collects, Reports
<1>3. CaptureInit => CaptureOthers
  BY MediaCaptureAssumption DEF CaptureInit, CaptureOthers, Each, Kinds
<1>4. CaptureOthers /\ [CaptureNext]_captureVars => CaptureOthers'
  <2> SUFFICES ASSUME CaptureOthers, [CaptureNext]_captureVars
               PROVE  CaptureOthers'
    OBVIOUS
  <2> USE MediaCaptureAssumption
      DEF CaptureOthers, pingVars, readVars, Goes, Each
  <2>1. CASE HandlerStep
    <3>1. CASE Connects
      BY <3>1 DEF Connects
    <3>2. CASE Announced
      BY <3>2 DEF Announced
    <3>3. CASE PauseOver
      BY <3>3 DEF PauseOver
    <3>4. CASE CaptureFails
      BY <3>4 DEF CaptureFails
    <3>5. CASE Plays
      BY <3>5 DEF Plays
    <3>6. CASE Waited
      BY <3>6 DEF Waited
    <3>7. CASE Verdict
      BY <3>7 DEF Verdict
    <3>8. CASE Leaves
      BY <3>8 DEF Leaves
    <3>9. CASE Closes
      BY <3>9 DEF Closes
    <3> QED
      BY <2>1, <3>1, <3>2, <3>3, <3>4, <3>5, <3>6, <3>7, <3>8, <3>9
         DEF HandlerStep
  <2>2. CASE RequestEnds
    BY <2>2 DEF RequestEnds
  <2>3. CASE DeadlinePasses
    BY <2>3 DEF DeadlinePasses
  <2>4. ASSUME NEW k \in Kinds, Pings(k) PROVE CaptureOthers'
    BY <2>4 DEF Pings
  <2>5. ASSUME NEW k \in Kinds, Ticks(k) PROVE CaptureOthers'
    BY <2>5 DEF Ticks
  <2>6. ASSUME NEW k \in Kinds, PingStops(k) PROVE CaptureOthers'
    BY <2>6 DEF PingStops
  <2>7. ASSUME NEW k \in Kinds, Arrives(k) PROVE CaptureOthers'
    BY <2>7 DEF Arrives
  <2>8. ASSUME NEW k \in Kinds, Collects(k) PROVE CaptureOthers'
    BY <2>8 DEF Collects
  <2>9. ASSUME NEW k \in Kinds, Reports(k) PROVE CaptureOthers'
    BY <2>9 DEF Reports
  <2>10. CASE UNCHANGED captureVars
    BY <2>10 DEF captureVars
  <2> QED
    BY <2>1, <2>2, <2>3, <2>4, <2>5, <2>6, <2>7, <2>8, <2>9, <2>10
       DEF CaptureNext
<1>5. CaptureTypeOK <=> Flags /\ CaptureOthers
  BY DEF CaptureTypeOK, CaptureOthers
<1> QED
  BY <1>1, <1>2, <1>3, <1>4, <1>5, PTL DEF CaptureSpec

\* CaptureInv is inductive: the handler counts after both collectors, and no
\* collector is left when it goes on.
LEMMA CaptureInvariance == CaptureSpec => []CaptureInv
<1>1. CaptureInit => CaptureInv
  BY DEF CaptureInit, CaptureInv, CountsAgree, StateTold,
         VerdictMatchesTraffic, PingsRun
<1>2. CaptureTypeOK /\ CaptureInv /\ [CaptureNext]_captureVars => CaptureInv'
  <2> SUFFICES ASSUME CaptureTypeOK, CaptureInv, [CaptureNext]_captureVars
               PROVE  CaptureInv'
    OBVIOUS
  <2> USE DEF CaptureTypeOK, CaptureInv, CountsAgree, StateTold,
              VerdictMatchesTraffic, PingsRun, pingVars, readVars, Goes, Each
  <2>1. CASE HandlerStep
    <3>1. CASE Connects
      BY <3>1 DEF Connects
    <3>2. CASE Announced
      BY <3>2 DEF Announced
    <3>3. CASE PauseOver
      BY <3>3 DEF PauseOver
    <3>4. CASE CaptureFails
      BY <3>4 DEF CaptureFails, Kinds
    <3>5. CASE Plays
      BY <3>5 DEF Plays
    <3>6. CASE Waited
      BY <3>6 DEF Waited
    <3>7. CASE Verdict
      BY <3>7 DEF Verdict, Kinds
    <3>8. CASE Leaves
      BY <3>8 DEF Leaves
    <3>9. CASE Closes
      BY <3>9 DEF Closes
    <3> QED
      BY <2>1, <3>1, <3>2, <3>3, <3>4, <3>5, <3>6, <3>7, <3>8, <3>9
         DEF HandlerStep
  <2>2. CASE RequestEnds
    BY <2>2 DEF RequestEnds
  <2>3. CASE DeadlinePasses
    BY <2>3 DEF DeadlinePasses
  <2>4. ASSUME NEW k \in Kinds, Pings(k) PROVE CaptureInv'
    BY <2>4 DEF Pings
  <2>5. ASSUME NEW k \in Kinds, Ticks(k) PROVE CaptureInv'
    BY <2>5 DEF Ticks
  <2>6. ASSUME NEW k \in Kinds, PingStops(k) PROVE CaptureInv'
    BY <2>6 DEF PingStops
  <2>7. ASSUME NEW k \in Kinds, Arrives(k) PROVE CaptureInv'
    BY <2>7 DEF Arrives
  <2>8. ASSUME NEW k \in Kinds, Collects(k) PROVE CaptureInv'
    BY <2>8 DEF Collects
  <2>9. ASSUME NEW k \in Kinds, Reports(k) PROVE CaptureInv'
    BY <2>9 DEF Reports
  <2>10. CASE UNCHANGED captureVars
    BY <2>10 DEF captureVars
  <2> QED
    BY <2>1, <2>2, <2>3, <2>4, <2>5, <2>6, <2>7, <2>8, <2>9, <2>10
       DEF CaptureNext
<1> QED
  BY <1>1, <1>2, CaptureTypeCorrect, PTL DEF CaptureSpec

\* However many datagrams arrive, and whoever reads how fast, the verdict of
\* ProbeMedia is about all that was counted, and nobody counts after it.
THEOREM VerdictIsSound == CaptureSpec => []VerdictMatchesTraffic
BY CaptureInvariance, PTL DEF CaptureInv

\* Sunshine is pinged for both kinds until the last collector is done, unless
\* the request was given up.
THEOREM PingsCoverTheCapture == CaptureSpec => []PingsCoverCapture
<1>1. CaptureTypeOK /\ CaptureInv => PingsCoverCapture
  BY DEF CaptureTypeOK, CaptureInv, PingsRun, PingsCoverCapture
<1> QED
  BY <1>1, CaptureTypeCorrect, CaptureInvariance, PTL
-----------------------------------------------------------------------------
(* MediaCapture opens up three labels of a handler of GameStream: what     *)
(* follows shows that GameStream leaves out of the capture nothing that    *)
(* the session, the caches or the page could tell.                         *)

\* The label of the handler while its capture is at main.
Stage ==
  IF main \in {"announce", "announcing"} THEN "announce"
  ELSE IF main \in {"pause", "play", "playing"} THEN "play"
  ELSE IF main \in {"wait", "tally"} THEN "capture"
  ELSE "idle"

\* Handler h makes the step that the capture makes: with each new state it
\* stores the probe, and it returns when the capture has its verdict.
Carries(h) ==
  IF Stage' = Stage
  THEN UNCHANGED vars
  ELSE /\ IF Stage' = "idle"
          THEN Returns(h)
          ELSE pc' = [pc EXCEPT ![h] = Stage'] /\ UNCHANGED localVars
       /\ IF state' = state
          THEN UNCHANGED mediaProbe
          ELSE SetMediaProbe(h, state')
       /\ UNCHANGED <<activeSession, rtspProbe, sunshineVars, diverged>>

MediaStep(h) ==
  MediaAnnounced(h) \/ MediaPlays(h) \/ MediaSucceeds(h) \/ MediaFails(h)

\* A step of the capture inside handler h (a ping, a datagram, a deadline, a
\* request, the verdict or what is deferred) is a step of GameStream's media
\* actions or changes nothing there: the probe goes from "starting" to
\* "receiving" to its verdict, is stored before the handler returns, and is
\* not touched afterwards, although goroutines may still run.
THEOREM CaptureIsMediaStep ==
  ASSUME NEW h \in Handlers, CaptureTypeOK, CaptureInv,
         Stage # "idle" => pc[h] = Stage,
         [CaptureNext]_captureVars, Carries(h)
  PROVE  [MediaStep(h)]_vars
<1> USE DEF Stage, Goes, clientVars
<1>1. CASE Stage' = Stage
  BY <1>1 DEF Carries
<1>2. CASE Stage' # Stage
  <2>1. main' # main
    BY <1>2
  <2>2. CASE Announced
    <3>1. Stage = "announce" /\ Stage' = "play" /\ state' = state
      BY <2>2 DEF Announced
    <3>2. MediaAnnounced(h)
      BY <3>1, <1>2 DEF Carries, MediaAnnounced, Advance
    <3> QED BY <3>2 DEF MediaStep
  <2>3. CASE Plays
    <3>1. Stage = "play" /\ Stage' = "capture" /\ state' = "receiving"
      BY <2>3 DEF Plays
    <3>2. state' # state
      BY <2>3, <3>1 DEF Plays, CaptureInv, StateTold
    <3>3. MediaPlays(h)
      BY <3>1, <3>2, <1>2 DEF Carries, MediaPlays, Advance
    <3> QED BY <3>3 DEF MediaStep
  <2>4. CASE CaptureFails
    <3>1. Stage \in Capturing /\ Stage' = "idle" /\ state' = "error"
      BY <2>4 DEF CaptureFails, Capturing
    <3>2. state' # state
      BY <2>4, <3>1 DEF CaptureFails, CaptureInv, StateTold
    <3>3. MediaFails(h)
      BY <3>1, <3>2, <1>2 DEF Carries, MediaFails, Capturing
    <3> QED BY <3>3 DEF MediaStep
  <2>5. CASE Verdict
    <3>1. Stage = "capture" /\ Stage' = "idle"
      BY <2>5 DEF Verdict
    <3>2. state' \in {"error", "packets_received"} /\ state = "receiving"
      BY <2>5 DEF Verdict, CaptureInv, StateTold
    <3>3. CASE state' = "error"
      <4>1. MediaFails(h)
        BY <3>1, <3>2, <3>3, <1>2 DEF Carries, MediaFails, Capturing
      <4> QED BY <4>1 DEF MediaStep
    <3>4. CASE state' = "packets_received"
      <4>1. MediaSucceeds(h)
        BY <3>1, <3>2, <3>4, <1>2 DEF Carries, MediaSucceeds
      <4> QED BY <4>1 DEF MediaStep
    <3> QED BY <3>2, <3>3, <3>4
  <2>6. CASE Connects \/ PauseOver \/ Waited \/ Leaves \/ Closes
    BY <2>6, <1>2 DEF Connects, PauseOver, Waited, Leaves, Closes
  <2>7. HandlerStep
    BY <2>1 DEF CaptureNext, captureVars, RequestEnds, DeadlinePasses, Pings,
                Ticks, PingStops, Arrives, Collects, Reports
  <2> QED
    BY <2>2, <2>3, <2>4, <2>5, <2>6, <2>7 DEF HandlerStep
<1> QED
  BY <1>1, <1>2
=============================================================================
