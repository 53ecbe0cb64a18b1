--------------------------- MODULE SessionPromise ---------------------------
(***************************************************************************)
(* What the client promises about the GameStream session to whoever reads  *)
(* it: a session and what is cached about it are one thing. A launch or a  *)
(* cancel replaces all of it at once; what is cached later is about the    *)
(* session of that moment; nothing of an earlier session comes back. There *)
(* are no mutexes, handlers or requests here; GameStream implements it.    *)
(***************************************************************************)
CONSTANTS
  Sessions,     \* the sessions Sunshine can grant
  MediaStates,  \* MediaProbe.State
  NoSession,    \* there is no session
  NoProbe       \* nothing is cached

VARIABLES
  session,  \* the session
  rtsp,     \* the session the RTSP setup was made for
  media     \* the media diagnostic

sessionVars == <<session, rtsp, media>>

SessionInit == session = NoSession /\ rtsp = NoProbe /\ media = NoProbe

\* Launch or Cancel.
Replace(s) == session' = s /\ rtsp' = NoProbe /\ media' = NoProbe

CacheRtsp ==
  /\ session # NoSession
  /\ rtsp' = session
  /\ UNCHANGED <<session, media>>

CacheMedia(state) ==
  /\ session # NoSession
  /\ media' = [state |-> state, session |-> session, setup |-> session]
  /\ UNCHANGED <<session, rtsp>>

\* A probe of an earlier session ends: what it leaves is worth nothing.
Forget ==
  /\ \/ rtsp' = NoProbe /\ UNCHANGED media
     \/ media' = NoProbe /\ UNCHANGED rtsp
  /\ UNCHANGED session

SessionNext ==
  \/ \E s \in Sessions \cup {NoSession} : Replace(s)
  \/ CacheRtsp
  \/ \E state \in MediaStates : CacheMedia(state)
  \/ Forget

SessionSafety == SessionInit /\ [][SessionNext]_sessionVars
=============================================================================
