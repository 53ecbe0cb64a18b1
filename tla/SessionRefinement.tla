------------------------- MODULE SessionRefinement --------------------------
(***************************************************************************)
(* GameStream implements SessionPromise: with what is outdated left out of *)
(* the view, the three steps in which Launch and Cancel replace the        *)
(* session and drop the caches look like one, and the probes between them  *)
(* never show anything of another session.                                 *)
(***************************************************************************)
EXTENDS GameStream

\* The cached setup, unless Launch or Cancel has yet to drop it, or its probe
\* was overtaken by one of them.
RtspView ==
  IF rtspProbe = NoProbe \/ RtspOutdated THEN NoProbe
  ELSE IF rtspProbe.late THEN NoProbe ELSE rtspProbe.session

\* The media diagnostic likewise.
MediaView ==
  IF mediaProbe = NoProbe \/ MediaOutdated THEN NoProbe
  ELSE IF mediaProbe.late THEN NoProbe
  ELSE [state |-> mediaProbe.state, session |-> mediaProbe.session,
        setup |-> mediaProbe.setup]

S == INSTANCE SessionPromise
       WITH session <- activeSession, rtsp <- RtspView, media <- MediaView

\* Every step of Launch, Cancel, ProbeRTSP and ProbeMedia is a step of the
\* promise or changes nothing of the view: what is seen belongs to the
\* session of that moment, and nothing of an earlier one is seen again.
KeepsSessionPromise == S!SessionSafety
=============================================================================
