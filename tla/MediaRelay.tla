----------------------------- MODULE MediaRelay -----------------------------
(***************************************************************************)
(* The media side of one /ws/session handler (host/internal/signaling):    *)
(* the Relay (host/internal/media) with its closed flag, the goroutine of  *)
(* the diagnostic pattern that pushes samples into it, and the two         *)
(* goroutines that read RTCP, of which the video one calls                 *)
(* OnKeyframeRequest. The handler's deferred calls run in reverse order:   *)
(* pattern.Close, cancel, and Session.Close with relay.Close and pc.Close. *)
(*                                                                         *)
(* PushVideo and readVideoRTCP look at the closed flag under the mutex and *)
(* act on it after they have released it, so each is two steps here. The   *)
(* assignment of OnKeyframeRequest takes no mutex at all.                  *)
(***************************************************************************)
EXTENDS Naturals

VARIABLES
  testPattern,  \* Server.TestPattern
  handler,      \* how far the /ws/session handler is
  peer,         \* the peer connection
  closed,       \* Relay.closed
  hook,         \* Relay.OnKeyframeRequest
  cancelled,    \* the pattern's context
  pattern,      \* how far DiagnosticPattern.Start is
  reader,       \* how far readVideoRTCP is
  callback,     \* the callback it has read
  drain,        \* how far drainRTCP of the audio sender is
  lateSamples,  \* history: samples written after Close
  lateCalls     \* history: keyframe callbacks called after Close

vars == <<testPattern, handler, peer, closed, hook, cancelled, pattern, reader,
          callback, drain, lateSamples, lateCalls>>
relayVars == <<closed, hook>>
readerVars == <<reader, callback, drain, lateCalls>>
sourceVars == <<pattern, lateSamples>>

\* session.New is done: both RTCP goroutines run, the hook only logs.
Init ==
  /\ testPattern \in BOOLEAN
  /\ handler = "new"
  /\ peer = "new"
  /\ closed = FALSE
  /\ hook = "log"
  /\ cancelled = FALSE
  /\ pattern = "none"
  /\ reader = "read" /\ callback = "none"
  /\ drain = "read"
  /\ lateSamples = 0 /\ lateCalls = 0

-----------------------------------------------------------------------------
(* The handler.                                                            *)

Proceeds(from, to) ==
  /\ handler = from
  /\ handler' = to

\* (mutant: the hook is left as it is)
HooksSourceMut ==
  /\ testPattern
  /\ Proceeds("new", "hooked")
  /\ UNCHANGED <<testPattern, relayVars, peer, cancelled, sourceVars,
                 readerVars>>

HooksSource ==
  /\ testPattern
  /\ Proceeds("new", "hooked")
  /\ hook' = "source"
  /\ UNCHANGED <<testPattern, closed, peer, cancelled, sourceVars, readerVars>>

StartsSource ==
  /\ Proceeds("hooked", "ready")
  /\ pattern' = "send"
  /\ UNCHANGED <<testPattern, relayVars, peer, cancelled, lateSamples,
                 readerVars>>

\* current.Start, which sends the offer and reads signaling until the end.
StartsSession ==
  /\ \/ Proceeds("ready", "started")
     \/ ~testPattern /\ Proceeds("new", "started")
  /\ UNCHANGED <<testPattern, relayVars, peer, cancelled, sourceVars,
                 readerVars>>

StartReturns ==
  /\ Proceeds("started", "returned")
  /\ UNCHANGED <<testPattern, relayVars, peer, cancelled, sourceVars,
                 readerVars>>

\* pattern.Close does nothing.
ClosesSource ==
  /\ testPattern
  /\ Proceeds("returned", "sourceClosed")
  /\ UNCHANGED <<testPattern, relayVars, peer, cancelled, sourceVars,
                 readerVars>>

\* (mutant: nobody calls cancel)
CancelsMut ==
  /\ Proceeds("sourceClosed", "cancelled")
  /\ UNCHANGED <<testPattern, relayVars, peer, cancelled, sourceVars,
                 readerVars>>

Cancels ==
  /\ Proceeds("sourceClosed", "cancelled")
  /\ cancelled' = TRUE
  /\ UNCHANGED <<testPattern, relayVars, peer, sourceVars, readerVars>>

\* Session.Close: s.media.Close ...
ClosesRelay ==
  /\ \/ Proceeds("cancelled", "relayClosed")
     \/ ~testPattern /\ Proceeds("returned", "relayClosed")
  /\ closed' = TRUE
  /\ UNCHANGED <<testPattern, hook, peer, cancelled, sourceVars, readerVars>>

\* ... and s.pc.Close, which closes both senders.
ClosesPeer ==
  /\ Proceeds("relayClosed", "done")
  /\ peer' = "closed"
  /\ UNCHANGED <<testPattern, relayVars, cancelled, sourceVars, readerVars>>

Deferred == ClosesSource \/ Cancels \/ ClosesRelay \/ ClosesPeer

\* The browser's answer has arrived and ICE and DTLS succeed, at the latest
\* while the handler's deferred calls run.
PeerConnects ==
  /\ handler \notin {"new", "hooked", "ready"}
  /\ peer = "new"
  /\ peer' = "connected"
  /\ UNCHANGED <<testPattern, handler, relayVars, cancelled, sourceVars,
                 readerVars>>

-----------------------------------------------------------------------------
(* DiagnosticPattern.Start with its send, that is PushVideo.               *)

\* (mutant: PushVideo does not look at the flag)
ChecksClosedMut ==
  /\ pattern = "send"
  /\ pattern' = "write"
  /\ UNCHANGED <<testPattern, handler, peer, relayVars, cancelled,
                 lateSamples, readerVars>>

\* PushVideo up to RUnlock; ErrClosedPipe is not an error for send.
ChecksClosed ==
  /\ pattern = "send"
  /\ pattern' = IF closed THEN "select" ELSE "write"
  /\ UNCHANGED <<testPattern, handler, peer, relayVars, cancelled,
                 lateSamples, readerVars>>

\* WriteSample; before the track is bound its error is ignored as well.
WritesSample ==
  /\ pattern = "write"
  /\ pattern' = "select"
  /\ lateSamples' = IF closed THEN lateSamples + 1 ELSE lateSamples
  /\ UNCHANGED <<testPattern, handler, peer, relayVars, cancelled, readerVars>>

Ticks ==
  /\ pattern = "select"
  /\ pattern' = "send"
  /\ UNCHANGED <<testPattern, handler, peer, relayVars, cancelled,
                 lateSamples, readerVars>>

SeesCancel ==
  /\ pattern = "select"
  /\ cancelled
  /\ pattern' = "done"
  /\ UNCHANGED <<testPattern, handler, peer, relayVars, cancelled,
                 lateSamples, readerVars>>

-----------------------------------------------------------------------------
(* readVideoRTCP and drainRTCP.                                            *)

\* A PLI or FIR of the browser, while the connection lasts.
KeyframeRequested ==
  /\ reader = "read"
  /\ peer = "connected"
  /\ reader' = "packet"
  /\ UNCHANGED <<testPattern, handler, peer, relayVars, cancelled, sourceVars,
                 callback, drain, lateCalls>>

\* Hook and flag, read together under the mutex.
ReadsHook ==
  /\ reader = "packet"
  /\ reader' = IF closed THEN "read" ELSE "call"
  /\ callback' = IF closed THEN callback ELSE hook
  /\ UNCHANGED <<testPattern, handler, peer, relayVars, cancelled, sourceVars,
                 drain, lateCalls>>

\* The call, after the mutex was released; a batch may hold further requests.
CallsHook ==
  /\ reader = "call"
  /\ reader' \in {"read", "packet"}
  /\ callback' = "none"
  /\ lateCalls' = IF closed THEN lateCalls + 1 ELSE lateCalls
  /\ UNCHANGED <<testPattern, handler, peer, relayVars, cancelled, sourceVars,
                 drain>>

ReaderEnds ==
  /\ reader = "read"
  /\ peer = "closed"
  /\ reader' = "done"
  /\ UNCHANGED <<testPattern, handler, peer, relayVars, cancelled, sourceVars,
                 callback, drain, lateCalls>>

DrainEnds ==
  /\ drain = "read"
  /\ peer = "closed"
  /\ drain' = "done"
  /\ UNCHANGED <<testPattern, handler, peer, relayVars, cancelled, sourceVars,
                 reader, callback, lateCalls>>

\* Handler and goroutines are all gone.
Over ==
  /\ handler = "done" /\ pattern \in {"none", "done"}
  /\ reader = "done" /\ drain = "done"
  /\ UNCHANGED vars

Next ==
  \/ HooksSource \/ StartsSource \/ StartsSession \/ StartReturns \/ Deferred
  \/ PeerConnects
  \/ ChecksClosed \/ WritesSample \/ Ticks \/ SeesCancel
  \/ KeyframeRequested \/ ReadsHook \/ CallsHook \/ ReaderEnds \/ DrainEnds
  \/ Over

\* Goroutines go on. A select with a tick and a cancelled context ready takes
\* either at random, so the cancel is not passed over for ever.
Fairness ==
  /\ WF_vars(Deferred)
  /\ WF_vars(ChecksClosed) /\ WF_vars(WritesSample)
  /\ WF_vars(ReadsHook) /\ WF_vars(CallsHook)
  /\ WF_vars(ReaderEnds) /\ WF_vars(DrainEnds)
  /\ SF_vars(SeesCancel)

Spec == Init /\ [][Next]_vars /\ Fairness

-----------------------------------------------------------------------------
(* Properties.                                                             *)

\* Each variable stays in its type.
TypeOK ==
  /\ testPattern \in BOOLEAN /\ closed \in BOOLEAN /\ cancelled \in BOOLEAN
  /\ handler \in {"new", "hooked", "ready", "started", "returned",
                  "sourceClosed", "cancelled", "relayClosed", "done"}
  /\ peer \in {"new", "connected", "closed"}
  /\ hook \in {"log", "source"}
  /\ pattern \in {"none", "send", "write", "select", "done"}
  /\ reader \in {"read", "packet", "call", "done"}
  /\ callback \in {"none", "log", "source"}
  /\ drain \in {"read", "done"}
  /\ lateSamples \in Nat /\ lateCalls \in Nat

\* The flag is checked under the mutex but acted on outside it: after Close at
\* most the one sample that had passed the check is written, and at most the
\* one callback that had been read is called.
LateByOne == lateSamples <= 1 /\ lateCalls <= 1

\* "Keeping it live now proves RTCP PLI/FIR reaches the source boundary"
\* (session.go): the hook is replaced without the mutex, beside a goroutine
\* that reads it, yet no request of a browser meets the old one, because none
\* can come before Start has sent the offer.
KeyframeReachesSource ==
  testPattern /\ reader = "call" => callback = "source"

\* A relay is closed only once its source was told to stop, and the peer
\* connection only after the relay: the source never runs on against a relay
\* that refuses everything, nor an open relay against closed tracks.
StopsInOrder ==
  /\ closed => cancelled \/ pattern = "none"
  /\ peer = "closed" => closed

\* When the handler is done, its goroutines end: none is leaked.
GoroutinesEnd ==
  handler = "done" ~>
    pattern \in {"none", "done"} /\ reader = "done" /\ drain = "done"
=============================================================================
