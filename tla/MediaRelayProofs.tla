--------------------------- MODULE MediaRelayProofs ---------------------------
(* Proofs of the invariants of MediaRelay, which has no constants: what they  *)
(* add to the run is that the counts of late calls stay bounded however long  *)
(* a session lasts, and the reason for it.                                    *)
EXTENDS MediaRelay, TLAPS

\* The part of the type invariant that is not about flags.
Others ==
  /\ handler \in {"new", "hooked", "ready", "started", "returned",
                  "sourceClosed", "cancelled", "relayClosed", "done"}
  /\ peer \in {"new", "connected", "closed"}
  /\ hook \in {"log", "source"}
  /\ pattern \in {"none", "send", "write", "select", "done"}
  /\ reader \in {"read", "packet", "call", "done"}
  /\ callback \in {"none", "log", "source"}
  /\ drain \in {"read", "done"}
  /\ lateSamples \in Nat /\ lateCalls \in Nat

\* Type correctness of MediaRelay. The three flags are taken apart: Boolean
\* values are for Zenon, the counters for SMT.
THEOREM TypeCorrect == Spec => []TypeOK
<1> DEFINE Flags == testPattern \in BOOLEAN /\ closed \in BOOLEAN
                    /\ cancelled \in BOOLEAN
<1>1. Init => Flags
  BY Zenon DEF Init
<1>2. Flags /\ [Next]_vars => Flags'
  BY Zenon DEF Next, vars, relayVars, HooksSource, StartsSource, StartsSession,
               StartReturns, Deferred, ClosesSource, Cancels, ClosesRelay,
               ClosesPeer, PeerConnects, ChecksClosed, WritesSample, Ticks,
               SeesCancel, KeyframeRequested, ReadsHook, CallsHook, ReaderEnds,
               DrainEnds, Over
<1>3. Init => Others
  BY DEF Init, Others
<1>4. Others /\ [Next]_vars => Others'
  <2> SUFFICES ASSUME Others, [Next]_vars PROVE Others'
    OBVIOUS
  <2> USE DEF Others, relayVars, readerVars, sourceVars, Proceeds
  <2>1. CASE HooksSource \/ StartsSource \/ StartsSession \/ StartReturns
    BY <2>1 DEF HooksSource, StartsSource, StartsSession, StartReturns
  <2>2. CASE Deferred
    BY <2>2 DEF Deferred, ClosesSource, Cancels, ClosesRelay, ClosesPeer
  <2>3. CASE PeerConnects \/ ChecksClosed \/ WritesSample \/ Ticks \/ SeesCancel
    BY <2>3 DEF PeerConnects, ChecksClosed, WritesSample, Ticks, SeesCancel
  <2>4. CASE \/ KeyframeRequested \/ ReadsHook \/ CallsHook \/ ReaderEnds
             \/ DrainEnds
    BY <2>4 DEF KeyframeRequested, ReadsHook, CallsHook, ReaderEnds, DrainEnds
  <2>5. CASE UNCHANGED vars
    BY <2>5 DEF vars
  <2> QED
    BY <2>1, <2>2, <2>3, <2>4, <2>5 DEF Next, Over
<1>5. TypeOK <=> Flags /\ Others
  BY DEF TypeOK, Others
<1> QED
  BY <1>1, <1>2, <1>3, <1>4, <1>5, PTL DEF Spec

\* A sample or a callback that is still to come late is the first one: with
\* the relay open none was late, and once it is closed no check succeeds.
FirstLate ==
  /\ ~closed => lateSamples = 0 /\ lateCalls = 0
  /\ pattern = "write" => lateSamples = 0
  /\ reader = "call" => lateCalls = 0

\* The deferred calls, by how far the handler is.
Shutdown ==
  /\ closed <=> handler \in {"relayClosed", "done"}
  /\ peer = "closed" => handler = "done"
  /\ testPattern /\ handler \in {"cancelled", "relayClosed", "done"}
       => cancelled
  /\ pattern # "none" \/ handler \in {"hooked", "ready"} => testPattern

\* A request of the browser comes after the offer, and that after the hook.
HookFirst ==
  /\ testPattern /\ handler # "new" => hook = "source"
  /\ peer # "new" \/ reader # "read"
       => handler \notin {"new", "hooked", "ready"}
  /\ testPattern /\ reader = "call" => callback = "source"

Inv == LateByOne /\ FirstLate /\ Shutdown /\ HookFirst

\* Inv holds as long as the session, its goroutines and their ends last.
LEMMA Invariance == Spec => []Inv
<1>1. Init => Inv
  BY DEF Init, Inv, LateByOne, FirstLate, Shutdown, HookFirst
<1>2. TypeOK /\ Inv /\ [Next]_vars => Inv'
  <2> SUFFICES ASSUME TypeOK, Inv, [Next]_vars PROVE Inv'
    OBVIOUS
  <2> USE DEF Inv, TypeOK, LateByOne, FirstLate, Shutdown, HookFirst,
              relayVars, readerVars, sourceVars, Proceeds
  <2>1. CASE HooksSource
    BY <2>1 DEF HooksSource
  <2>2. CASE StartsSource
    BY <2>2 DEF StartsSource
  <2>3. CASE StartsSession \/ StartReturns
    BY <2>3 DEF StartsSession, StartReturns
  <2>4. CASE Deferred
    BY <2>4 DEF Deferred, ClosesSource, Cancels, ClosesRelay, ClosesPeer
  <2>5. CASE PeerConnects
    BY <2>5 DEF PeerConnects
  <2>6. CASE ChecksClosed
    BY <2>6 DEF ChecksClosed
  <2>7. CASE WritesSample
    BY <2>7 DEF WritesSample
  <2>8. CASE Ticks \/ SeesCancel
    BY <2>8 DEF Ticks, SeesCancel
  <2>9. CASE KeyframeRequested \/ ReadsHook
    BY <2>9 DEF KeyframeRequested, ReadsHook
  <2>10. CASE CallsHook
    BY <2>10 DEF CallsHook
  <2>11. CASE ReaderEnds \/ DrainEnds
    BY <2>11 DEF ReaderEnds, DrainEnds
  <2>12. CASE UNCHANGED vars
    BY <2>12 DEF vars
  <2> QED
    BY <2>1, <2>2, <2>3, <2>4, <2>5, <2>6, <2>7, <2>8, <2>9, <2>10, <2>11,
       <2>12 DEF Next, Over
<1> QED
  BY <1>1, <1>2, TypeCorrect, PTL DEF Spec

\* After Close at most one sample is written and one callback called, however
\* the pattern and the RTCP reader race with it.
THEOREM LateAtMostOnce == Spec => []LateByOne
BY Invariance, PTL DEF Inv

\* A PLI or FIR never meets the hook session.New has set while a source runs.
THEOREM KeyframesReachSource == Spec => []KeyframeReachesSource
<1>1. Inv => KeyframeReachesSource
  BY DEF Inv, HookFirst, KeyframeReachesSource
<1> QED
  BY <1>1, Invariance, PTL

\* Source, relay and peer connection are stopped in this order.
THEOREM StoppedInOrder == Spec => []StopsInOrder
<1>1. TypeOK /\ Inv => StopsInOrder
  BY DEF Inv, TypeOK, Shutdown, StopsInOrder
<1> QED
  BY <1>1, TypeCorrect, Invariance, PTL
=============================================================================
