--------------------------- MODULE PairingProofs ---------------------------
(* Proofs that the safety properties of Pairing hold for any number of     *)
(* runs, concurrent handlers and PINs, and that Pairing implements         *)
(* PairingPromise. Each invariant is proved together with what it needs to *)
(* be inductive.                                                           *)
EXTENDS PairingRefinement, TLAPS

\* Initially, and after every step, each variable is in its type.
THEOREM Typing == Spec => []TypeOK
<1>1. Init => TypeOK
  <2> SUFFICES ASSUME Init PROVE TypeOK
    OBVIOUS
  <2>1. pairState \in [state : States, pin : Pins \cup {NoPin}]
    BY DEF Init, States
  <2>2. trusted \in BOOLEAN /\ everTrusted \in BOOLEAN /\ overtaken \in BOOLEAN
    BY Zenon DEF Init
  <2> QED BY <2>1, <2>2 DEF Init, TypeOK
<1>2. TypeOK /\ [Next]_vars => TypeOK'
  <2> SUFFICES ASSUME TypeOK, [Next]_vars PROVE TypeOK'
    OBVIOUS
  <2> USE DEF TypeOK, States, AlivePc, AwaitingPin, Exchanging, sunshineVars
  <2>1. ASSUME NEW r \in Runs, NEW p \in Pins, StartPairing(r, p)
        PROVE  TypeOK'
    BY <2>1 DEF StartPairing, Advance
  <2>2. ASSUME NEW r \in Runs, NEW p \in Pins, UserTypesPin(r, p)
        PROVE  TypeOK'
    BY <2>2 DEF UserTypesPin, Advance
  <2>3. ASSUME NEW r \in Runs, RunStep(r) PROVE TypeOK'
    <3>1. CASE RunProbeAnswered(r)
      BY <3>1 DEF RunProbeAnswered, Advance
    <3>2. CASE RunProbeReturns(r)
      BY <3>2 DEF RunProbeReturns, ProbeStores, Paired, Advance
    <3>3. CASE Stage1Accepted(r)
      BY <3>3 DEF Stage1Accepted, Advance
    <3>4. CASE Stage2Accepted(r) \/ Stage3Verified(r) \/ Stage4Accepted(r)
               \/ SunshineAuthorizes(r) \/ SunshineAcceptsCertificate(r)
      BY <3>4 DEF Stage2Accepted, Stage3Verified, Stage4Accepted,
                  SunshineAuthorizes, SunshineAcceptsCertificate, Advance
    <3>5. CASE RunPairs(r)
      BY <3>5 DEF RunPairs, Ends, Paired
    <3>6. CASE RunFails(r)
      BY <3>6 DEF RunFails, Ends
    <3> QED BY <2>3, <3>1, <3>2, <3>3, <3>4, <3>5, <3>6 DEF RunStep
  <2>4. ASSUME NEW c \in Callers, CallStep(c) PROVE TypeOK'
    <3>1. CASE CallProbeReturns(c)
      BY <3>1 DEF CallProbeReturns, ProbeStores, Paired
    <3>2. CASE CallStoresPaired(c)
      BY <3>2 DEF CallStoresPaired, Paired
    <3>3. CASE CallBegins(c) \/ CallProbeAnswered(c) \/ CallAuthenticated(c)
               \/ CallFails(c)
      BY <3>3 DEF CallBegins, CallProbeAnswered, CallAuthenticated, CallFails
    <3> QED BY <2>4, <3>1, <3>2, <3>3 DEF CallStep
  <2>5. CASE SunshineForgets
    BY <2>5 DEF SunshineForgets
  <2>6. CASE UNCHANGED vars
    BY <2>6 DEF vars
  <2> QED BY <2>1, <2>2, <2>3, <2>4, <2>5, <2>6 DEF Next
<1> QED BY <1>1, <1>2, PTL DEF Spec

-----------------------------------------------------------------------------
\* The client's pairing secret is only ever sent to a Sunshine that was given
\* the PIN of that very run. Inductive as it stands: pin[r] is written before
\* and typed[r] at stage 1, and stage 4 is entered by Stage3Verified alone.
THEOREM SecretSafe == Spec => []SecretOnlyAfterPinProof
<1>1. Init => SecretOnlyAfterPinProof
  BY DEF Init, SecretOnlyAfterPinProof
<1>2. TypeOK /\ SecretOnlyAfterPinProof /\ [Next]_vars => SecretOnlyAfterPinProof'
  <2> SUFFICES ASSUME TypeOK, SecretOnlyAfterPinProof, [Next]_vars
               PROVE  SecretOnlyAfterPinProof'
    OBVIOUS
  <2> USE DEF TypeOK, SecretOnlyAfterPinProof, AlivePc, AwaitingPin,
              Exchanging, sunshineVars
  <2>1. ASSUME NEW r \in Runs, NEW p \in Pins, StartPairing(r, p)
        PROVE  SecretOnlyAfterPinProof'
    BY <2>1 DEF StartPairing, Advance
  <2>2. ASSUME NEW r \in Runs, NEW p \in Pins, UserTypesPin(r, p)
        PROVE  SecretOnlyAfterPinProof'
    BY <2>2 DEF UserTypesPin, Advance
  <2>3. ASSUME NEW r \in Runs, RunStep(r) PROVE SecretOnlyAfterPinProof'
    <3>1. CASE RunProbeAnswered(r) \/ RunProbeReturns(r) \/ Stage1Accepted(r)
               \/ Stage2Accepted(r)
      BY <3>1 DEF RunProbeAnswered, RunProbeReturns, Stage1Accepted,
                  Stage2Accepted, Advance
    <3>2. CASE Stage3Verified(r)
      BY <3>2 DEF Stage3Verified, Advance
    <3>3. CASE SunshineAcceptsCertificate(r) \/ Stage4Accepted(r)
               \/ SunshineAuthorizes(r)
      BY <3>3 DEF SunshineAcceptsCertificate, Stage4Accepted,
                  SunshineAuthorizes, Advance
    <3>4. CASE RunPairs(r) \/ RunFails(r)
      BY <3>4 DEF RunPairs, RunFails, Ends
    <3> QED BY <2>3, <3>1, <3>2, <3>3, <3>4 DEF RunStep
  <2>4. ASSUME NEW c \in Callers, CallStep(c) PROVE SecretOnlyAfterPinProof'
    BY <2>4 DEF CallStep, CallBegins, CallProbeAnswered, CallProbeReturns,
                CallAuthenticated, CallStoresPaired, CallFails
  <2>5. CASE SunshineForgets
    BY <2>5 DEF SunshineForgets
  <2>6. CASE UNCHANGED vars
    BY <2>6 DEF vars
  <2> QED BY <2>1, <2>2, <2>3, <2>4, <2>5, <2>6 DEF Next
<1> QED BY <1>1, <1>2, Typing, PTL DEF Spec

-----------------------------------------------------------------------------
\* A PIN on display always has the goroutine that waits for it, at the phase
\* displayed: whoever leaves a phase writes the status in the same step.
THEOREM PinSafe == Spec => []PinHasRunner
<1>1. Init => PinHasRunner
  BY DEF Init, PinHasRunner
<1>2. TypeOK /\ PinHasRunner /\ [Next]_vars => PinHasRunner'
  <2> SUFFICES ASSUME TypeOK, PinHasRunner, [Next]_vars
               PROVE  PinHasRunner'
    OBVIOUS
  <2> USE DEF TypeOK, PinHasRunner, AlivePc, AwaitingPin, Exchanging,
              sunshineVars
  <2>1. ASSUME NEW r \in Runs, NEW p \in Pins, StartPairing(r, p)
        PROVE  PinHasRunner'
    BY <2>1 DEF StartPairing, Advance
  <2>2. ASSUME NEW r \in Runs, NEW p \in Pins, UserTypesPin(r, p)
        PROVE  PinHasRunner'
    BY <2>2 DEF UserTypesPin, Advance
  <2>3. ASSUME NEW r \in Runs, RunStep(r) PROVE PinHasRunner'
    <3>1. CASE RunProbeAnswered(r)
      BY <3>1 DEF RunProbeAnswered, Advance
    <3>2. CASE RunProbeReturns(r)
      BY <3>2 DEF RunProbeReturns, ProbeStores, Paired, InProgress, Advance
    <3>3. CASE Stage1Accepted(r)
      BY <3>3 DEF Stage1Accepted, Advance
    <3>4. CASE Stage2Accepted(r) \/ Stage3Verified(r)
               \/ SunshineAcceptsCertificate(r) \/ Stage4Accepted(r)
               \/ SunshineAuthorizes(r)
      BY <3>4 DEF Stage2Accepted, Stage3Verified, SunshineAcceptsCertificate,
                  Stage4Accepted, SunshineAuthorizes, Advance
    <3>5. CASE RunPairs(r) \/ RunFails(r)
      BY <3>5 DEF RunPairs, RunFails, Paired
    <3> QED BY <2>3, <3>1, <3>2, <3>3, <3>4, <3>5 DEF RunStep
  <2>4. ASSUME NEW c \in Callers, CallStep(c) PROVE PinHasRunner'
    BY <2>4 DEF CallStep, CallBegins, CallProbeAnswered, CallProbeReturns,
                CallAuthenticated, CallStoresPaired, CallFails, ProbeStores,
                Paired, InProgress
  <2>5. CASE SunshineForgets
    BY <2>5 DEF SunshineForgets
  <2>6. CASE UNCHANGED vars
    BY <2>6 DEF vars
  <2> QED BY <2>1, <2>2, <2>3, <2>4, <2>5, <2>6 DEF Next
<1> QED BY <1>1, <1>2, Typing, PTL DEF Spec

-----------------------------------------------------------------------------
\* PairedHasEvidence is not inductive: a write of "paired" relies on an answer
\* of Sunshine that is older. Every such answer in flight is evidence too.
Evidence ==
  /\ trusted => everTrusted
  /\ \A r \in Runs : pc[r] \in {"probed_1", "authorized"} => everTrusted
  /\ \A c \in Callers : call[c] \in {"probed_1", "authenticated"} => everTrusted
  /\ PairedHasEvidence

LEMMA EvidenceHolds == Spec => []Evidence
<1>1. Init => Evidence
  BY DEF Init, Evidence, PairedHasEvidence
<1>2. TypeOK /\ Evidence /\ [Next]_vars => Evidence'
  <2> SUFFICES ASSUME TypeOK, Evidence, [Next]_vars PROVE Evidence'
    OBVIOUS
  <2> USE DEF TypeOK, Evidence, PairedHasEvidence, AlivePc, AwaitingPin,
              Exchanging, sunshineVars
  <2>1. ASSUME NEW r \in Runs, NEW p \in Pins, StartPairing(r, p)
        PROVE  Evidence'
    BY <2>1 DEF StartPairing, Advance
  <2>2. ASSUME NEW r \in Runs, NEW p \in Pins, UserTypesPin(r, p)
        PROVE  Evidence'
    BY <2>2 DEF UserTypesPin, Advance
  <2>3. ASSUME NEW r \in Runs, RunStep(r) PROVE Evidence'
    <3>1. CASE RunProbeAnswered(r)
      BY <3>1 DEF RunProbeAnswered, PairStatusAnswers, Advance
    <3>2. CASE RunProbeReturns(r)
      BY <3>2 DEF RunProbeReturns, ProbeStores, Paired, Advance
    <3>3. CASE Stage1Accepted(r) \/ Stage2Accepted(r) \/ Stage3Verified(r)
               \/ Stage4Accepted(r)
      BY <3>3 DEF Stage1Accepted, Stage2Accepted, Stage3Verified,
                  Stage4Accepted, Advance
    <3>4. CASE SunshineAcceptsCertificate(r)
      BY <3>4 DEF SunshineAcceptsCertificate
    <3>5. CASE SunshineAuthorizes(r)
      BY <3>5 DEF SunshineAuthorizes, Advance
    <3>6. CASE RunPairs(r) \/ RunFails(r)
      BY <3>6 DEF RunPairs, RunFails, Ends, Paired
    <3> QED BY <2>3, <3>1, <3>2, <3>3, <3>4, <3>5, <3>6 DEF RunStep
  <2>4. ASSUME NEW c \in Callers, CallStep(c) PROVE Evidence'
    <3>1. CASE CallProbeAnswered(c)
      BY <3>1 DEF CallProbeAnswered, PairStatusAnswers
    <3>2. CASE CallProbeReturns(c)
      BY <3>2 DEF CallProbeReturns, ProbeStores, Paired
    <3>3. CASE CallAuthenticated(c) \/ CallBegins(c) \/ CallFails(c)
      BY <3>3 DEF CallAuthenticated, CallBegins, CallFails
    <3>4. CASE CallStoresPaired(c)
      BY <3>4 DEF CallStoresPaired, Paired
    <3> QED BY <2>4, <3>1, <3>2, <3>3, <3>4 DEF CallStep
  <2>5. CASE SunshineForgets
    BY <2>5 DEF SunshineForgets
  <2>6. CASE UNCHANGED vars
    BY <2>6 DEF vars
  <2> QED BY <2>1, <2>2, <2>3, <2>4, <2>5, <2>6 DEF Next
<1> QED BY <1>1, <1>2, Typing, PTL DEF Spec

\* "paired" is only ever stored if Sunshine has trusted the certificate.
THEOREM PairedSafe == Spec => []PairedHasEvidence
<1>1. Evidence => PairedHasEvidence
  BY DEF Evidence
<1> QED BY <1>1, EvidenceHolds, PTL

-----------------------------------------------------------------------------
\* StartPairing's test of the status is enough to keep a second runPairing
\* from starting, as long as nobody wrote over the status of the first.
THEOREM SingleRunSafe == Spec => []SingleRun
<1>1. Init => SingleRun
  BY DEF Init, SingleRun, Alive, AlivePc, AwaitingPin, Exchanging
<1>2. TypeOK /\ SingleRun /\ [Next]_vars => SingleRun'
  <2> SUFFICES ASSUME TypeOK, SingleRun, [Next]_vars PROVE SingleRun'
    OBVIOUS
  <2> USE DEF TypeOK, SingleRun, Alive, AlivePc, AwaitingPin, Exchanging,
              sunshineVars
  <2>1. ASSUME NEW r \in Runs, NEW p \in Pins, StartPairing(r, p)
        PROVE  SingleRun'
    <3>1. ~overtaken => Alive = {}
      BY <2>1 DEF StartPairing, InProgress
    <3>2. Alive' = Alive \cup {r}
      BY <2>1 DEF StartPairing, Advance
    <3> QED BY <2>1, <3>1, <3>2 DEF StartPairing, Advance
  <2>2. ASSUME NEW r \in Runs, NEW p \in Pins, UserTypesPin(r, p)
        PROVE  SingleRun'
    BY <2>2 DEF UserTypesPin, Advance
  <2>3. ASSUME NEW r \in Runs, RunStep(r) PROVE SingleRun'
    <3>1. r \in Alive
      BY <2>3 DEF RunStep, RunProbeAnswered, RunProbeReturns, Stage1Accepted,
                  Stage2Accepted, Stage3Verified, SunshineAcceptsCertificate,
                  Stage4Accepted, SunshineAuthorizes, RunPairs, RunFails,
                  Advance
    <3>2. CASE RunProbeAnswered(r)
      BY <3>2 DEF RunProbeAnswered, Advance
    <3>3. CASE RunProbeReturns(r)
      BY <3>1, <3>3 DEF RunProbeReturns, ProbeStores, InProgress, Advance
    <3>4. CASE Stage1Accepted(r)
      BY <3>1, <3>4 DEF Stage1Accepted, Advance
    <3>5. CASE Stage2Accepted(r) \/ Stage3Verified(r)
               \/ SunshineAcceptsCertificate(r) \/ Stage4Accepted(r)
               \/ SunshineAuthorizes(r)
      BY <3>5 DEF Stage2Accepted, Stage3Verified, SunshineAcceptsCertificate,
                  Stage4Accepted, SunshineAuthorizes, Advance
    <3>6. CASE RunPairs(r) \/ RunFails(r)
      <4>1. Ends(r)
        BY <3>6 DEF RunPairs, RunFails
      <4>2. Alive' = Alive \ {r}
        BY <4>1 DEF Ends
      <4>3. ~overtaken' => Alive' = {}
        BY <3>1, <4>1, <4>2 DEF Ends
      <4> QED BY <4>3
    <3> QED BY <2>3, <3>2, <3>3, <3>4, <3>5, <3>6 DEF RunStep
  <2>4. ASSUME NEW c \in Callers, CallStep(c) PROVE SingleRun'
    <3>1. CASE CallProbeReturns(c)
      BY <3>1 DEF CallProbeReturns, ProbeStores, InProgress
    <3>2. CASE CallStoresPaired(c)
      BY <3>2 DEF CallStoresPaired
    <3>3. CASE CallBegins(c) \/ CallProbeAnswered(c) \/ CallAuthenticated(c)
               \/ CallFails(c)
      BY <3>3 DEF CallBegins, CallProbeAnswered, CallAuthenticated, CallFails
    <3> QED BY <2>4, <3>1, <3>2, <3>3 DEF CallStep
  <2>5. CASE SunshineForgets
    BY <2>5 DEF SunshineForgets
  <2>6. CASE UNCHANGED vars
    BY <2>6 DEF vars
  <2> QED BY <2>1, <2>2, <2>3, <2>4, <2>5, <2>6 DEF Next
<1> QED BY <1>1, <1>2, Typing, PTL DEF Spec

-----------------------------------------------------------------------------
\* Once "paired", the status is only left by a new StartPairing: by SingleRun
\* no run is alive that could store a phase or an error.
THEOREM StickySafe == Spec => PairedSticky
<1> DEFINE Sticky == pairState.state = "paired" /\ pairState'.state # "paired"
                       => pairState'.state = "waiting_for_pin" \/ overtaken
<1>1. TypeOK /\ SingleRun /\ [Next]_vars => [Sticky]_vars
  <2> SUFFICES ASSUME TypeOK, SingleRun, Next, pairState.state = "paired",
                      ~overtaken, pairState' # pairState
               PROVE  pairState'.state \in {"paired", "waiting_for_pin"}
    BY DEF vars
  <2>1. Alive = {}
    BY DEF SingleRun, AwaitingPin
  <2>2. \A r \in Runs : ~RunStep(r)
    BY <2>1 DEF Alive, AlivePc, AwaitingPin, Exchanging, RunStep,
                RunProbeAnswered, RunProbeReturns, Stage1Accepted,
                Stage2Accepted, Stage3Verified, SunshineAcceptsCertificate,
                Stage4Accepted, SunshineAuthorizes, RunPairs, RunFails, Advance
  <2>3. ASSUME NEW r \in Runs, NEW p \in Pins,
               StartPairing(r, p) \/ UserTypesPin(r, p)
        PROVE  pairState'.state = "waiting_for_pin"
    BY <2>3 DEF StartPairing, UserTypesPin
  <2>4. ASSUME NEW c \in Callers, CallStep(c)
        PROVE  pairState'.state = "paired"
    BY <2>4 DEF CallStep, CallBegins, CallProbeAnswered, CallProbeReturns,
                CallAuthenticated, CallStoresPaired, CallFails, ProbeStores,
                Paired
  <2>5. ~SunshineForgets
    BY DEF SunshineForgets
  <2> QED BY <2>2, <2>3, <2>4, <2>5 DEF Next
<1> QED BY <1>1, Typing, SingleRunSafe, PTL DEF Spec, PairedSticky

-----------------------------------------------------------------------------
\* A run that is alive was given a PIN when it was started.
PinAssigned == \A r \in Alive : pin[r] \in Pins

LEMMA PinsAssigned == Spec => []PinAssigned
<1>1. Init => PinAssigned
  BY DEF Init, PinAssigned, Alive, AlivePc, AwaitingPin, Exchanging
<1>2. TypeOK /\ PinAssigned /\ [Next]_vars => PinAssigned'
  <2> SUFFICES ASSUME TypeOK, PinAssigned, [Next]_vars PROVE PinAssigned'
    OBVIOUS
  <2> USE DEF TypeOK, PinAssigned, Alive, AlivePc, AwaitingPin, Exchanging
  <2>1. ASSUME NEW r \in Runs, NEW p \in Pins, StartPairing(r, p)
        PROVE  PinAssigned'
    BY <2>1 DEF StartPairing, Advance
  <2>2. ASSUME NEW r \in Runs, NEW p \in Pins, UserTypesPin(r, p)
        PROVE  PinAssigned'
    BY <2>2 DEF UserTypesPin, Advance
  <2>3. ASSUME NEW r \in Runs, RunStep(r) PROVE PinAssigned'
    BY <2>3 DEF RunStep, RunProbeAnswered, RunProbeReturns, Stage1Accepted,
                Stage2Accepted, Stage3Verified, SunshineAcceptsCertificate,
                Stage4Accepted, SunshineAuthorizes, RunPairs, RunFails,
                Advance, Ends
  <2>4. ASSUME NEW c \in Callers, CallStep(c) PROVE PinAssigned'
    BY <2>4 DEF CallStep, CallBegins, CallProbeAnswered, CallProbeReturns,
                CallAuthenticated, CallStoresPaired, CallFails
  <2>5. CASE SunshineForgets
    BY <2>5 DEF SunshineForgets
  <2>6. CASE UNCHANGED vars
    BY <2>6 DEF vars
  <2> QED BY <2>1, <2>2, <2>3, <2>4, <2>5, <2>6 DEF Next
<1> QED BY <1>1, <1>2, Typing, PTL DEF Spec

\* Each step of the code is one of the promise or leaves the status alone.
LEMMA PromiseStep ==
  ASSUME TypeOK, Evidence, SingleRun, PinHasRunner, PinAssigned, [Next]_vars
  PROVE  [P!PromiseNext]_(P!promiseVars)
<1> DEFINE Kept == [P!PromiseNext]_(P!promiseVars)
<1> USE DEF TypeOK, AlivePc, AwaitingPin, Exchanging, sunshineVars, Paired,
            P!promiseVars, P!UnderWay, P!Verdict
<1>0. ASSUME UNCHANGED <<pairState, overtaken, everTrusted>> PROVE Kept
  BY <1>0
<1>1. ASSUME NEW r \in Runs, NEW p \in Pins, StartPairing(r, p) PROVE Kept
  <2>1. P!Start(p)
    BY <1>1 DEF StartPairing, InProgress, P!Start
  <2> QED BY <2>1 DEF P!PromiseNext
<1>2. ASSUME NEW r \in Runs, NEW p \in Pins, UserTypesPin(r, p) PROVE Kept
  BY <1>2, <1>0 DEF UserTypesPin
<1>3. ASSUME NEW r \in Runs, RunStep(r) PROVE Kept
  <2>0. r \in Alive
    BY <1>3 DEF Alive, RunStep, RunProbeAnswered, RunProbeReturns,
                Stage1Accepted, Stage2Accepted, Stage3Verified,
                SunshineAcceptsCertificate, Stage4Accepted,
                SunshineAuthorizes, RunPairs, RunFails, Advance
  <2>1. CASE RunProbeReturns(r)
    <3>1. UNCHANGED <<overtaken, everTrusted>>
      BY <2>1 DEF RunProbeReturns
    <3>2. CASE pairState' = pairState
      BY <3>1, <3>2, <1>0
    <3>3. CASE pairState' # pairState
      <4>1. ~InProgress /\ pairState' = Paired /\ everTrusted
        BY <2>1, <3>3 DEF RunProbeReturns, ProbeStores, Advance, Evidence
      <4>2. P!Confirm
        BY <3>1, <4>1, Zenon DEF P!Confirm, InProgress
      <4> QED BY <4>2 DEF P!PromiseNext
    <3> QED BY <3>2, <3>3
  <2>2. CASE Stage1Accepted(r)
    <3>1. pairState' = [state |-> "pairing", pin |-> pin[r]] /\ pin[r] \in Pins
      BY <2>0, <2>2 DEF Stage1Accepted, PinAssigned
    <3>2. UNCHANGED <<overtaken, everTrusted>>
      BY <2>2 DEF Stage1Accepted
    <3>3. CASE overtaken
      <4>1. P!Stray
        BY <3>1, <3>2, <3>3 DEF P!Stray
      <4> QED BY <4>1 DEF P!PromiseNext
    <3>4. CASE ~overtaken
      <4>1. pairState.pin = pin[r] /\ pairState.state = "waiting_for_pin"
        BY <2>0, <2>2, <3>4 DEF SingleRun, Stage1Accepted, Advance
      <4>2. P!Exchange
        BY <3>1, <3>2, <4>1 DEF P!Exchange
      <4> QED BY <4>2 DEF P!PromiseNext
    <3> QED BY <3>3, <3>4
  <2>3. CASE RunPairs(r) \/ RunFails(r)
    <3>1. pairState' \in P!Verdicts
      BY <2>3 DEF RunPairs, RunFails, P!Verdicts, Evidence
    <3>2. overtaken' = (overtaken /\ Alive # {r}) /\ everTrusted' = everTrusted
      BY <2>3 DEF RunPairs, RunFails, Ends
    <3>3. CASE overtaken
      <4>1. overtaken' \in BOOLEAN
        BY <3>2, Zenon
      <4>2. P!Stray
        BY <3>1, <3>2, <3>3, <4>1 DEF P!Stray
      <4> QED BY <4>2 DEF P!PromiseNext
    <3>4. CASE ~overtaken
      <4>1. pin[r] \in Pins /\ pairState.pin = pin[r] /\ P!UnderWay
        BY <2>0, <3>4 DEF SingleRun, PinAssigned
      <4>2. overtaken' = FALSE
        BY <3>2, <3>4
      <4>3. P!Resolve(pin[r])
        BY <3>1, <3>2, <4>1, <4>2 DEF P!Resolve
      <4> QED BY <4>1, <4>3 DEF P!PromiseNext
    <3> QED BY <3>3, <3>4
  <2>4. CASE SunshineAcceptsCertificate(r)
    <3>1. P!UnderWay \/ overtaken
      BY <2>0 DEF SingleRun
    <3>2. P!Learn
      BY <2>4, <3>1 DEF SunshineAcceptsCertificate, P!Learn
    <3> QED BY <3>2 DEF P!PromiseNext
  <2>5. CASE RunProbeAnswered(r) \/ Stage2Accepted(r) \/ Stage3Verified(r)
             \/ Stage4Accepted(r) \/ SunshineAuthorizes(r)
    BY <2>5, <1>0 DEF RunProbeAnswered, Stage2Accepted, Stage3Verified,
                      Stage4Accepted, SunshineAuthorizes
  <2> QED BY <1>3, <2>1, <2>2, <2>3, <2>4, <2>5 DEF RunStep
<1>4. ASSUME NEW c \in Callers, CallStep(c) PROVE Kept
  <2>1. CASE CallProbeReturns(c)
    <3>1. UNCHANGED <<overtaken, everTrusted>>
      BY <2>1 DEF CallProbeReturns
    <3>2. CASE pairState' = pairState
      BY <3>1, <3>2, <1>0
    <3>3. CASE pairState' # pairState
      <4>1. ~InProgress /\ pairState' = Paired /\ everTrusted
        BY <2>1, <3>3 DEF CallProbeReturns, ProbeStores, Evidence
      <4>2. P!Confirm
        BY <3>1, <4>1, Zenon DEF P!Confirm, InProgress
      <4> QED BY <4>2 DEF P!PromiseNext
    <3> QED BY <3>2, <3>3
  <2>2. CASE CallStoresPaired(c)
    <3>1. pairState' = Paired /\ everTrusted /\ everTrusted' = everTrusted
      BY <2>2 DEF CallStoresPaired, Evidence
    <3>2. CASE overtaken
      <4>1. overtaken' = TRUE
        BY <2>2, <3>2 DEF CallStoresPaired
      <4>2. P!Stray
        BY <3>1, <3>2, <4>1 DEF P!Stray, P!Verdicts
      <4> QED BY <4>2 DEF P!PromiseNext
    <3>3. CASE ~overtaken
      <4>1. (Alive # {}) <=> P!UnderWay
        BY <3>3 DEF SingleRun, PinHasRunner, Alive
      <4>2. overtaken' = (overtaken \/ P!UnderWay)
        BY <2>2, <3>3, <4>1, Zenon DEF CallStoresPaired
      <4>3. P!Confirm
        BY <3>1, <4>2, Zenon DEF P!Confirm
      <4> QED BY <4>3 DEF P!PromiseNext
    <3> QED BY <3>2, <3>3
  <2>3. CASE CallBegins(c) \/ CallProbeAnswered(c) \/ CallAuthenticated(c)
             \/ CallFails(c)
    BY <2>3, <1>0 DEF CallBegins, CallProbeAnswered, CallAuthenticated, CallFails
  <2> QED BY <1>4, <2>1, <2>2, <2>3 DEF CallStep
<1>5. CASE SunshineForgets
  BY <1>5, <1>0 DEF SunshineForgets
<1>6. CASE UNCHANGED vars
  BY <1>6, <1>0 DEF vars
<1> QED BY <1>1, <1>2, <1>3, <1>4, <1>5, <1>6 DEF Next

\* Pairing implements the safety part of PairingPromise: what the page may
\* rely on holds for any number of runs and handlers.
THEOREM PromiseSafe == Spec => KeepsPromise
<1>1. Init => P!PromiseInit
  BY DEF Init, P!PromiseInit, P!Verdict
<1> QED BY <1>1, PromiseStep, Typing, EvidenceHolds, SingleRunSafe, PinSafe,
           PinsAssigned, PTL DEF Spec, KeepsPromise, P!PromiseSafety
-----------------------------------------------------------------------------
(* What follows for the user.                                              *)

\* The PIN on display stays the one to type while its attempt is under way,
\* unless AppList or Launch has overwritten the status of a live one.
PinStays ==
  [][InProgress /\ ~overtaken /\ InProgress' => pairState'.pin = pairState.pin]_vars

THEOREM PinStaysOnDisplay == Spec => PinStays
<1> DEFINE Stays == InProgress /\ ~overtaken /\ InProgress'
                      => pairState'.pin = pairState.pin
<1>1. TypeOK /\ [P!PromiseNext]_(P!promiseVars) => Stays
  <2> SUFFICES ASSUME TypeOK, P!PromiseNext \/ UNCHANGED P!promiseVars,
                      InProgress, ~overtaken, InProgress'
               PROVE  pairState'.pin = pairState.pin
    BY Zenon
  <2> USE DEF InProgress, P!UnderWay, P!Verdict, P!promiseVars, TypeOK
  <2>1. \A s \in P!Verdicts : s.state \notin {"waiting_for_pin", "pairing"}
    BY DEF P!Verdicts
  <2>2. ASSUME NEW p \in Pins, P!Start(p) \/ P!Resolve(p) PROVE FALSE
    BY <2>1, <2>2 DEF P!Start, P!Resolve
  <2> QED
    BY <2>2 DEF P!PromiseNext, P!Exchange, P!Confirm, P!Stray, P!Learn
<1>2. TypeOK /\ Evidence /\ SingleRun /\ PinHasRunner /\ PinAssigned /\ [Next]_vars
        => [Stays]_vars
  BY <1>1, PromiseStep
<1> QED
  BY <1>2, Typing, EvidenceHolds, SingleRunSafe, PinSafe, PinsAssigned, PTL
     DEF Spec, PinStays

\* Sunshine comes to trust the client in one way only: in stage 4 of a run
\* whose PIN the user has typed into Sunshine.
TrustIsEarned ==
  [][~trusted /\ trusted' =>
       \E r \in Runs : pc[r] = "stage4" /\ pin[r] \in Pins /\ typed[r] = pin[r]]_vars

THEOREM TrustTakesThePin == Spec => TrustIsEarned
<1> DEFINE Earned == ~trusted /\ trusted' =>
      \E r \in Runs : pc[r] = "stage4" /\ pin[r] \in Pins /\ typed[r] = pin[r]
<1>1. SecretOnlyAfterPinProof /\ PinAssigned /\ [Next]_vars => [Earned]_vars
  <2> SUFFICES ASSUME SecretOnlyAfterPinProof, PinAssigned, Next, ~trusted, trusted'
               PROVE  \E r \in Runs : /\ pc[r] = "stage4" /\ pin[r] \in Pins
                                      /\ typed[r] = pin[r]
    BY Zenon
  <2>1. ASSUME NEW r \in Runs, SunshineAcceptsCertificate(r)
        PROVE  pc[r] = "stage4" /\ pin[r] \in Pins /\ typed[r] = pin[r]
    BY <2>1 DEF SunshineAcceptsCertificate, Advance, SecretOnlyAfterPinProof,
                PinAssigned, Alive, AlivePc, Exchanging
  <2>2. \E r \in Runs : SunshineAcceptsCertificate(r)
    <3>1. ASSUME NEW r \in Runs, NEW p \in Pins,
                 StartPairing(r, p) \/ UserTypesPin(r, p)
          PROVE  UNCHANGED trusted
      BY <3>1 DEF StartPairing, UserTypesPin, sunshineVars
    <3>2. ASSUME NEW r \in Runs, RunStep(r), ~SunshineAcceptsCertificate(r)
          PROVE  UNCHANGED trusted
      BY <3>2 DEF RunStep, RunProbeAnswered, RunProbeReturns, Stage1Accepted,
         Stage2Accepted, Stage3Verified, Stage4Accepted, SunshineAuthorizes,
         RunPairs, RunFails, sunshineVars
    <3>3. ASSUME NEW c \in Callers, CallStep(c) PROVE UNCHANGED trusted
      BY <3>3 DEF CallStep, CallBegins, CallProbeAnswered, CallProbeReturns,
         CallAuthenticated, CallStoresPaired, CallFails, sunshineVars
    <3>4. CASE SunshineForgets
      BY <3>4 DEF SunshineForgets
    <3> QED
      BY <3>1, <3>2, <3>3, <3>4, Zenon DEF Next
  <2> QED
    BY <2>1, <2>2
<1> QED
  BY <1>1, SecretSafe, PinsAssigned, PTL DEF Spec, TrustIsEarned

\* How far a run has come: at most nine steps beyond its start.
Reached(where) ==
  CASE where = "probe" -> 1
    [] where \in {"probed_0", "probed_1"} -> 2
    [] where = "stage1" -> 3
    [] where = "typed" -> 4
    [] where = "stage2" -> 5
    [] where = "stage3" -> 6
    [] where = "stage4" -> 7
    [] where = "accepted" -> 8
    [] where = "stage5" -> 9
    [] where = "authorized" -> 10
    [] OTHER -> 0

\* No stage is repeated, a goroutine that has returned is not started again,
\* and one that returns leaves a verdict: with PinHasRunner, a PIN on display
\* waits for the finitely many steps of one goroutine.
RunsAdvance ==
  [][\A r \in Runs :
       /\ pc[r] = "done" => pc'[r] = "done"
       /\ pc[r] \in AlivePc /\ pc'[r] # pc[r] =>
            \/ pc'[r] \in AlivePc /\ Reached(pc'[r]) > Reached(pc[r])
            \/ pc'[r] = "done" /\ pairState'.state \in {"paired", "error"}]_vars

THEOREM RunsEnd == Spec => RunsAdvance
<1> DEFINE Moved(r) ==
      /\ pc[r] = "done" => pc'[r] = "done"
      /\ pc[r] \in AlivePc /\ pc'[r] # pc[r] =>
            \/ pc'[r] \in AlivePc /\ Reached(pc'[r]) > Reached(pc[r])
            \/ pc'[r] = "done" /\ pairState'.state \in {"paired", "error"}
<1>1. TypeOK /\ [Next]_vars => [\A r \in Runs : Moved(r)]_vars
  <2> SUFFICES ASSUME TypeOK, Next, NEW r \in Runs PROVE Moved(r)
    OBVIOUS
  <2> USE DEF TypeOK, AlivePc, AwaitingPin, Exchanging
  <2>1. ASSUME NEW q \in Runs, NEW p \in Pins, StartPairing(q, p)
        PROVE  Moved(r)
    BY <2>1 DEF StartPairing, Advance
  <2>2. ASSUME NEW q \in Runs, NEW p \in Pins, UserTypesPin(q, p)
        PROVE  Moved(r)
    BY <2>2 DEF UserTypesPin, Advance, Reached
  <2>3. ASSUME NEW q \in Runs, RunStep(q) PROVE Moved(r)
    <3>1. CASE RunPairs(q) \/ RunFails(q)
      BY <3>1 DEF RunPairs, RunFails, Ends, Paired
    <3>2. CASE RunProbeAnswered(q) \/ RunProbeReturns(q) \/ Stage1Accepted(q)
               \/ Stage2Accepted(q) \/ Stage3Verified(q)
      BY <3>2 DEF RunProbeAnswered, RunProbeReturns, Stage1Accepted,
         Stage2Accepted, Stage3Verified, Advance, Reached
    <3>3. CASE SunshineAcceptsCertificate(q) \/ Stage4Accepted(q)
               \/ SunshineAuthorizes(q)
      BY <3>3 DEF SunshineAcceptsCertificate, Stage4Accepted,
         SunshineAuthorizes, Advance, Reached
    <3> QED BY <2>3, <3>1, <3>2, <3>3 DEF RunStep
  <2>4. (\E c \in Callers : CallStep(c)) \/ SunshineForgets => UNCHANGED pc
    BY DEF CallStep, CallBegins, CallProbeAnswered, CallProbeReturns,
       CallAuthenticated, CallStoresPaired, CallFails, SunshineForgets
  <2> QED BY <2>1, <2>2, <2>3, <2>4 DEF Next
<1>2. [][\A r \in Runs : Moved(r)]_vars => RunsAdvance
  BY DEF RunsAdvance
<1> QED BY <1>1, <1>2, Typing, PTL DEF Spec
=============================================================================
