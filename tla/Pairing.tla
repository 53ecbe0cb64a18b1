------------------------------ MODULE Pairing ------------------------------
(***************************************************************************)
(* The pairing status of sunshine.Client (host/internal/sunshine): the     *)
(* field pairState, guarded by pairMu, and everything that writes it       *)
(* concurrently:                                                           *)
(*   - StartPairing, which starts a runPairing goroutine under a new PIN;  *)
(*   - each runPairing goroutine, through its five requests to Sunshine;   *)
(*   - Probe, called by every HTTP handler that talks to Sunshine;         *)
(*   - AppList and Launch, which write "paired" after an authenticated     *)
(*     (mTLS) request succeeded.                                           *)
(* A request and its answer are separate steps, so the status may change   *)
(* between the moment Sunshine answers and the moment the answer is used.  *)
(* Sunshine is external: it is modelled by the answers the code can tell   *)
(* apart, and any request can fail (connection, timeout, bad XML, status). *)
(***************************************************************************)
EXTENDS Naturals

CONSTANTS
  Runs,      \* the runPairing goroutines a behaviour can start (a bound)
  Callers,   \* the HTTP handlers that call Probe concurrently (a bound)
  Pins,      \* the PINs randomPIN can return
  NoPin      \* PairingStatus.PIN when it is the empty string

ASSUME PairingAssumption == NoPin \notin Pins

VARIABLES
  pairState,    \* Client.pairState
  pc,           \* how far each runPairing goroutine is
  pin,          \* the argument of each runPairing goroutine
  typed,        \* the PIN the user typed into Sunshine for that run
  call,         \* how far each concurrent HTTP handler is
  trusted,      \* Sunshine accepts StorPlay's client certificate
  everTrusted,  \* history: it did so at some time
  overtaken     \* history: AppList or Launch wrote over a live run's status

vars == <<pairState, pc, pin, typed, call, trusted, everTrusted, overtaken>>
sunshineVars == <<trusted, everTrusted>>

States == {"unpaired", "waiting_for_pin", "pairing", "paired", "error"}
AwaitingPin == {"probe", "probed_0", "probed_1", "stage1", "typed"}
Exchanging == {"stage2", "stage3", "stage4", "accepted", "stage5", "authorized"}
AlivePc == AwaitingPin \cup Exchanging

Alive == {r \in Runs : pc[r] \in AlivePc}
\* (mutant: only a run that waits for its PIN counts)
InProgressMut == pairState.state = "waiting_for_pin"

InProgress == pairState.state \in {"waiting_for_pin", "pairing"}
Paired == [state |-> "paired", pin |-> NoPin]

Init ==
  /\ pairState = [state |-> "unpaired", pin |-> NoPin]
  /\ pc = [r \in Runs |-> "none"]
  /\ pin = [r \in Runs |-> NoPin]
  /\ typed = [r \in Runs |-> NoPin]
  /\ call = [c \in Callers |-> "idle"]
  /\ trusted \in BOOLEAN          \* an earlier execution may have paired
  /\ everTrusted = trusted
  /\ overtaken = FALSE

-----------------------------------------------------------------------------
(* StartPairing and runPairing.                                            *)

Advance(r, from, to) ==
  /\ pc[r] = from
  /\ pc' = [pc EXCEPT ![r] = to]

\* The goroutine returns; the history flag is dropped with the last of them.
Ends(r) ==
  /\ pc' = [pc EXCEPT ![r] = "done"]
  /\ overtaken' = (overtaken /\ Alive # {r})

\* The call that starts a run. While a run is in progress StartPairing only
\* returns the current status, which changes nothing here.
StartPairing(r, p) ==
  /\ Advance(r, "none", "probe")
  /\ ~InProgress
  /\ pin' = [pin EXCEPT ![r] = p]
  /\ pairState' = [state |-> "waiting_for_pin", pin |-> p]
  /\ UNCHANGED <<typed, call, sunshineVars, overtaken>>

\* The answer of /serverinfo. PairStatus is 1 only for a client Sunshine
\* trusts, and some versions answer 0 even then.
PairStatusAnswers(status) == status \in {0, 1} /\ (status = 1 => trusted)

\* What Probe does with PairStatus under pairMu.
ProbeStores(status) ==
  pairState' = IF status = 1 /\ ~InProgress THEN Paired ELSE pairState

RunProbeAnswered(r) ==
  /\ \/ PairStatusAnswers(0) /\ Advance(r, "probe", "probed_0")
     \/ PairStatusAnswers(1) /\ Advance(r, "probe", "probed_1")
  /\ UNCHANGED <<pairState, pin, typed, call, sunshineVars, overtaken>>

RunProbeReturns(r) ==
  /\ \/ Advance(r, "probed_0", "stage1") /\ ProbeStores(0)
     \/ Advance(r, "probed_1", "stage1") /\ ProbeStores(1)
  /\ UNCHANGED <<pin, typed, call, sunshineVars, overtaken>>

\* Stage 1 is answered once the user has typed a PIN, right or wrong.
UserTypesPin(r, p) ==
  /\ Advance(r, "stage1", "typed")
  /\ typed' = [typed EXCEPT ![r] = p]
  /\ UNCHANGED <<pairState, pin, call, sunshineVars, overtaken>>

\* (mutant: the PIN leaves the display with the phase)
Stage1AcceptedMut(r) ==
  /\ Advance(r, "typed", "stage2")
  /\ pairState' = [state |-> "pairing", pin |-> NoPin]
  /\ UNCHANGED <<pin, typed, call, sunshineVars, overtaken>>

Stage1Accepted(r) ==
  /\ Advance(r, "typed", "stage2")
  /\ pairState' = [state |-> "pairing", pin |-> pin[r]]
  /\ UNCHANGED <<pin, typed, call, sunshineVars, overtaken>>

Stage2Accepted(r) ==
  /\ Advance(r, "stage2", "stage3")
  /\ UNCHANGED <<pairState, pin, typed, call, sunshineVars, overtaken>>

\* (mutant: the server's answers are not verified)
Stage3VerifiedMut(r) ==
  /\ Advance(r, "stage3", "stage4")
  /\ UNCHANGED <<pairState, pin, typed, call, sunshineVars, overtaken>>

\* The answers of stages 2 and 3 must prove that Sunshine derived its AES key
\* from the same PIN; only then does the client disclose its own secret.
Stage3Verified(r) ==
  /\ typed[r] = pin[r]
  /\ Advance(r, "stage3", "stage4")
  /\ UNCHANGED <<pairState, pin, typed, call, sunshineVars, overtaken>>

\* Sunshine stores the client certificate, whether or not its answer arrives.
SunshineAcceptsCertificate(r) ==
  /\ Advance(r, "stage4", "accepted")
  /\ trusted' = TRUE
  /\ everTrusted' = TRUE
  /\ UNCHANGED <<pairState, pin, typed, call, overtaken>>

Stage4Accepted(r) ==
  /\ Advance(r, "accepted", "stage5")
  /\ UNCHANGED <<pairState, pin, typed, call, sunshineVars, overtaken>>

\* Stage 5 goes over mTLS: Sunshine answers Paired = 1 if it trusts the
\* certificate at that time.
SunshineAuthorizes(r) ==
  /\ trusted
  /\ Advance(r, "stage5", "authorized")
  /\ UNCHANGED <<pairState, pin, typed, call, sunshineVars, overtaken>>

RunPairs(r) ==
  /\ pc[r] = "authorized"
  /\ Ends(r)
  /\ pairState' = Paired
  /\ UNCHANGED <<pin, typed, call, sunshineVars>>

\* (mutant: an error path that returns without storing the error)
RunFailsSilentMut(r) ==
  /\ pc[r] \in AlivePc
  /\ Ends(r)
  /\ UNCHANGED <<pairState, pin, typed, call, sunshineVars>>

\* Every error path of runPairing: a request failed or ran into its timeout,
\* Sunshine refused, an answer did not decode or did not verify.
RunFails(r) ==
  /\ pc[r] \in AlivePc
  /\ Ends(r)
  /\ pairState' = [state |-> "error", pin |-> NoPin]
  /\ UNCHANGED <<pin, typed, call, sunshineVars>>

RunStep(r) ==
  \/ RunProbeAnswered(r)
  \/ RunProbeReturns(r)
  \/ Stage1Accepted(r)
  \/ Stage2Accepted(r)
  \/ Stage3Verified(r)
  \/ SunshineAcceptsCertificate(r)
  \/ Stage4Accepted(r)
  \/ SunshineAuthorizes(r)
  \/ RunPairs(r)
  \/ RunFails(r)

-----------------------------------------------------------------------------
(* The other HTTP handlers. /api/sunshine/info and Cancel end after Probe; *)
(* AppList and Launch go on with an authenticated request.                 *)

CallBegins(c) ==
  /\ call[c] = "idle"
  /\ call' = [call EXCEPT ![c] = "probe"]
  /\ UNCHANGED <<pairState, pc, pin, typed, sunshineVars, overtaken>>

CallProbeAnswered(c) ==
  /\ call[c] = "probe"
  /\ \/ PairStatusAnswers(0) /\ call' = [call EXCEPT ![c] = "probed_0"]
     \/ PairStatusAnswers(1) /\ call' = [call EXCEPT ![c] = "probed_1"]
  /\ UNCHANGED <<pairState, pc, pin, typed, sunshineVars, overtaken>>

CallProbeReturns(c) ==
  /\ \/ call[c] = "probed_0" /\ ProbeStores(0)
     \/ call[c] = "probed_1" /\ ProbeStores(1)
  /\ \E next \in {"idle", "request"} : call' = [call EXCEPT ![c] = next]
  /\ UNCHANGED <<pc, pin, typed, sunshineVars, overtaken>>

\* The mTLS request succeeds only against a Sunshine that trusts the client.
CallAuthenticated(c) ==
  /\ call[c] = "request"
  /\ trusted
  /\ call' = [call EXCEPT ![c] = "authenticated"]
  /\ UNCHANGED <<pairState, pc, pin, typed, sunshineVars, overtaken>>

\* AppList and Launch store "paired" without looking at the present status.
CallStoresPaired(c) ==
  /\ call[c] = "authenticated"
  /\ call' = [call EXCEPT ![c] = "idle"]
  /\ pairState' = Paired
  /\ overtaken' = (overtaken \/ Alive # {})
  /\ UNCHANGED <<pc, pin, typed, sunshineVars>>

CallFails(c) ==
  /\ call[c] # "idle"
  /\ call' = [call EXCEPT ![c] = "idle"]
  /\ UNCHANGED <<pairState, pc, pin, typed, sunshineVars, overtaken>>

CallStep(c) ==
  \/ CallBegins(c)
  \/ CallProbeAnswered(c)
  \/ CallProbeReturns(c)
  \/ CallAuthenticated(c)
  \/ CallStoresPaired(c)
  \/ CallFails(c)

\* The user removes StorPlay from Sunshine's list of clients.
SunshineForgets ==
  /\ trusted
  /\ trusted' = FALSE
  /\ UNCHANGED <<pairState, pc, pin, typed, call, everTrusted, overtaken>>

Next ==
  \/ \E r \in Runs, p \in Pins : StartPairing(r, p) \/ UserTypesPin(r, p)
  \/ \E r \in Runs : RunStep(r)
  \/ \E c \in Callers : CallStep(c)
  \/ SunshineForgets

\* Every request of a run carries a timeout, so a run always moves on; no
\* fairness for the user, for Sunshine's side of a stage, or for callers.
Fairness == \A r \in Runs : WF_vars(RunStep(r))

Spec == Init /\ [][Next]_vars /\ Fairness

-----------------------------------------------------------------------------
(* Properties.                                                             *)

\* Each variable stays in its type; in particular pairState is always one of
\* the five states the browser knows (main.ts, PairingState).
TypeOK ==
  /\ pairState \in [state : States, pin : Pins \cup {NoPin}]
  /\ pc \in [Runs -> AlivePc \cup {"none", "done"}]
  /\ pin \in [Runs -> Pins \cup {NoPin}]
  /\ typed \in [Runs -> Pins \cup {NoPin}]
  /\ call \in [Callers -> {"idle", "probe", "probed_0", "probed_1",
                           "request", "authenticated"}]
  /\ trusted \in BOOLEAN /\ everTrusted \in BOOLEAN /\ overtaken \in BOOLEAN

\* A PIN on display is the PIN of a goroutine that is alive and at the phase
\* displayed. Were it not, StartPairing would refuse to start for ever and
\* the user would type a PIN nobody waits for.
PinHasRunner ==
  /\ pairState.state = "waiting_for_pin" =>
       \E r \in Runs : pin[r] = pairState.pin /\ pc[r] \in AwaitingPin
  /\ pairState.state = "pairing" =>
       \E r \in Runs : pin[r] = pairState.pin /\ pc[r] \in Exchanging

\* "paired" is never invented: Sunshine has trusted the client certificate at
\* some time before, however late the answer that said so was used.
PairedHasEvidence == pairState.state = "paired" => everTrusted

\* The client's pairing secret (stage 4) is only ever sent to a Sunshine that
\* was given this run's PIN.
SecretOnlyAfterPinProof ==
  \A r \in Runs :
    pc[r] \in {"stage4", "accepted", "stage5", "authorized"} => typed[r] = pin[r]

\* Unless AppList or Launch wrote "paired" over a live run, at most one
\* runPairing goroutine is alive and the status tells its PIN and its phase.
SingleRun ==
  ~overtaken =>
    \A r \in Alive :
      /\ Alive = {r}
      /\ pairState.pin = pin[r]
      /\ pairState.state =
           IF pc[r] \in AwaitingPin THEN "waiting_for_pin" ELSE "pairing"

\* "paired" is only ever left by a new StartPairing: no goroutine left over
\* from earlier, and no Probe, turns it into an error (unless overtaken).
PairedSticky ==
  [][pairState.state = "paired" /\ pairState'.state # "paired"
       => pairState'.state = "waiting_for_pin" \/ overtaken]_vars

\* A PIN does not stay on display for ever: its run ends, by one of its
\* timeouts if nothing else, and stores a verdict.
InProgressResolves ==
  \A p \in Pins : (InProgress /\ pairState.pin = p)
                    ~> ~(InProgress /\ pairState.pin = p)
=============================================================================
