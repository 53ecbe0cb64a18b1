--------------------------- MODULE PairingPromise ---------------------------
(***************************************************************************)
(* What the pairing status promises to whoever reads it (the browser, the  *)
(* tests of the host): one attempt at a time, which displays its PIN, may  *)
(* go over to "pairing" under the same PIN, and ends in a verdict; and    *)
(* "paired" only if Sunshine has trusted the client. No goroutine, request *)
(* or handler appears here; module Pairing implements it.                  *)
(*                                                                         *)
(* The promise has one weak spot, which the code has: an authenticated     *)
(* request that succeeds during an attempt overwrites its status           *)
(* ("clash"). Until the attempts of that time have ended, they may store   *)
(* their own outcomes over whatever the status is.                         *)
(***************************************************************************)
CONSTANTS
  Pins,   \* the PINs an attempt can display
  NoPin   \* PairingStatus.PIN when it is the empty string

VARIABLES
  status,  \* what Client.PairingStatus returns
  clash,   \* a status of a live attempt has been overwritten
  known    \* Sunshine has trusted the client at some time

promiseVars == <<status, clash, known>>

UnderWay == status.state \in {"waiting_for_pin", "pairing"}
Verdict(state) == [state |-> state, pin |-> NoPin]

\* Either verdict; "paired" needs its reason.
Verdicts ==
  {Verdict("error")} \cup (IF known THEN {Verdict("paired")} ELSE {})

PromiseInit ==
  /\ status = Verdict("unpaired")
  /\ clash = FALSE
  /\ known \in BOOLEAN

\* A new attempt displays its PIN; there is none while one is under way.
Start(p) ==
  /\ ~UnderWay
  /\ status' = [state |-> "waiting_for_pin", pin |-> p]
  /\ UNCHANGED <<clash, known>>

\* Sunshine was given a PIN: the display keeps it and changes its phase.
Exchange ==
  /\ status.state = "waiting_for_pin"
  /\ status' = [status EXCEPT !.state = "pairing"]
  /\ UNCHANGED <<clash, known>>

\* The attempt that displays p ends, in either way.
Resolve(p) ==
  /\ UnderWay
  /\ status.pin = p
  /\ status' \in Verdicts
  /\ clash' \in {FALSE, clash}
  /\ UNCHANGED known

\* Probe, AppList or Launch learn that Sunshine trusts the client; the last
\* two say so even while an attempt is under way.
Confirm ==
  /\ known
  /\ status' = Verdict("paired")
  /\ clash' = (clash \/ UnderWay)
  /\ UNCHANGED known

\* The outcome of an attempt whose status was overwritten.
Stray ==
  /\ clash
  /\ \/ status' \in Verdicts
     \/ \E p \in Pins : status' = [state |-> "pairing", pin |-> p]
  /\ clash' \in BOOLEAN
  /\ UNCHANGED known

\* Sunshine trusts the client: some attempt, overwritten or not, has got there.
Learn ==
  /\ UnderWay \/ clash
  /\ known' = TRUE
  /\ UNCHANGED <<status, clash>>

PromiseNext ==
  \/ \E p \in Pins : Start(p) \/ Resolve(p)
  \/ Exchange \/ Confirm \/ Stray \/ Learn

PromiseSafety == PromiseInit /\ [][PromiseNext]_promiseVars
=============================================================================
