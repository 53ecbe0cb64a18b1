-------------------------- MODULE PairingRefinement -------------------------
(***************************************************************************)
(* The pairing code implements PairingPromise: the status is pairState,    *)
(* the goroutines and handlers behind it are hidden.                       *)
(***************************************************************************)
EXTENDS Pairing

P == INSTANCE PairingPromise
       WITH status <- pairState, clash <- overtaken, known <- everTrusted

\* Every behaviour of the goroutines and handlers is one of the promise: the
\* status starts, advances and ends its attempts one at a time, and strays
\* from that only after AppList or Launch wrote over a live one.
KeepsPromise == P!PromiseSafety
=============================================================================
