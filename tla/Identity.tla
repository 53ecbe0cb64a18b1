------------------------------ MODULE Identity ------------------------------
(***************************************************************************)
(* The client identity (host/internal/sunshine/identity.go): a unique ID   *)
(* with a certificate and its key, which main loads or creates before the  *)
(* server starts. Sunshine trusts the certificate it was paired with, so   *)
(* a pairing lasts exactly as long as the file keeps its identity.         *)
(*                                                                         *)
(* A host process may be started at any time, also beside another one, and *)
(* may end at any time. The file is replaced in place: opened with         *)
(* truncation, then written, and nothing waits for the disk. Processes see *)
(* the file as the system holds it in memory; the disk has what the system *)
(* has written back so far, and a power failure leaves that.               *)
(***************************************************************************)
EXTENDS Naturals

CONSTANTS
  Processes,   \* host processes that may run at the same time (a bound)
  Identities,  \* the identities generateIdentity can return (a bound)
  NoIdentity,  \* a process that has none yet
  Absent,      \* there is no identity file
  Partial      \* the file does not parse

ASSUME IdentityAssumption ==
  /\ NoIdentity \notin Identities
  /\ Absent \notin Identities /\ Partial \notin Identities
  /\ Absent # Partial

VARIABLES
  proc,       \* how far each process is
  mem,        \* the identity it holds
  file,       \* sunshine-identity.json, as processes read it
  disk,       \* what is on the disk of it
  used,       \* identities that were generated
  trusted,    \* identities Sunshine was paired with
  misread,    \* history: a valid file could not be read
  overlapped, \* history: two processes were alive at the same time
  lostFile    \* history: the power failed before a valid file was on the disk

vars == <<proc, mem, file, disk, used, trusted, misread, overlapped, lostFile>>

Alive == {p \in Processes : proc[p] # "off"}
Serving == {p \in Processes : proc[p] = "serving"}

Init ==
  /\ proc = [p \in Processes |-> "off"]
  /\ mem = [p \in Processes |-> NoIdentity]
  /\ file = Absent /\ disk = Absent
  /\ used = {}
  /\ trusted = {}
  /\ misread = FALSE
  /\ overlapped = FALSE
  /\ lostFile = FALSE

Goes(p, from, to) ==
  /\ proc[p] = from
  /\ proc' = [proc EXCEPT ![p] = to]

Gone(p) ==
  /\ proc' = [proc EXCEPT ![p] = "off"]
  /\ mem' = [mem EXCEPT ![p] = NoIdentity]

-----------------------------------------------------------------------------
(* main and LoadOrCreateIdentity.                                          *)

Starts(p) ==
  /\ Goes(p, "off", "load")
  /\ overlapped' = (overlapped \/ Alive # {})
  /\ UNCHANGED <<mem, file, used, trusted, misread, disk, lostFile>>

LoadsIdentity(p) ==
  /\ file \in Identities
  /\ Goes(p, "load", "ready")
  /\ mem' = [mem EXCEPT ![p] = file]
  /\ UNCHANGED <<file, used, trusted, misread, overlapped, disk, lostFile>>

\* ReadFile, Unmarshal or parseIdentity fails. A file that could not be read
\* for the moment is treated like one that is not there.
FindsNoIdentity(p) ==
  /\ Goes(p, "load", "generate")
  /\ misread' = (misread \/ file \in Identities)
  /\ UNCHANGED <<mem, file, used, trusted, overlapped, disk, lostFile>>

GeneratesIdentity(p, id) ==
  /\ id \notin used
  /\ Goes(p, "generate", "persist")
  /\ mem' = [mem EXCEPT ![p] = id]
  /\ used' = used \cup {id}
  /\ UNCHANGED <<file, trusted, misread, overlapped, disk, lostFile>>

\* WriteFile: the file is opened and truncated ...
TruncatesFile(p) ==
  /\ Goes(p, "persist", "write")
  /\ file' = Partial
  /\ UNCHANGED <<mem, used, trusted, misread, overlapped, disk, lostFile>>

\* (mutant: the key is left out)
WritesFileMut(p) ==
  /\ Goes(p, "write", "ready")
  /\ file' = Partial
  /\ UNCHANGED <<mem, used, trusted, misread, overlapped, disk, lostFile>>

\* ... and written from its start. What another process has written since the
\* truncation may be longer and stick out behind it.
WritesFile(p) ==
  /\ Goes(p, "write", "ready")
  /\ \/ file' = mem[p]
     \/ file # Partial /\ file' = Partial
  /\ UNCHANGED <<mem, used, trusted, misread, overlapped, disk, lostFile>>

\* ListenAndServe, if no other process has the port.
Serves(p) ==
  /\ Serving = {}
  /\ Goes(p, "ready", "serving")
  /\ UNCHANGED <<mem, file, used, trusted,
                 misread, overlapped, disk, lostFile>>

\* (mutant: an error of WriteFile is not fatal)
FailsMut(p) ==
  \/ /\ Goes(p, "write", "ready")
     /\ UNCHANGED <<mem, file, used, trusted,
                    misread, overlapped, disk, lostFile>>
  \/ /\ \/ proc[p] \in {"load", "generate", "persist"}
        \/ proc[p] = "ready" /\ Serving # {}
     /\ Gone(p)
     /\ UNCHANGED <<file, used, trusted, misread, overlapped, disk, lostFile>>

\* log.Fatal: no configuration directory, no identity generated, the file not
\* opened or not written, or the port taken.
Fails(p) ==
  /\ \/ proc[p] \in {"load", "generate", "persist", "write"}
     \/ proc[p] = "ready" /\ Serving # {}
  /\ Gone(p)
  /\ UNCHANGED <<file, used, trusted, misread, overlapped, disk, lostFile>>

\* The process is killed or crashes. What it wrote stays in the file.
Crashes(p) ==
  /\ proc[p] # "off"
  /\ Gone(p)
  /\ UNCHANGED <<file, used, trusted, misread, overlapped, disk, lostFile>>

\* The system writes the file back: its length and its contents may reach the
\* disk at different times.
WritesBack ==
  /\ disk # file
  /\ disk' \in {file, Partial}
  /\ UNCHANGED <<proc, mem, file, used, trusted,
                 misread, overlapped, lostFile>>

\* The PC goes down: all processes are gone, and so is what WriteFile, which
\* does not sync, had not got onto the disk.
PowerFails ==
  /\ proc' = [p \in Processes |-> "off"]
  /\ mem' = [p \in Processes |-> NoIdentity]
  /\ file' = disk
  /\ lostFile' = (lostFile \/ (file \in Identities /\ disk # file))
  /\ UNCHANGED <<disk, used, trusted, misread, overlapped>>

\* A pairing run of the serving process succeeds (module Pairing).
Pairs(p) ==
  /\ proc[p] = "serving"
  /\ trusted' = trusted \cup {mem[p]}
  /\ UNCHANGED <<proc, mem, file, used, misread, overlapped, disk, lostFile>>

Step(p) ==
  \/ LoadsIdentity(p)
  \/ FindsNoIdentity(p)
  \/ \E id \in Identities : GeneratesIdentity(p, id)
  \/ TruncatesFile(p)
  \/ WritesFile(p)
  \/ Serves(p)
  \/ Fails(p)

Next ==
  \/ \E p \in Processes : Starts(p) \/ Step(p) \/ Crashes(p) \/ Pairs(p)
  \/ WritesBack
  \/ PowerFails

Spec == Init /\ [][Next]_vars

-----------------------------------------------------------------------------
(* Properties.                                                             *)

\* Each variable stays in its type.
TypeOK ==
  /\ proc \in [Processes -> {"off", "load", "generate", "persist", "write",
                             "ready", "serving"}]
  /\ mem \in [Processes -> Identities \cup {NoIdentity}]
  /\ file \in Identities \cup {Absent, Partial}
  /\ disk \in Identities \cup {Absent, Partial}
  /\ used \in SUBSET Identities
  /\ trusted \in SUBSET used
  /\ misread \in BOOLEAN /\ overlapped \in BOOLEAN /\ lostFile \in BOOLEAN

\* The identity a process serves with is the one in the file, however it came
\* to it and wherever its predecessors crashed or the power failed, unless
\* another process ran beside it: the next start will find it again, if the
\* disk has it by then.
ServingIsPersisted ==
  ~overlapped => \A p \in Serving : file = mem[p]

\* A pairing survives restarts, crashes and power failures, those in the middle
\* of a write included: a process serves with the only identity Sunshine was
\* ever paired with. This takes that the file could always be read, that no two
\* processes overlapped, and that no power failure came between the writing of
\* an identity and its way to the disk, for which the code does not wait: a
\* pairing made in that time would be lost.
PairedSurvivesRestart ==
  ~misread /\ ~overlapped /\ ~lostFile =>
    \A p \in Serving : trusted \subseteq {mem[p]}
=============================================================================
