---------------------------- MODULE IdentityProofs ----------------------------
(* Proofs of the invariants of Identity: for any number of processes and of   *)
(* identities, and any sequence of starts, crashes, power failures and        *)
(* pairings.                                                                  *)
EXTENDS Identity, TLAPS

\* The type invariant without its flags, which are for Zenon.
Others ==
  /\ proc \in [Processes -> {"off", "load", "generate", "persist", "write",
                             "ready", "serving"}]
  /\ mem \in [Processes -> Identities \cup {NoIdentity}]
  /\ file \in Identities \cup {Absent, Partial}
  /\ disk \in Identities \cup {Absent, Partial}
  /\ used \in SUBSET Identities
  /\ trusted \in SUBSET used

\* A process that holds an identity on its way into the file or in service
\* has it from generateIdentity, and so have the file
\* and the disk.
Known ==
  /\ file \in Identities => file \in used
  /\ disk \in Identities => disk \in used
  /\ \A p \in Processes :
       proc[p] \in {"persist", "write", "ready", "serving"} => mem[p] \in used

\* Type correctness of Identity. That Sunshine is paired with generated
\* identities only takes that processes hold no others.
THEOREM TypeCorrect == Spec => [](TypeOK /\ Known)
<1> DEFINE Flags == misread \in BOOLEAN /\ overlapped \in BOOLEAN /\ lostFile \in BOOLEAN
<1>1. Init => Flags /\ Others /\ Known
  BY IdentityAssumption DEF Init, Others, Known
<1>2. Flags /\ [Next]_vars => Flags'
  BY Zenon DEF Next, Step, vars, Starts, LoadsIdentity, FindsNoIdentity,
               GeneratesIdentity, TruncatesFile, WritesFile, Serves, Fails,
               Crashes, Pairs, WritesBack, PowerFails
<1>3. Others /\ Known /\ [Next]_vars => Others' /\ Known'
  <2> SUFFICES ASSUME Others, Known, [Next]_vars PROVE Others' /\ Known'
    OBVIOUS
  <2> USE IdentityAssumption DEF Others, Known, Goes, Gone
  <2>1. ASSUME NEW p \in Processes, Starts(p) PROVE Others' /\ Known'
    BY <2>1 DEF Starts
  <2>2. ASSUME NEW p \in Processes, Step(p) PROVE Others' /\ Known'
    <3>1. CASE LoadsIdentity(p)
      BY <3>1 DEF LoadsIdentity
    <3>2. CASE FindsNoIdentity(p)
      BY <3>2 DEF FindsNoIdentity
    <3>3. ASSUME NEW id \in Identities, GeneratesIdentity(p, id)
          PROVE  Others' /\ Known'
      BY <3>3 DEF GeneratesIdentity
    <3>4. CASE TruncatesFile(p)
      BY <3>4 DEF TruncatesFile
    <3>5. CASE WritesFile(p)
      BY <3>5 DEF WritesFile
    <3>6. CASE Serves(p)
      BY <3>6 DEF Serves
    <3>7. CASE Fails(p)
      BY <3>7 DEF Fails
    <3> QED
      BY <2>2, <3>1, <3>2, <3>3, <3>4, <3>5, <3>6, <3>7 DEF Step
  <2>3. ASSUME NEW p \in Processes, Crashes(p) PROVE Others' /\ Known'
    BY <2>3 DEF Crashes
  <2>4. ASSUME NEW p \in Processes, Pairs(p) PROVE Others' /\ Known'
    BY <2>4 DEF Pairs
  <2>5. CASE WritesBack
    BY <2>5 DEF WritesBack
  <2>6. CASE PowerFails
    BY <2>6 DEF PowerFails
  <2>7. CASE UNCHANGED vars
    BY <2>7 DEF vars
  <2> QED
    BY <2>1, <2>2, <2>3, <2>4, <2>5, <2>6, <2>7 DEF Next
<1>4. TypeOK <=> Flags /\ Others
  BY DEF TypeOK, Others
<1> QED
  BY <1>1, <1>2, <1>3, <1>4, PTL DEF Spec

\* Unless two processes were alive at the same time, there is one at most.
Alone ==
  ~overlapped => \A p, q \in Alive : p = q

\* What the file holds as the process goes on: before it looks, nothing is
\* known; once it writes, the file is not valid; then it is the one in mem.
FileFollows ==
  ~overlapped => \A p \in Processes :
    /\ proc[p] \in {"ready", "serving"} => file = mem[p]
    /\ proc[p] = "write" => file = Partial

\* Sunshine was paired with no identity but the one in the file; a process
\* that is about to replace it has met no valid file, so nothing was paired.
TrustsFile ==
  ~misread /\ ~overlapped /\ ~lostFile =>
    /\ trusted \subseteq {file}
    /\ \A p \in Processes :
         proc[p] \in {"generate", "persist", "write"} => file \notin Identities

Inv == Alone /\ FileFollows /\ TrustsFile

\* One process at a time: how each of its steps leaves the file.
LEMMA StepKeeps ==
  ASSUME TypeOK, Known, Inv, NEW p \in Processes,
         \/ Starts(p) \/ Step(p) \/ Crashes(p) \/ Pairs(p)
  PROVE  Inv'
<1> USE IdentityAssumption DEF TypeOK, Known, Inv, Alone, Alive, Goes, Gone
<1>1. ASSUME ~overlapped, proc[p] # "off"
      PROVE  \A q \in Processes : q # p => proc[q] = "off"
  BY <1>1
<1>2. CASE Starts(p)
  <2> SUFFICES ASSUME ~overlapped' PROVE Inv'
    BY DEF FileFollows, TrustsFile
  <2>1. ~overlapped /\ \A q \in Processes : proc[q] = "off"
    BY <1>2 DEF Starts
  <2> QED
    BY <1>2, <2>1 DEF Starts, FileFollows, TrustsFile
<1>3. ASSUME proc[p] # "off", overlapped' = overlapped,
             FileFollows', TrustsFile',
             \A q \in Processes : q # p => proc'[q] = proc[q]
      PROVE  Inv'
  BY <1>1, <1>3
<1>4. CASE LoadsIdentity(p)
  <2>1. FileFollows'
    BY <1>4, <1>1 DEF LoadsIdentity, FileFollows
  <2>2. TrustsFile'
    BY <1>4, <1>1 DEF LoadsIdentity, FileFollows, TrustsFile
  <2> QED
    BY <1>4, <1>3, <2>1, <2>2 DEF LoadsIdentity
<1>5. CASE FindsNoIdentity(p)
  <2>1. FileFollows'
    BY <1>5, <1>1 DEF FindsNoIdentity, FileFollows
  <2>2. TrustsFile'
    BY <1>5, <1>1 DEF FindsNoIdentity, FileFollows, TrustsFile
  <2> QED
    BY <1>5, <1>3, <2>1, <2>2 DEF FindsNoIdentity
<1>6. ASSUME NEW id \in Identities, GeneratesIdentity(p, id) PROVE Inv'
  <2>1. FileFollows'
    BY <1>6, <1>1 DEF GeneratesIdentity, FileFollows
  <2>2. TrustsFile'
    BY <1>6, <1>1 DEF GeneratesIdentity, FileFollows, TrustsFile
  <2> QED
    BY <1>6, <1>3, <2>1, <2>2 DEF GeneratesIdentity
<1>7. CASE TruncatesFile(p)
  <2>1. FileFollows'
    BY <1>7, <1>1 DEF TruncatesFile, FileFollows
  <2>2. TrustsFile'
    BY <1>7, <1>1 DEF TruncatesFile, FileFollows, TrustsFile
  <2> QED
    BY <1>7, <1>3, <2>1, <2>2 DEF TruncatesFile
<1>8. CASE WritesFile(p)
  <2>1. FileFollows'
    BY <1>8, <1>1 DEF WritesFile, FileFollows
  <2>2. TrustsFile'
    BY <1>8, <1>1 DEF WritesFile, FileFollows, TrustsFile
  <2> QED
    BY <1>8, <1>3, <2>1, <2>2 DEF WritesFile
<1>9. CASE Serves(p)
  <2>1. FileFollows'
    BY <1>9, <1>1 DEF Serves, FileFollows
  <2>2. TrustsFile'
    BY <1>9, <1>1 DEF Serves, FileFollows, TrustsFile
  <2> QED
    BY <1>9, <1>3, <2>1, <2>2 DEF Serves
<1>10. CASE Fails(p)
  <2>1. FileFollows'
    BY <1>10, <1>1 DEF Fails, FileFollows
  <2>2. TrustsFile'
    BY <1>10, <1>1 DEF Fails, FileFollows, TrustsFile
  <2> QED
    BY <1>10, <1>3, <2>1, <2>2 DEF Fails
<1>11. CASE Crashes(p)
  <2>1. FileFollows'
    BY <1>11, <1>1 DEF Crashes, FileFollows
  <2>2. TrustsFile'
    BY <1>11, <1>1 DEF Crashes, FileFollows, TrustsFile
  <2> QED
    BY <1>11, <1>3, <2>1, <2>2 DEF Crashes
<1>12. CASE Pairs(p)
  <2>1. FileFollows'
    BY <1>12, <1>1 DEF Pairs, FileFollows
  <2>2. TrustsFile'
    BY <1>12, <1>1 DEF Pairs, FileFollows, TrustsFile
  <2> QED
    BY <1>12, <1>3, <2>1, <2>2 DEF Pairs
<1> QED
  BY <1>2, <1>4, <1>5, <1>6, <1>7, <1>8, <1>9, <1>10, <1>11, <1>12 DEF Step

\* After a power failure nothing runs. A valid file is there again, unless it
\* was not on the disk; without a valid file nothing was paired.
LEMMA PowerFailsKeeps ==
  ASSUME TypeOK, Known, Inv, PowerFails
  PROVE  Inv'
<1>1. Alone' /\ FileFollows'
  BY DEF PowerFails, Alone, Alive, FileFollows
<1>2. TrustsFile'
  <2> SUFFICES ASSUME ~misread, ~overlapped, ~lostFile'
               PROVE  trusted \subseteq {disk}
    BY DEF PowerFails, TrustsFile
  <2>1. trusted \subseteq {file}
    BY DEF PowerFails, Inv, TrustsFile
  <2>2. file \in Identities => disk = file
    BY DEF PowerFails
  <2>3. trusted \subseteq Identities
    BY DEF TypeOK
  <2> QED
    BY <2>1, <2>2, <2>3
<1> QED
  BY <1>1, <1>2 DEF Inv

\* Inv holds of every sequence of starts, crashes, power failures and pairings.
LEMMA Invariance == Spec => []Inv
<1>1. Init => Inv
  BY DEF Init, Inv, Alone, Alive, FileFollows, TrustsFile
<1>2. TypeOK /\ Known /\ Inv /\ [Next]_vars => Inv'
  <2>1. CASE UNCHANGED vars
    BY <2>1 DEF vars, Inv, Alone, Alive, FileFollows, TrustsFile
  <2>2. CASE WritesBack
    BY <2>2 DEF WritesBack, Inv, Alone, Alive, FileFollows, TrustsFile
  <2> QED
    BY <2>1, <2>2, StepKeeps, PowerFailsKeeps DEF Next
<1> QED
  BY <1>1, <1>2, TypeCorrect, PTL DEF Spec

\* A process that was never beside another one serves with the identity in the
\* file, so that its successor finds it.
THEOREM ServesWhatIsStored == Spec => []ServingIsPersisted
<1>1. Inv => ServingIsPersisted
  BY DEF Inv, FileFollows, ServingIsPersisted, Serving
<1> QED
  BY <1>1, Invariance, PTL

\* A pairing survives every restart, crash and power failure, unless a valid
\* file was once not readable, two processes overlapped, or the power failed
\* before a new identity was on the disk.
THEOREM PairingSurvives == Spec => []PairedSurvivesRestart
<1>1. Inv => PairedSurvivesRestart
  BY DEF Inv, FileFollows, TrustsFile, PairedSurvivesRestart, Serving
<1> QED
  BY <1>1, Invariance, PTL
=============================================================================
