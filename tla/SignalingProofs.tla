--------------------------- MODULE SignalingProofs ----------------------------
(* Proofs that the candidates of both sides arrive, for any number of them:   *)
(* what has been sent is either known to the receiver or still on its way     *)
(* behind the description it needs.                                           *)
EXTENDS Signaling, TLAPS

\* The type invariant without its one flag, which is for Zenon.
Others ==
  /\ start \in {"begin", "described", "offering", "reading", "ending",
                "peerClosed", "done"}
  /\ gathered \in SUBSET HostCandidates /\ sent \in SUBSET gathered
  /\ local \in SUBSET gathered /\ early \in SUBSET sent
  /\ link \in {"new", "connected", "failing", "failed", "closed"}
  /\ hostRemote \in {"none", "set", "refused"}
  /\ hostKnows \in SUBSET BrowserCandidates
  /\ browserSent \in SUBSET BrowserCandidates
  /\ toBrowser \in Seq(HostSignals) /\ toHost \in Seq(ClientSignals)
  /\ socket \in {"open", "left", "ended", "broken"}
  /\ ws \in {"open", "closed"}
  /\ page \in {"waiting", "remote", "answered", "unanswered", "refused",
             "left"}
  /\ browserKnows \in SUBSET HostCandidates

\* Type correctness of Signaling.
THEOREM TypeCorrect == Spec => []TypeOK
<1> DEFINE Flag == shown \in BOOLEAN
<1>1. Init => Flag
  BY Zenon DEF Init
<1>2. Flag /\ [Next]_vars => Flag'
  BY Zenon DEF Next, StartStep, StartFails, DescribesItself, vars, browserVars,
     ReadsLocalDescription, SendsOffer, Gathers, SendsCandidate, HostReads,
     HostTakesAnswer, HostRefusesAnswer, HostTakesCandidate, CloseStep,
     ReadFails, ClosesPeer, HangsUp, ReportsFailure, BrowserReceives,
     BrowserTakesOffer, BrowserRefusesOffer, BrowserTakesCandidate,
     BrowserRefusesCandidate, BrowserTakesError, BrowserAnswers,
     BrowserAnswerFails, BrowserSendsCandidate, BrowserLeaves, BrowserSeesClose,
     ConnectionBreaks, LinkConnects, LinkFails, Over
<1>3. Init => Others
  BY DEF Init, Others
<1>4. Others /\ [Next]_vars => Others'
  <2> SUFFICES ASSUME Others, [Next]_vars PROVE Others'
    OBVIOUS
  <2>s. Error \in HostSignals /\ Answer \in ClientSignals
    BY DEF Error, Answer, HostSignals, ClientSignals
  <2> USE <2>s DEF Others, hostVars, agentVars, browserVars, HostSends,
                   SendSignal, Receives, Reads
  <2>1. CASE StartStep \/ StartFails
    <3>1. local \in SUBSET HostCandidates => Offer(local) \in HostSignals
      BY DEF Offer, HostSignals
    <3>2. CASE SendsOffer
      BY <3>1, <3>2 DEF SendsOffer
    <3>3. CASE DescribesItself \/ ReadsLocalDescription \/ StartFails
      BY <3>3 DEF DescribesItself, ReadsLocalDescription, StartFails
    <3> QED
      BY <2>1, <3>2, <3>3 DEF StartStep
  <2>2. ASSUME NEW c \in HostCandidates, Gathers(c) \/ SendsCandidate(c)
        PROVE  Others'
    <3>1. Ice(c) \in HostSignals
      BY DEF Ice, HostSignals
    <3>2. CASE Gathers(c)
      BY <3>2 DEF Gathers
    <3>3. CASE SendsCandidate(c)
      BY <3>1, <3>3 DEF SendsCandidate
    <3> QED
      BY <2>2, <3>2, <3>3
  <2>3. CASE HostReads
    <3>1. CASE HostTakesAnswer
      BY <3>1 DEF HostTakesAnswer
    <3>2. CASE HostRefusesAnswer
      BY <3>2 DEF HostRefusesAnswer
    <3>3. ASSUME NEW c \in BrowserCandidates, HostTakesCandidate(c)
          PROVE  Others'
      BY <3>3 DEF HostTakesCandidate
    <3> QED
      BY <2>3, <3>1, <3>2, <3>3 DEF HostReads
  <2>4. CASE CloseStep \/ ReportsFailure
    <3>1. CASE ReadFails
      BY <3>1 DEF ReadFails
    <3>2. CASE ClosesPeer
      BY <3>2 DEF ClosesPeer
    <3>3. CASE HangsUp
      BY <3>3 DEF HangsUp
    <3>4. CASE ReportsFailure
      BY <3>4 DEF ReportsFailure
    <3> QED
      BY <2>4, <3>1, <3>2, <3>3, <3>4 DEF CloseStep
  <2>5. CASE BrowserReceives
    <3>1. ASSUME NEW cs \in SUBSET HostCandidates,
                 BrowserTakesOffer(cs) \/ BrowserRefusesOffer(cs)
          PROVE  Others'
      BY <3>1 DEF BrowserTakesOffer, BrowserRefusesOffer
    <3>2. ASSUME NEW c \in HostCandidates, BrowserTakesCandidate(c)
          PROVE  Others'
      BY <3>2 DEF BrowserTakesCandidate
    <3>3. ASSUME NEW c \in HostCandidates, BrowserRefusesCandidate(c)
          PROVE  Others'
      BY <3>3 DEF BrowserRefusesCandidate
    <3>4. CASE BrowserTakesError
      BY <3>4 DEF BrowserTakesError
    <3> QED
      BY <2>5, <3>1, <3>2, <3>3, <3>4 DEF BrowserReceives
  <2>6. CASE BrowserAnswers \/ BrowserAnswerFails
    BY <2>6 DEF BrowserAnswers, BrowserAnswerFails
  <2>7. ASSUME NEW c \in BrowserCandidates, BrowserSendsCandidate(c)
        PROVE  Others'
    <3>1. Ice(c) \in ClientSignals
      BY DEF Ice, ClientSignals
    <3> QED
      BY <2>7, <3>1 DEF BrowserSendsCandidate
  <2>8. CASE BrowserLeaves \/ BrowserSeesClose
    <3>0. <<>> \in Seq(HostSignals)
      OBVIOUS
    <3>1. toBrowser' \in Seq(HostSignals)
      BY <2>8, <3>0, Zenon DEF BrowserLeaves, BrowserSeesClose
    <3>2. CASE BrowserLeaves
      BY <3>1, <3>2 DEF BrowserLeaves
    <3>3. CASE BrowserSeesClose
      BY <3>1, <3>3 DEF BrowserSeesClose
    <3> QED
      BY <2>8, <3>2, <3>3
  <2>9. CASE ConnectionBreaks \/ LinkConnects \/ LinkFails
    BY <2>9 DEF ConnectionBreaks, LinkConnects, LinkFails
  <2>10. CASE UNCHANGED vars
    BY <2>10 DEF vars
  <2> QED
    BY <2>1, <2>2, <2>3, <2>4, <2>5, <2>6, <2>7, <2>8, <2>9, <2>10
       DEF Next, Over
<1>5. TypeOK <=> Flag /\ Others
  BY DEF TypeOK, Others
<1> QED
  BY <1>1, <1>2, <1>3, <1>4, <1>5, PTL DEF Spec

-----------------------------------------------------------------------------
(* Both directions follow one argument. A candidate that counts is behind   *)
(* every description on its way, or in it; and once the description has     *)
(* been taken, it is known to the receiver or still on its way.             *)

\* Candidate c is in queue q behind position i.
Behind(q, i, c) == \E j \in 1 .. Len(q) : j > i /\ q[j] = Ice(c)

Connected == socket = "open" /\ ws = "open"

\* Candidates are not lost when a message is sent ...
LEMMA BehindSent ==
  ASSUME NEW S, NEW q \in Seq(S), NEW m \in S, NEW i \in 0 .. Len(q), NEW c,
         Behind(q, i, c) \/ m = Ice(c)
  PROVE  Behind(Append(q, m), i, c)
<1>1. CASE Behind(q, i, c)
  <2>1. PICK j \in 1 .. Len(q) : j > i /\ q[j] = Ice(c)
    BY <1>1 DEF Behind
  <2>2. j \in 1 .. Len(Append(q, m)) /\ Append(q, m)[j] = Ice(c)
    BY <2>1
  <2> QED
    BY <2>1, <2>2 DEF Behind
<1>2. CASE m = Ice(c)
  <2>1. Len(q) + 1 \in 1 .. Len(Append(q, m))
        /\ Append(q, m)[Len(q) + 1] = Ice(c) /\ Len(q) + 1 > i
    BY <1>2
  <2> QED
    BY <2>1 DEF Behind
<1> QED
  BY <1>1, <1>2

\* ... and only the first one is gone when a message is taken.
LEMMA BehindTaken ==
  ASSUME NEW S, NEW q \in Seq(S), q # <<>>, NEW i \in Nat, NEW c,
         Behind(q, i + 1, c) \/ (i = 0 /\ Behind(q, 0, c) /\ Head(q) # Ice(c))
  PROVE  Behind(Tail(q), i, c)
<1>1. PICK j \in 1 .. Len(q) : j > i /\ j > 1 /\ q[j] = Ice(c) /\ j - 1 > i
  <2>1. CASE Behind(q, i + 1, c)
    BY <2>1 DEF Behind
  <2>2. CASE i = 0 /\ Behind(q, 0, c) /\ Head(q) # Ice(c)
    <3>1. PICK j \in 1 .. Len(q) : q[j] = Ice(c)
      BY <2>2 DEF Behind
    <3>2. j # 1
      BY <2>2, <3>1
    <3> QED
      BY <2>2, <3>1, <3>2
  <2> QED
    BY <2>1, <2>2
<1>2. j - 1 \in 1 .. Len(Tail(q)) /\ Tail(q)[j - 1] = Ice(c)
  BY <1>1
<1> QED
  BY <1>1, <1>2 DEF Behind

-----------------------------------------------------------------------------
(* The host's candidates.                                                   *)

\* Every candidate that counts is in the offer to come, with or behind every
\* offer on its way, and known or on its way when an offer was taken.
HostCovered ==
  /\ start = "offering" => sent \ early \subseteq local
  /\ Connected =>
       /\ \A i \in 1 .. Len(toBrowser) :
            toBrowser[i].type = "offer" =>
              \A c \in sent \ early : c \in toBrowser[i].candidates
                                      \/ Behind(toBrowser, i, c)
       /\ HasRemote =>
            \A c \in sent \ early : c \in browserKnows
                                    \/ Behind(toBrowser, 0, c)

\* The host sends a message: an offer with all candidates that count, or one
\* that may be a candidate.
LEMMA HostSendsCovered ==
  ASSUME TypeOK, HostCovered, NEW m \in HostSignals, HostSends(m),
         UNCHANGED <<socket, ws, page, browserKnows>>,
         start' = "offering" => sent' \ early' \subseteq local',
         m.type = "offer" => sent' \ early' \subseteq m.candidates,
         \A c \in sent' \ early' : c \in sent \ early \/ m = Ice(c)
  PROVE  HostCovered'
<1> USE DEF HasRemote
<1> SUFFICES ASSUME Connected PROVE HostCovered'
  BY DEF HostCovered, Connected
<1> DEFINE q == toBrowser
<1>1. toBrowser' = Append(q, m) /\ q \in Seq(HostSignals)
  BY DEF HostSends, Connected, TypeOK
<1>2. ASSUME NEW i \in 1 .. Len(toBrowser'), toBrowser'[i].type = "offer",
             NEW c \in sent' \ early'
      PROVE  c \in toBrowser'[i].candidates \/ Behind(toBrowser', i, c)
  <2>1. CASE i = Len(q) + 1
    <3>1. toBrowser'[i] = m
      BY <1>1, <2>1
    <3> QED
      BY <1>2, <3>1
  <2>2. CASE i \in 1 .. Len(q)
    <3>1. toBrowser'[i] = q[i]
      BY <1>1, <2>2
    <3>2. c \in q[i].candidates \/ Behind(q, i, c) \/ m = Ice(c)
      BY <1>2, <2>2, <3>1 DEF HostCovered
    <3>3. Behind(q, i, c) \/ m = Ice(c) => Behind(toBrowser', i, c)
      <4> HIDE DEF q
      <4> QED
        BY <1>1, <2>2, BehindSent
    <3> QED
      BY <3>1, <3>2, <3>3
  <2> QED
    BY <1>1, <1>2, <2>1, <2>2
<1>3. ASSUME HasRemote', NEW c \in sent' \ early'
      PROVE  c \in browserKnows' \/ Behind(toBrowser', 0, c)
  <2>1. c \in browserKnows \/ Behind(q, 0, c) \/ m = Ice(c)
    BY <1>3 DEF HostCovered
  <2>2. Behind(q, 0, c) \/ m = Ice(c) => Behind(toBrowser', 0, c)
    <3> HIDE DEF q
    <3> QED
      BY <1>1, BehindSent
  <2> QED
    BY <2>1, <2>2
<1> QED
  BY <1>2, <1>3 DEF HostCovered

\* The browser takes a message: an offer, whose candidates it knows then, or
\* another one, in which case it keeps what it knows.
LEMMA BrowserTakesCovered ==
  ASSUME TypeOK, HostCovered, NEW m, Receives(m),
         UNCHANGED <<socket, ws, sent, early, start, local>>,
         HasRemote' =>
           \/ m.type = "offer" /\ m.candidates \subseteq browserKnows'
           \/ /\ HasRemote
              /\ browserKnows \subseteq browserKnows'
              /\ \A c : m = Ice(c) => c \in browserKnows'
  PROVE  HostCovered'
<1> SUFFICES ASSUME Connected PROVE HostCovered'
  BY DEF HostCovered, Connected
<1> DEFINE q == toBrowser
<1>1. /\ toBrowser' = Tail(q) /\ q \in Seq(HostSignals) /\ q # <<>>
      /\ m = Head(q) /\ m = q[1] /\ 1 \in 1 .. Len(q)
  BY DEF Receives, TypeOK
<1>2. ASSUME NEW i \in 1 .. Len(toBrowser'), toBrowser'[i].type = "offer",
             NEW c \in sent' \ early'
      PROVE  c \in toBrowser'[i].candidates \/ Behind(toBrowser', i, c)
  <2>1. i + 1 \in 1 .. Len(q) /\ toBrowser'[i] = q[i + 1]
    BY <1>1
  <2>2. c \in q[i + 1].candidates \/ Behind(q, i + 1, c)
    BY <1>2, <2>1 DEF HostCovered
  <2>3. Behind(q, i + 1, c) => Behind(toBrowser', i, c)
    <3> HIDE DEF q
    <3> QED
      BY <1>1, BehindTaken
  <2> QED
    BY <2>1, <2>2, <2>3
<1>3. ASSUME HasRemote', NEW c \in sent' \ early'
      PROVE  c \in browserKnows' \/ Behind(toBrowser', 0, c)
  <2>1. CASE m.type = "offer" /\ m.candidates \subseteq browserKnows'
    <3>1. c \in m.candidates \/ Behind(q, 0 + 1, c)
      BY <1>1, <1>3, <2>1 DEF HostCovered
    <3>2. Behind(q, 0 + 1, c) => Behind(toBrowser', 0, c)
      <4> HIDE DEF q
      <4> QED
        BY <1>1, BehindTaken
    <3> QED
      BY <2>1, <3>1, <3>2
  <2>2. CASE /\ HasRemote
             /\ browserKnows \subseteq browserKnows'
             /\ \A d : m = Ice(d) => d \in browserKnows'
    <3>1. c \in browserKnows \/ Behind(q, 0, c)
      BY <1>3, <2>2 DEF HostCovered
    <3>2. m # Ice(c) /\ Behind(q, 0, c) => Behind(toBrowser', 0, c)
      <4> HIDE DEF q
      <4> QED
        BY <1>1, BehindTaken
    <3> QED
      BY <2>2, <3>1, <3>2
  <2> QED
    BY <1>3, <2>1, <2>2
<1> QED
  BY <1>2, <1>3 DEF HostCovered

\* A step that leaves the queue and everything the offer depends on alone.
HostQuiet ==
  /\ UNCHANGED <<sent, early, local, toBrowser, browserKnows>>
  /\ start' = "offering" => start = "offering"
  /\ Connected' => Connected
  /\ HasRemote' => HasRemote

LEMMA HostCoverage == Spec => []HostCovered
<1>1. Init => HostCovered
  BY DEF Init, HostCovered
<1>2. TypeOK /\ HostCovered /\ [Next]_vars => HostCovered'
  <2> SUFFICES ASSUME TypeOK, HostCovered, [Next]_vars PROVE HostCovered'
    OBVIOUS
  <2> USE DEF hostVars, agentVars, browserVars, HasRemote
  <2>q. HostQuiet => HostCovered'
    BY DEF HostQuiet, HostCovered, Connected, Behind
  <2>1. CASE StartStep
    <3>1. CASE DescribesItself
      BY <2>q, <3>1 DEF DescribesItself, HostQuiet, Connected
    <3>2. CASE ReadsLocalDescription
      BY <3>2 DEF ReadsLocalDescription, TypeOK, HostCovered, Connected, Behind
    <3>3. CASE SendsOffer
      <4>1. /\ Offer(local) \in HostSignals
            /\ Offer(local).candidates = local
        BY DEF TypeOK, Offer, HostSignals
      <4> QED
        BY <3>3, <4>1, HostSendsCovered DEF SendsOffer, HostCovered
    <3> QED
      BY <2>1, <3>1, <3>2, <3>3 DEF StartStep
  <2>2. CASE StartFails
    BY <2>2, <2>q DEF StartFails, HostQuiet, Connected
  <2>3. ASSUME NEW c \in HostCandidates, Gathers(c) PROVE HostCovered'
    BY <2>3, <2>q DEF Gathers, HostQuiet, Connected
  <2>4. ASSUME NEW c \in HostCandidates, SendsCandidate(c) PROVE HostCovered'
    <3>1. Ice(c) \in HostSignals /\ Ice(c).type # "offer"
      BY DEF Ice, HostSignals
    <3>2. \A d \in sent' \ early' : d \in sent \ early \/ Ice(c) = Ice(d)
      BY <2>4 DEF SendsCandidate
    <3>3. start' = "offering" => sent' \ early' \subseteq local'
      BY <2>4 DEF SendsCandidate, HostCovered
    <3> QED
      BY <2>4, <3>1, <3>2, <3>3, HostSendsCovered DEF SendsCandidate
  <2>5. CASE HostReads \/ ReportsFailure
    <3>1. Error \in HostSignals /\ Error.type # "offer"
      BY DEF Error, HostSignals
    <3>2. CASE HostTakesAnswer
      BY <2>q, <3>2 DEF HostTakesAnswer, HostQuiet, Connected
    <3>3. CASE HostRefusesAnswer
      BY <3>1, <3>3, HostSendsCovered DEF HostRefusesAnswer, HostCovered
    <3>4. ASSUME NEW c \in BrowserCandidates, HostTakesCandidate(c)
          PROVE  HostCovered'
      BY <2>q, <3>4 DEF HostTakesCandidate, HostQuiet, Connected
    <3>5. CASE ReportsFailure
      BY <3>1, <3>5, HostSendsCovered DEF ReportsFailure, HostCovered
    <3> QED
      BY <2>5, <3>2, <3>3, <3>4, <3>5 DEF HostReads
  <2>6. CASE CloseStep
    BY <2>6, <2>q DEF CloseStep, ReadFails, ClosesPeer, HangsUp, HostQuiet,
                      Connected
  <2>7. CASE BrowserReceives
    <3>1. ASSUME NEW cs \in SUBSET HostCandidates, BrowserTakesOffer(cs)
          PROVE  HostCovered'
      <4>1. Offer(cs).type = "offer" /\ Offer(cs).candidates = cs
        BY DEF Offer
      <4> QED
        BY <3>1, <4>1, BrowserTakesCovered DEF BrowserTakesOffer
    <3>2. ASSUME NEW cs \in SUBSET HostCandidates, BrowserRefusesOffer(cs)
          PROVE  HostCovered'
      BY <3>2, BrowserTakesCovered DEF BrowserRefusesOffer
    <3>3. ASSUME NEW c \in HostCandidates, BrowserTakesCandidate(c)
          PROVE  HostCovered'
      <4>1. \A d : Ice(c) = Ice(d) => d \in browserKnows'
        BY <3>3 DEF BrowserTakesCandidate, Ice
      <4> QED
        BY <3>3, <4>1, BrowserTakesCovered DEF BrowserTakesCandidate
    <3>4. ASSUME NEW c \in HostCandidates, BrowserRefusesCandidate(c)
          PROVE  HostCovered'
      BY <3>4, BrowserTakesCovered DEF BrowserRefusesCandidate
    <3>5. CASE BrowserTakesError
      <4>1. \A d : Error # Ice(d)
        BY DEF Error, Ice
      <4> QED
        BY <3>5, <4>1, BrowserTakesCovered DEF BrowserTakesError
    <3> QED
      BY <2>7, <3>1, <3>2, <3>3, <3>4, <3>5 DEF BrowserReceives
  <2>8. CASE BrowserAnswers \/ BrowserAnswerFails
    BY <2>8, <2>q DEF BrowserAnswers, BrowserAnswerFails, HostQuiet, Connected
  <2>9. ASSUME NEW c \in BrowserCandidates, BrowserSendsCandidate(c)
        PROVE  HostCovered'
    BY <2>9, <2>q DEF BrowserSendsCandidate, HostQuiet, Connected
  <2>10. CASE BrowserLeaves \/ BrowserSeesClose
    BY <2>10 DEF BrowserLeaves, BrowserSeesClose, HostCovered, Connected
  <2>11. CASE ConnectionBreaks \/ LinkConnects \/ LinkFails
    BY <2>11, <2>q DEF ConnectionBreaks, LinkConnects, LinkFails, HostQuiet,
                       Connected
  <2>12. CASE UNCHANGED vars
    BY <2>12, <2>q DEF vars, HostQuiet, Connected
  <2> QED
    BY <2>1, <2>2, <2>3, <2>4, <2>5, <2>6, <2>7, <2>8, <2>9, <2>10, <2>11,
       <2>12 DEF Next, Over
<1> QED
  BY <1>1, <1>2, TypeCorrect, PTL DEF Spec

\* Every host candidate that counts arrives: with the offer, or behind it.
THEOREM HostCandidatesReachBrowser == Spec => []HostCandidatesArrive
<1>1. HostCovered => HostCandidatesArrive
  BY DEF HostCovered, HostCandidatesArrive, BrowserReady, HasRemote, Connected, Behind
<1> QED
  BY <1>1, HostCoverage, PTL

-----------------------------------------------------------------------------
(* The browser's candidates.                                                *)

\* There is one offer, so that the page answers once and gathers after that.
OneOffer ==
  /\ start \in {"begin", "described", "offering"} =>
       /\ page \in {"waiting", "left"}
       /\ \A i \in 1 .. Len(toBrowser) : toBrowser[i].type # "offer"
  /\ \A i \in 1 .. Len(toBrowser) :
       toBrowser[i].type = "offer" =>
         /\ page \in {"waiting", "left"}
         /\ \A j \in 1 .. Len(toBrowser) : toBrowser[j].type = "offer" => i = j
  /\ page = "left" => ws = "closed"
  /\ page \in {"waiting", "remote"} => browserSent = {}

\* Every candidate is behind every answer on its way, and known to the host or
\* on its way when the host has taken an answer.
BrowserCovered ==
  Connected =>
    /\ \A i \in 1 .. Len(toHost) :
         toHost[i] = Answer => \A c \in browserSent : Behind(toHost, i, c)
    /\ hostRemote = "set" =>
         \A c \in browserSent : c \in hostKnows \/ Behind(toHost, 0, c)

LEMMA OfferedOnce == Spec => []OneOffer
<1>1. Init => OneOffer
  BY DEF Init, OneOffer
<1>2. TypeOK /\ OneOffer /\ [Next]_vars => OneOffer'
  <2> SUFFICES ASSUME TypeOK, OneOffer, [Next]_vars PROVE OneOffer'
    OBVIOUS
  <2> USE DEF hostVars, agentVars, browserVars
  <2>1. ASSUME NEW m \in HostSignals, HostSends(m), m.type # "offer",
               UNCHANGED <<start, page, ws, browserSent>>
        PROVE  OneOffer'
    <3>1. /\ Len(toBrowser') >= Len(toBrowser)
          /\ \A i \in 1 .. Len(toBrowser') :
               toBrowser'[i].type = "offer" =>
                 i \in 1 .. Len(toBrowser) /\ toBrowser'[i] = toBrowser[i]
      BY <2>1 DEF HostSends, TypeOK
    <3> QED
      BY <2>1, <3>1 DEF OneOffer
  <2>2. ASSUME NEW m, Receives(m), UNCHANGED <<start, ws, browserSent>>,
               page' = page \/ (m.type = "offer" /\ page' # "left")
        PROVE  OneOffer'
    <3>1. /\ 1 \in 1 .. Len(toBrowser) /\ m = toBrowser[1]
          /\ \A i \in 1 .. Len(toBrowser') :
               i + 1 \in 1 .. Len(toBrowser) /\ toBrowser'[i] = toBrowser[i + 1]
                 /\ i + 1 # 1
      BY <2>2 DEF Receives, TypeOK
    <3>2. CASE page' = page
      <4>1. ASSUME NEW i \in 1 .. Len(toBrowser'),
                   NEW j \in 1 .. Len(toBrowser'),
                   toBrowser'[i].type = "offer", toBrowser'[j].type = "offer"
            PROVE  i = j
        <5>1. /\ i + 1 \in 1 .. Len(toBrowser) /\ j + 1 \in 1 .. Len(toBrowser)
              /\ toBrowser[i + 1].type = "offer"
              /\ toBrowser[j + 1].type = "offer"
          BY <3>1, <4>1
        <5>2. i + 1 = j + 1
          BY <5>1 DEF OneOffer
        <5> QED
          BY <5>2
      <4>2. \A i \in 1 .. Len(toBrowser') :
              toBrowser'[i].type = "offer" =>
                /\ page \in {"waiting", "left"}
                /\ start \notin {"begin", "described", "offering"}
        BY <3>1 DEF OneOffer
      <4> QED
        BY <2>2, <3>2, <4>1, <4>2 DEF OneOffer
    <3>3. CASE m.type = "offer" /\ page' # "left"
      <4>1. page = "waiting" /\ start \notin {"begin", "described", "offering"}
        BY <2>2, <3>1, <3>3 DEF OneOffer, Receives
      <4>2. \A i \in 1 .. Len(toBrowser') : toBrowser'[i].type # "offer"
        BY <3>1, <3>3 DEF OneOffer
      <4> QED
        BY <2>2, <3>3, <4>1, <4>2 DEF OneOffer
    <3> QED
      BY <2>2, <3>2, <3>3
  <2>3. ASSUME UNCHANGED <<toBrowser, page, ws, browserSent>>,
               start' \in {"begin", "described", "offering"} =>
                 start \in {"begin", "described", "offering"}
        PROVE  OneOffer'
    BY <2>3 DEF OneOffer
  <2>4. CASE StartStep
    <3>1. CASE DescribesItself \/ ReadsLocalDescription
      BY <2>3, <3>1 DEF DescribesItself, ReadsLocalDescription
    <3>2. CASE SendsOffer
      <4>1. \A i \in 1 .. Len(toBrowser') :
              toBrowser'[i].type = "offer" => i = Len(toBrowser) + 1
        BY <3>2 DEF SendsOffer, HostSends, OneOffer, TypeOK
      <4>2. start = "offering" /\ start' = "reading" /\ page' = page /\ ws' = ws
            /\ browserSent' = browserSent
        BY <3>2 DEF SendsOffer
      <4> QED
        BY <4>1, <4>2 DEF OneOffer
    <3> QED
      BY <2>4, <3>1, <3>2 DEF StartStep
  <2>5. CASE StartFails \/ CloseStep
    BY <2>3, <2>5 DEF StartFails, CloseStep, ReadFails, ClosesPeer, HangsUp
  <2>6. ASSUME NEW c \in HostCandidates, Gathers(c) \/ SendsCandidate(c)
        PROVE  OneOffer'
    <3>1. Ice(c) \in HostSignals /\ Ice(c).type # "offer"
      BY DEF Ice, HostSignals
    <3> QED
      BY <2>1, <2>3, <2>6, <3>1 DEF Gathers, SendsCandidate
  <2>7. CASE HostReads \/ ReportsFailure
    <3>1. Error \in HostSignals /\ Error.type # "offer"
      BY DEF Error, HostSignals
    <3> QED
      BY <2>1, <2>3, <2>7, <3>1 DEF HostReads, HostTakesAnswer,
         HostRefusesAnswer, HostTakesCandidate, ReportsFailure
  <2>8. CASE BrowserReceives
    <3>1. ASSUME NEW cs, BrowserTakesOffer(cs) \/ BrowserRefusesOffer(cs)
          PROVE  OneOffer'
      <4>1. Offer(cs).type = "offer"
        BY DEF Offer
      <4> QED
        BY <2>2, <3>1, <4>1 DEF BrowserTakesOffer, BrowserRefusesOffer
    <3>2. ASSUME NEW c, BrowserTakesCandidate(c) \/ BrowserRefusesCandidate(c)
          PROVE  OneOffer'
      BY <2>2, <3>2 DEF BrowserTakesCandidate, BrowserRefusesCandidate
    <3>3. CASE BrowserTakesError
      BY <2>2, <3>3 DEF BrowserTakesError
    <3> QED
      BY <2>8, <3>1, <3>2, <3>3 DEF BrowserReceives
  <2>9. CASE BrowserAnswers \/ BrowserAnswerFails
    BY <2>9 DEF BrowserAnswers, BrowserAnswerFails, OneOffer
  <2>10. ASSUME NEW c \in BrowserCandidates, BrowserSendsCandidate(c)
         PROVE  OneOffer'
    BY <2>10 DEF BrowserSendsCandidate, OneOffer
  <2>11. CASE BrowserLeaves \/ BrowserSeesClose
    BY <2>11 DEF BrowserLeaves, BrowserSeesClose, OneOffer
  <2>12. CASE ConnectionBreaks \/ LinkConnects \/ LinkFails \/ UNCHANGED vars
    BY <2>3, <2>12 DEF ConnectionBreaks, LinkConnects, LinkFails, vars
  <2> QED
    BY <2>4, <2>5, <2>6, <2>7, <2>8, <2>9, <2>10, <2>11, <2>12 DEF Next, Over
<1> QED
  BY <1>1, <1>2, TypeCorrect, PTL DEF Spec

\* The browser sends its answer, with no candidate before it, or a candidate.
LEMMA BrowserSendsCovered ==
  ASSUME TypeOK, BrowserCovered, NEW m \in ClientSignals, SendSignal(m),
         UNCHANGED <<socket, ws, hostRemote, hostKnows>>,
         m = Answer => browserSent' = {},
         \A c \in browserSent' : c \in browserSent \/ m = Ice(c)
  PROVE  BrowserCovered'
<1> SUFFICES ASSUME Connected PROVE BrowserCovered'
  BY DEF BrowserCovered, Connected
<1> DEFINE q == toHost
<1>1. toHost' = Append(q, m) /\ q \in Seq(ClientSignals)
  BY DEF SendSignal, Connected, TypeOK
<1>2. ASSUME NEW i \in 0 .. Len(q), NEW c, Behind(q, i, c) \/ m = Ice(c)
      PROVE  Behind(toHost', i, c)
  <2> HIDE DEF q
  <2> QED
    BY <1>1, <1>2, BehindSent
<1>3. ASSUME NEW i \in 1 .. Len(toHost'), toHost'[i] = Answer,
             NEW c \in browserSent'
      PROVE  Behind(toHost', i, c)
  <2>1. i # Len(q) + 1
    BY <1>1, <1>3
  <2>2. i \in 1 .. Len(q) /\ q[i] = Answer
    BY <1>1, <1>3, <2>1
  <2> QED
    BY <1>2, <2>2 DEF BrowserCovered
<1>4. ASSUME hostRemote' = "set", NEW c \in browserSent'
      PROVE  c \in hostKnows' \/ Behind(toHost', 0, c)
  <2>1. c \in hostKnows \/ Behind(q, 0, c) \/ m = Ice(c)
    BY <1>4 DEF BrowserCovered
  <2>2. 0 \in 0 .. Len(q)
    BY <1>1
  <2> QED
    BY <1>2, <2>1, <2>2
<1> QED
  BY <1>3, <1>4 DEF BrowserCovered

\* The host reads a message: an answer, or another one that it adds to what it
\* knows if it is a candidate and the answer was taken.
LEMMA HostReadsCovered ==
  ASSUME TypeOK, BrowserCovered, NEW m, Reads(m),
         UNCHANGED <<socket, ws, browserSent>>,
         hostRemote' = "set" =>
           \/ m = Answer
           \/ /\ hostRemote = "set" /\ hostKnows \subseteq hostKnows'
              /\ \A c : m = Ice(c) => c \in hostKnows'
  PROVE  BrowserCovered'
<1> SUFFICES ASSUME Connected PROVE BrowserCovered'
  BY DEF BrowserCovered, Connected
<1> DEFINE q == toHost
<1>1. /\ toHost' = Tail(q) /\ q \in Seq(ClientSignals) /\ q # <<>>
      /\ m = Head(q) /\ m = q[1] /\ 1 \in 1 .. Len(q)
  BY DEF Reads, TypeOK
<1>2. ASSUME NEW i \in Nat, NEW c,
             Behind(q, i + 1, c) \/ (i = 0 /\ Behind(q, 0, c) /\ m # Ice(c))
      PROVE  Behind(toHost', i, c)
  <2> HIDE DEF q
  <2> QED
    BY <1>1, <1>2, BehindTaken
<1>3. ASSUME NEW i \in 1 .. Len(toHost'), toHost'[i] = Answer,
             NEW c \in browserSent'
      PROVE  Behind(toHost', i, c)
  <2>1. i + 1 \in 1 .. Len(q) /\ q[i + 1] = Answer
    BY <1>1, <1>3
  <2>2. Behind(q, i + 1, c)
    BY <1>3, <2>1 DEF BrowserCovered
  <2> QED
    BY <1>2, <2>2
<1>4. ASSUME hostRemote' = "set", NEW c \in browserSent'
      PROVE  c \in hostKnows' \/ Behind(toHost', 0, c)
  <2>1. CASE m = Answer
    <3>1. Behind(q, 0 + 1, c)
      BY <1>1, <1>4, <2>1 DEF BrowserCovered
    <3> QED
      BY <1>2, <3>1
  <2>2. CASE /\ hostRemote = "set" /\ hostKnows \subseteq hostKnows'
             /\ \A d : m = Ice(d) => d \in hostKnows'
    <3>1. c \in hostKnows \/ Behind(q, 0, c)
      BY <1>4, <2>2 DEF BrowserCovered
    <3> QED
      BY <1>2, <2>2, <3>1
  <2> QED
    BY <1>4, <2>1, <2>2
<1> QED
  BY <1>3, <1>4 DEF BrowserCovered

LEMMA BrowserCoverage == Spec => []BrowserCovered
<1>1. Init => BrowserCovered
  BY DEF Init, BrowserCovered
<1>2. TypeOK /\ OneOffer /\ BrowserCovered /\ [Next]_vars => BrowserCovered'
  <2> SUFFICES ASSUME TypeOK, OneOffer, BrowserCovered, [Next]_vars
               PROVE  BrowserCovered'
    OBVIOUS
  <2> USE DEF hostVars, agentVars, browserVars
  <2>q. ASSUME UNCHANGED <<toHost, hostRemote, hostKnows, browserSent>>,
               Connected' => Connected
        PROVE  BrowserCovered'
    BY <2>q DEF BrowserCovered, Behind
  <2>1. CASE StartStep \/ StartFails \/ CloseStep \/ ReportsFailure
    BY <2>q, <2>1 DEF StartStep, DescribesItself, ReadsLocalDescription,
       SendsOffer, StartFails, CloseStep, ReadFails, ClosesPeer, HangsUp,
       ReportsFailure, Connected
  <2>2. ASSUME NEW c \in HostCandidates, Gathers(c) \/ SendsCandidate(c)
        PROVE  BrowserCovered'
    BY <2>q, <2>2 DEF Gathers, SendsCandidate, Connected
  <2>3. CASE HostReads
    <3>1. CASE HostTakesAnswer
      BY <3>1, HostReadsCovered DEF HostTakesAnswer
    <3>2. CASE HostRefusesAnswer
      BY <3>2, HostReadsCovered DEF HostRefusesAnswer
    <3>3. ASSUME NEW c \in BrowserCandidates, HostTakesCandidate(c)
          PROVE  BrowserCovered'
      <4>1. hostRemote = "set" => \A d : Ice(c) = Ice(d) => d \in hostKnows'
        BY <3>3 DEF HostTakesCandidate, Ice
      <4> QED
        BY <3>3, <4>1, HostReadsCovered DEF HostTakesCandidate
    <3> QED
      BY <2>3, <3>1, <3>2, <3>3 DEF HostReads
  <2>4. CASE BrowserReceives \/ BrowserAnswerFails
    BY <2>q, <2>4 DEF BrowserReceives, BrowserAnswerFails, BrowserTakesOffer, BrowserRefusesOffer,
       BrowserTakesCandidate, BrowserRefusesCandidate, BrowserTakesError,
       Connected
  <2>5. CASE BrowserAnswers
    <3>1. Answer \in ClientSignals
      BY DEF Answer, ClientSignals
    <3>2. browserSent' = {}
      BY <2>5 DEF BrowserAnswers, OneOffer
    <3> QED
      BY <2>5, <3>1, <3>2, BrowserSendsCovered DEF BrowserAnswers
  <2>6. ASSUME NEW c \in BrowserCandidates, BrowserSendsCandidate(c)
        PROVE  BrowserCovered'
    <3>1. Ice(c) \in ClientSignals /\ Ice(c) # Answer
      BY DEF Ice, Answer, ClientSignals
    <3> QED
      BY <2>6, <3>1, BrowserSendsCovered DEF BrowserSendsCandidate
  <2>7. CASE BrowserLeaves \/ BrowserSeesClose
    BY <2>7 DEF BrowserLeaves, BrowserSeesClose, BrowserCovered, Connected
  <2>8. CASE ConnectionBreaks \/ LinkConnects \/ LinkFails \/ UNCHANGED vars
    BY <2>q, <2>8 DEF ConnectionBreaks, LinkConnects, LinkFails, vars, Connected
  <2> QED
    BY <2>1, <2>2, <2>3, <2>4, <2>5, <2>6, <2>7, <2>8 DEF Next, Over
<1> QED
  BY <1>1, <1>2, TypeCorrect, OfferedOnce, PTL DEF Spec

\* The host refuses none of the browser's candidates: each comes behind the
\* answer.
THEOREM BrowserCandidatesReachHost == Spec => []BrowserCandidatesArrive
<1>1. BrowserCovered => BrowserCandidatesArrive
  BY DEF BrowserCovered, BrowserCandidatesArrive, Connected, Behind
<1> QED
  BY <1>1, BrowserCoverage, PTL
=============================================================================
