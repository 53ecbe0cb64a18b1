-------------------------- MODULE PairingPanelProofs --------------------------
(* Proofs of the invariants of PairingPanel: for any number of calls that are *)
(* under way at once, and whatever a host that keeps PairingPromise answers.  *)
EXTENDS PairingPanel, FiniteSetTheorems, TLAPS

\* The type invariant without its flags, which are for Zenon.
Others ==
  /\ status \in Statuses
  /\ at \in [Flows -> Polling \cup Refreshing \cup {"idle", "preload"}]
  /\ got \in [Flows -> Statuses \cup {Failed}]
  /\ timer \in Flows \cup {NoTimer}
  /\ [state |-> panel.state, pin |-> panel.pin] \in Statuses
  /\ panel.by \in {"page", "poll", "info", "refused"}
  /\ pairButton \in {"enabled", "load", "start", "shown", "unavailable"}

\* A refresh that asks for the apps has been told of no attempt under way.
Told ==
  \A f \in Flows : at[f] \in {"apps", "listed", "refused", "failed"} =>
    got[f] \in Statuses /\ got[f].state \notin {"waiting_for_pin", "pairing"}

\* What Render needs and what it leaves.
LEMMA Rendered ==
  ASSUME NEW s \in Statuses, NEW by \in {"page", "poll", "info", "refused"},
         Render(s, by)
  PROVE  /\ [state |-> panel'.state, pin |-> panel'.pin] \in Statuses
         /\ panel'.by = by /\ panel'.state = s.state
         /\ pairButton' = IF s.state \in {"unpaired", "error"} THEN "enabled"
                                                              ELSE "shown"
BY DEF Render, Statuses

LEMMA VerdictType ==
  \A s \in {"unpaired", "waiting_for_pin", "pairing", "paired", "error"} :
    Verdict(s) \in Statuses /\ Verdict(s).state = s
BY DEF Verdict, Statuses

\* The host keeps its status in its type.
LEMMA HostType ==
  ASSUME status \in Statuses, PromiseNext \/ UNCHANGED status
  PROVE  status' \in Statuses
<1>1. Verdicts \subseteq Statuses
  BY VerdictType DEF Verdicts
<1>2. ASSUME NEW p \in Pins, Start(p) \/ Resolve(p) PROVE status' \in Statuses
  <2>1. CASE Start(p)
    BY <2>1 DEF Start, Statuses
  <2>2. CASE Resolve(p)
    BY <1>1, <2>2 DEF Resolve
  <2> QED
    BY <1>2, <2>1, <2>2
<1>3. CASE Exchange
  BY <1>3 DEF Exchange, Statuses
<1>4. CASE Confirm
  BY <1>4, VerdictType DEF Confirm
<1>5. CASE Stray
  BY <1>1, <1>5 DEF Stray, Statuses
<1> QED
  BY <1>2, <1>3, <1>4, <1>5 DEF PromiseNext, Learn

\* Type correctness of PairingPanel.
THEOREM TypeCorrect == Spec => [](TypeOK /\ Told)
<1> DEFINE Flags ==
  /\ clash \in BOOLEAN /\ known \in BOOLEAN /\ trusted \in BOOLEAN
  /\ locked \in BOOLEAN /\ crossed \in BOOLEAN
<1>1. Init => Flags
  BY Zenon DEF Init, PromiseInit
<1>2. Flags /\ [Next]_vars => Flags'
  <2> SUFFICES ASSUME Flags, [Next]_vars PROVE Flags'
    OBVIOUS
  <2> USE DEF promiseVars, pageVars
  <2>1. ASSUME NEW f \in Flows, StartAnswered(f) PROVE Flags'
    BY <2>1, Zenon DEF StartAnswered, Start
  <2>2. ASSUME NEW f \in Flows, StartRefused(f) PROVE Flags'
    BY <2>2, Zenon DEF StartRefused
  <2>3. ASSUME NEW f \in Flows, StartReturns(f) PROVE Flags'
    BY <2>3, Zenon DEF StartReturns
  <2>4. ASSUME NEW f \in Flows, TimerFires(f) PROVE Flags'
    BY <2>4, Zenon DEF TimerFires
  <2>5. ASSUME NEW f \in Flows, PollAnswered(f) PROVE Flags'
    BY <2>5, Zenon DEF PollAnswered
  <2>6. ASSUME NEW f \in Flows, PollReturns(f) PROVE Flags'
    BY <2>6, Zenon DEF PollReturns
  <2>7. ASSUME NEW f \in Flows, PreloadReturns(f) PROVE Flags'
    BY <2>7, Zenon DEF PreloadReturns, Confirm
  <2>8. ASSUME NEW f \in Flows, InfoAnswered(f) PROVE Flags'
    BY <2>8, Zenon DEF InfoAnswered
  <2>9. ASSUME NEW f \in Flows, InfoFails(f) PROVE Flags'
    BY <2>9, Zenon DEF InfoFails, RefreshEnds
  <2>10. ASSUME NEW f \in Flows, InfoShowsAttempt(f) PROVE Flags'
    BY <2>10, Zenon DEF InfoShowsAttempt, RefreshEnds
  <2>11. ASSUME NEW f \in Flows, AsksForApps(f) PROVE Flags'
    BY <2>11, Zenon DEF AsksForApps
  <2>12. ASSUME NEW f \in Flows, AppsAnswered(f) PROVE Flags'
    BY <2>12, Zenon DEF AppsAnswered, Confirm
  <2>13. ASSUME NEW f \in Flows, AppsListed(f) PROVE Flags'
    BY <2>13, Zenon DEF AppsListed
  <2>14. ASSUME NEW f \in Flows, AppsMissing(f) PROVE Flags'
    BY <2>14, Zenon DEF AppsMissing, RefreshEnds
  <2>15. ASSUME NEW f \in Flows, SessionLoaded(f) PROVE Flags'
    BY <2>15, Zenon DEF SessionLoaded, RefreshEnds
  <2>16. ASSUME NEW f \in Flows, ClickPair(f) \/ Refresh(f) PROVE Flags'
    BY <2>16, Zenon DEF ClickPair, Refresh
  <2>17. CASE Reload
    BY <2>17, Zenon DEF Reload, Loaded
  <2>18. CASE HostStep
    BY <2>18, Zenon DEF HostStep, Start, Exchange, Confirm, Stray, Resolve
  <2>19. CASE SunshineTrusts \/ SunshineForgets
    BY <2>19, Zenon DEF SunshineTrusts, SunshineForgets, Learn
  <2>20. CASE UNCHANGED vars
    BY <2>20, Zenon DEF vars
  <2> QED
    BY <2>1, <2>2, <2>3, <2>4, <2>5, <2>6, <2>7, <2>8, <2>9, 
       <2>10, <2>11, <2>12, <2>13, <2>14, <2>15, <2>16, <2>17, <2>18, 
       <2>19, <2>20
       DEF Next, PageStep
<1>3. Init => Others /\ Told
  BY VerdictType DEF Init, PromiseInit, Others, Told, Statuses, Polling, Starting,
     Refreshing
<1>4. Others /\ Told /\ [Next]_vars => Others' /\ Told'
  <2> SUFFICES ASSUME Others, Told, [Next]_vars PROVE Others' /\ Told'
    OBVIOUS
  <2> USE VerdictType DEF Others, Told, promiseVars, pageVars, Polling, Starting,
          Refreshing, GoesOn, Forgets, StopsPoll, RefreshEnds
  <2>1. ASSUME NEW f \in Flows, StartAnswered(f) PROVE Others' /\ Told'
    BY HostType, <2>1 DEF StartAnswered, PromiseNext
  <2>2. ASSUME NEW f \in Flows, StartRefused(f) PROVE Others' /\ Told'
    BY <2>2 DEF StartRefused
  <2>3. ASSUME NEW f \in Flows, StartReturns(f) PROVE Others' /\ Told'
    BY Rendered, <2>3 DEF StartReturns
  <2>4. ASSUME NEW f \in Flows, TimerFires(f) PROVE Others' /\ Told'
    BY <2>4 DEF TimerFires
  <2>5. ASSUME NEW f \in Flows, PollAnswered(f) PROVE Others' /\ Told'
    BY <2>5 DEF PollAnswered
  <2>6. ASSUME NEW f \in Flows, PollReturns(f) PROVE Others' /\ Told'
    BY Rendered, <2>6 DEF PollReturns
  <2>7. ASSUME NEW f \in Flows, PreloadReturns(f) PROVE Others' /\ Told'
    BY HostType, <2>7 DEF PreloadReturns, PromiseNext
  <2>8. ASSUME NEW f \in Flows, InfoAnswered(f) PROVE Others' /\ Told'
    BY <2>8 DEF InfoAnswered
  <2>9. ASSUME NEW f \in Flows, InfoFails(f) PROVE Others' /\ Told'
    BY <2>9 DEF InfoFails
  <2>10. ASSUME NEW f \in Flows, InfoShowsAttempt(f) PROVE Others' /\ Told'
    BY Rendered, <2>10 DEF InfoShowsAttempt
  <2>11. ASSUME NEW f \in Flows, AsksForApps(f) PROVE Others' /\ Told'
    BY <2>11 DEF AsksForApps
  <2>12. ASSUME NEW f \in Flows, AppsAnswered(f) PROVE Others' /\ Told'
    BY HostType, <2>12 DEF AppsAnswered, PromiseNext
  <2>13. ASSUME NEW f \in Flows, AppsListed(f) PROVE Others' /\ Told'
    BY Rendered, <2>13 DEF AppsListed
  <2>14. ASSUME NEW f \in Flows, AppsMissing(f) PROVE Others' /\ Told'
    BY Rendered, <2>14 DEF AppsMissing
  <2>15. ASSUME NEW f \in Flows, SessionLoaded(f) PROVE Others' /\ Told'
    BY <2>15 DEF SessionLoaded
  <2>16. ASSUME NEW f \in Flows, ClickPair(f) \/ Refresh(f)
         PROVE  Others' /\ Told'
    BY <2>16 DEF ClickPair, Refresh
  <2>17. CASE Reload
    BY <2>17 DEF Reload, Loaded, Statuses
  <2>18. CASE HostStep
    BY HostType, <2>18 DEF HostStep, PromiseNext
  <2>19. CASE SunshineTrusts \/ SunshineForgets
    BY <2>19 DEF SunshineTrusts, SunshineForgets, Learn
  <2>20. CASE UNCHANGED vars
    BY <2>20 DEF vars
  <2> QED
    BY <2>1, <2>2, <2>3, <2>4, <2>5, <2>6, <2>7, <2>8, <2>9, 
       <2>10, <2>11, <2>12, <2>13, <2>14, <2>15, <2>16, <2>17, <2>18, 
       <2>19, <2>20
       DEF Next, PageStep
<1>5. TypeOK <=> Flags /\ Others
  BY DEF TypeOK, Others
<1> QED
  BY <1>1, <1>2, <1>3, <1>4, <1>5, PTL DEF Spec

-----------------------------------------------------------------------------
\* A page that has not rendered anything yet has a refresh that will.
Loads ==
  pairButton = "load" =>
    \E f \in Flows : at[f] \in Refreshing \ {"session"}

\* The button never stays disabled without a reason that goes away, and a PIN
\* the page put on display is polled.
LEMMA Invariance == Spec => [](Loads /\ PairReachable /\ PinShownIsPolled)
<1> DEFINE Inv == Loads /\ PairReachable /\ PinShownIsPolled
<1>1. Init => Inv
  BY DEF Init, Loads, PairReachable, PinShownIsPolled, AttemptShown, Starting,
     Refreshing
<1>2. TypeOK /\ Told /\ Inv /\ [Next]_vars => Inv'
  <2> SUFFICES ASSUME TypeOK, Told, Inv, [Next]_vars PROVE Inv'
    OBVIOUS
  <2> USE VerdictType
      DEF TypeOK, Told, Loads, PairReachable, PinShownIsPolled, AttemptShown,
          promiseVars, pageVars, Polling, Starting, Refreshing, GoesOn, StopsPoll,
          RefreshEnds
  <2>1. ASSUME NEW f \in Flows, StartAnswered(f) PROVE Inv'
    BY <2>1 DEF StartAnswered
  <2>2. ASSUME NEW f \in Flows, StartRefused(f) PROVE Inv'
    BY <2>2 DEF StartRefused
  <2>3. ASSUME NEW f \in Flows, StartReturns(f) PROVE Inv'
    BY Rendered, <2>3 DEF StartReturns
  <2>4. ASSUME NEW f \in Flows, TimerFires(f) PROVE Inv'
    BY <2>4 DEF TimerFires
  <2>5. ASSUME NEW f \in Flows, PollAnswered(f) PROVE Inv'
    BY <2>5 DEF PollAnswered
  <2>6. ASSUME NEW f \in Flows, PollReturns(f) PROVE Inv'
    BY Rendered, <2>6 DEF PollReturns
  <2>7. ASSUME NEW f \in Flows, PreloadReturns(f) PROVE Inv'
    BY <2>7 DEF PreloadReturns
  <2>8. ASSUME NEW f \in Flows, InfoAnswered(f) PROVE Inv'
    BY <2>8 DEF InfoAnswered
  <2>9. ASSUME NEW f \in Flows, InfoFails(f) PROVE Inv'
    BY <2>9 DEF InfoFails
  <2>10. ASSUME NEW f \in Flows, InfoShowsAttempt(f) PROVE Inv'
    BY Rendered, <2>10 DEF InfoShowsAttempt
  <2>11. ASSUME NEW f \in Flows, AsksForApps(f) PROVE Inv'
    BY <2>11 DEF AsksForApps
  <2>12. ASSUME NEW f \in Flows, AppsAnswered(f) PROVE Inv'
    BY <2>12 DEF AppsAnswered
  <2>13. ASSUME NEW f \in Flows, AppsListed(f) PROVE Inv'
    BY Rendered, <2>13 DEF AppsListed
  <2>14. ASSUME NEW f \in Flows, AppsMissing(f) PROVE Inv'
    BY Rendered, <2>14 DEF AppsMissing
  <2>15. ASSUME NEW f \in Flows, SessionLoaded(f) PROVE Inv'
    BY <2>15 DEF SessionLoaded
  <2>16. ASSUME NEW f \in Flows, ClickPair(f) PROVE Inv'
    BY <2>16 DEF ClickPair
  <2>17. ASSUME NEW f \in Flows, Refresh(f) PROVE Inv'
    BY <2>17 DEF Refresh
  <2>18. CASE Reload
    BY <2>18 DEF Reload, Loaded
  <2>19. CASE HostStep \/ SunshineTrusts \/ SunshineForgets \/ UNCHANGED vars
    BY <2>19 DEF HostStep, SunshineTrusts, SunshineForgets, vars
  <2> QED
    BY <2>1, <2>2, <2>3, <2>4, <2>5, <2>6, <2>7, <2>8, <2>9, 
       <2>10, <2>11, <2>12, <2>13, <2>14, <2>15, <2>16, <2>17, <2>18, 
       <2>19
       DEF Next, PageStep
<1> QED
  BY <1>1, <1>2, TypeCorrect, PTL DEF Spec

\* Pair can be clicked, is explained by the panel, or will be settled.
THEOREM PairStaysReachable == Spec => []PairReachable
BY Invariance, PTL

\* A PIN that startPairing or its poll displays is polled.
THEOREM ShownPinIsPolled == Spec => []PinShownIsPolled
BY Invariance, PTL

\* OnePoll without the cardinality.
Single ==
  ~crossed =>
    /\ \A f, g \in Flows : at[f] \in Polling /\ at[g] \in Polling => f = g
    /\ \A f \in Flows : at[f] = "timer" => timer = f

\* One call at a time starts or polls an attempt, unless Pair was clicked with
\* a request still out.
THEOREM PollsOnce == Spec => []OnePoll
<1>1. Init => Single
  BY DEF Init, Single, Polling, Starting
<1>2. TypeOK /\ Single /\ [Next]_vars => Single'
  <2> SUFFICES ASSUME TypeOK, Single, [Next]_vars PROVE Single'
    OBVIOUS
  <2> USE VerdictType
      DEF TypeOK, Single, promiseVars, pageVars, Polling, Starting, Refreshing,
          GoesOn, StopsPoll, RefreshEnds
  <2>1. ASSUME NEW f \in Flows, StartAnswered(f) PROVE Single'
    BY <2>1 DEF StartAnswered
  <2>2. ASSUME NEW f \in Flows, StartRefused(f) PROVE Single'
    BY <2>2 DEF StartRefused
  <2>3. ASSUME NEW f \in Flows, StartReturns(f) PROVE Single'
    BY <2>3 DEF StartReturns
  <2>4. ASSUME NEW f \in Flows, TimerFires(f) PROVE Single'
    BY <2>4 DEF TimerFires
  <2>5. ASSUME NEW f \in Flows, PollAnswered(f) PROVE Single'
    BY <2>5 DEF PollAnswered
  <2>6. ASSUME NEW f \in Flows, PollReturns(f) PROVE Single'
    BY <2>6 DEF PollReturns
  <2>7. ASSUME NEW f \in Flows, PreloadReturns(f) PROVE Single'
    BY <2>7 DEF PreloadReturns
  <2>8. ASSUME NEW f \in Flows, InfoAnswered(f) PROVE Single'
    BY <2>8 DEF InfoAnswered
  <2>9. ASSUME NEW f \in Flows, InfoFails(f) PROVE Single'
    BY <2>9 DEF InfoFails
  <2>10. ASSUME NEW f \in Flows, InfoShowsAttempt(f) PROVE Single'
    BY <2>10 DEF InfoShowsAttempt
  <2>11. ASSUME NEW f \in Flows, AsksForApps(f) PROVE Single'
    BY <2>11 DEF AsksForApps
  <2>12. ASSUME NEW f \in Flows, AppsAnswered(f) PROVE Single'
    BY <2>12 DEF AppsAnswered
  <2>13. ASSUME NEW f \in Flows, AppsListed(f) PROVE Single'
    BY <2>13 DEF AppsListed
  <2>14. ASSUME NEW f \in Flows, AppsMissing(f) PROVE Single'
    BY <2>14 DEF AppsMissing
  <2>15. ASSUME NEW f \in Flows, SessionLoaded(f) PROVE Single'
    BY <2>15 DEF SessionLoaded
  <2>16. ASSUME NEW f \in Flows, ClickPair(f) PROVE Single'
    BY <2>16 DEF ClickPair
  <2>17. ASSUME NEW f \in Flows, Refresh(f) PROVE Single'
    BY <2>17 DEF Refresh
  <2>18. CASE Reload
    BY <2>18 DEF Reload, Loaded
  <2>19. CASE HostStep \/ SunshineTrusts \/ SunshineForgets \/ UNCHANGED vars
    BY <2>19 DEF HostStep, SunshineTrusts, SunshineForgets, vars
  <2> QED
    BY <2>1, <2>2, <2>3, <2>4, <2>5, <2>6, <2>7, <2>8, <2>9, 
       <2>10, <2>11, <2>12, <2>13, <2>14, <2>15, <2>16, <2>17, <2>18, 
       <2>19
       DEF Next, PageStep
<1>3. Single => OnePoll
  <2> SUFFICES ASSUME Single, ~crossed PROVE OnePoll
    BY DEF OnePoll
  <2> DEFINE S == {f \in Flows : at[f] \in Polling}
  <2>1. CASE S = {}
    BY <2>1, FS_EmptySet DEF Single, OnePoll
  <2>2. CASE S # {}
    <3>1. PICK f \in Flows : f \in S
      BY <2>2
    <3>2. S = {f}
      BY <3>1 DEF Single
    <3> QED
      BY <3>2, FS_Singleton DEF Single, OnePoll
  <2> QED
    BY <2>1, <2>2
<1> QED
  BY <1>1, <1>2, <1>3, TypeCorrect, PTL DEF Spec
-----------------------------------------------------------------------------
(* What PairingPromise is worth, and what the page adds to it.             *)

\* Whoever keeps the promise says "paired" only if Sunshine has trusted the
\* client, and shows a PIN only while an attempt is under way.
PromiseInv ==
  /\ status \in Statuses
  /\ status.state = "paired" => known
  /\ ~UnderWay => status.pin = NoPin

LEMMA PromiseInvStep ==
  ASSUME PromiseInv, [PromiseNext]_promiseVars
  PROVE  PromiseInv'
<1>0. status' \in Statuses
  BY HostType DEF PromiseInv, promiseVars
<1> USE <1>0 DEF PromiseInv, UnderWay, Verdict
<1>1. \A s \in Verdicts : (s.state = "paired" => known) /\ s.pin = NoPin
  BY DEF Verdicts
<1>2. ASSUME NEW p \in Pins, Start(p) PROVE PromiseInv'
  BY <1>2 DEF Start
<1>3. ASSUME NEW p \in Pins, Resolve(p) PROVE PromiseInv'
  BY <1>1, <1>3 DEF Resolve
<1>4. CASE Exchange
  BY <1>4 DEF Exchange
<1>5. CASE Confirm
  BY <1>5 DEF Confirm
<1>6. CASE Stray
  BY <1>1, <1>6 DEF Stray
<1>7. CASE Learn
  BY <1>7 DEF Learn
<1>8. CASE UNCHANGED promiseVars
  BY <1>8 DEF promiseVars
<1> QED
  BY <1>2, <1>3, <1>4, <1>5, <1>6, <1>7, <1>8 DEF PromiseNext

THEOREM PromiseIsHonest == PromiseSafety => []PromiseInv
<1>1. PromiseInit => PromiseInv
  BY VerdictType DEF PromiseInit, PromiseInv, UnderWay, Verdict
<1> QED
  BY <1>1, PromiseInvStep, PTL DEF PromiseSafety

\* The PIN on display is the one the user has to type until the attempt ends:
\* it is not replaced while its attempt is under way, unless an authenticated
\* request has overwritten the status of a live one.
PinStays ==
  [][UnderWay /\ ~clash /\ UnderWay' => status'.pin = status.pin]_promiseVars

THEOREM PromiseKeepsPin == PromiseSafety => PinStays
<1> DEFINE Stays == UnderWay /\ ~clash /\ UnderWay' => status'.pin = status.pin
<1>1. PromiseInv /\ [PromiseNext]_promiseVars => [Stays]_promiseVars
  <2> SUFFICES ASSUME PromiseInv, PromiseNext, UnderWay, ~clash, UnderWay'
               PROVE  status'.pin = status.pin
    OBVIOUS
  <2> USE DEF UnderWay, Verdict
  <2>1. \A s \in Verdicts : s.state \notin {"waiting_for_pin", "pairing"}
    BY DEF Verdicts
  <2>2. ASSUME NEW p \in Pins, Start(p) \/ Resolve(p) PROVE FALSE
    BY <2>1, <2>2 DEF Start, Resolve
  <2> QED
    BY <2>2 DEF PromiseNext, PromiseInv, Statuses, Exchange, Confirm, Stray, Learn
<1> QED
  BY <1>1, PromiseIsHonest, PTL DEF PromiseSafety, PinStays

\* The host behind the page keeps the promise, whatever the page asks of it:
\* a page that starts, polls, refreshes and reloads is a client like any other.
THEOREM HostKeepsPromise == Spec => PromiseSafety
<1>1. Init => PromiseInit
  BY DEF Init
<1>2. [Next]_vars => [PromiseNext]_promiseVars
  <2> SUFFICES ASSUME [Next]_vars PROVE PromiseNext \/ UNCHANGED promiseVars
    OBVIOUS
  <2>1. ASSUME NEW f \in Flows, PageStep(f)
        PROVE  PromiseNext \/ UNCHANGED promiseVars
    <3>1. CASE StartAnswered(f)
      BY <3>1 DEF StartAnswered, PromiseNext
    <3>2. CASE PreloadReturns(f) \/ AppsAnswered(f)
      BY <3>2 DEF PreloadReturns, AppsAnswered, PromiseNext
    <3> QED
      BY <2>1, <3>1, <3>2 DEF PageStep, StartRefused, StartReturns, TimerFires,
         PollAnswered, PollReturns, InfoAnswered, InfoFails, InfoShowsAttempt,
         AsksForApps, AppsListed, AppsMissing, SessionLoaded
  <2>2. ASSUME NEW f \in Flows, ClickPair(f) \/ Refresh(f)
        PROVE  UNCHANGED promiseVars
    BY <2>2 DEF ClickPair, Refresh
  <2>3. CASE Reload \/ SunshineForgets
    BY <2>3 DEF Reload, SunshineForgets
  <2>4. CASE HostStep \/ SunshineTrusts
    BY <2>4 DEF HostStep, SunshineTrusts, PromiseNext
  <2>5. CASE UNCHANGED vars
    BY <2>5 DEF vars
  <2> QED
    BY <2>1, <2>2, <2>3, <2>4, <2>5 DEF Next
<1> QED
  BY <1>1, <1>2, PTL DEF Spec, PromiseSafety

\* "Paired" on the panel was earned: Sunshine had trusted the client when the
\* answer was given that says so, however old that answer is by now. (It may
\* have forgotten the client since, see PairedIsProven.)
PairedIsEarned == panel.state = "paired" => known

\* What the answers on their way to the panel say is true as well.
AnswersEarned ==
  \A f \in Flows :
    /\ got[f] # Failed /\ got[f].state = "paired" => known
    /\ at[f] = "listed" => known
    /\ at[f] \in {"apps", "listed", "refused", "failed"} => got[f] # Failed

THEOREM PanelIsHonest == Spec => []PairedIsEarned
<1> DEFINE Inv == PairedIsEarned /\ AnswersEarned
<1>1. Init => Inv
  BY DEF Init, PairedIsEarned, AnswersEarned
<1>2. TypeOK /\ Told /\ PromiseInv /\ PromiseInv' /\ Inv /\ [Next]_vars => Inv'
  <2> SUFFICES ASSUME TypeOK, Told, PromiseInv, PromiseInv', Inv, [Next]_vars
               PROVE  Inv'
    OBVIOUS
  <2>0. known => known'
    BY DEF Next, PageStep, promiseVars, pageVars, vars, HostStep, SunshineTrusts,
       SunshineForgets, Reload, Learn, Exchange, Confirm, Stray, Resolve, Start,
       StartAnswered, StartRefused, StartReturns, TimerFires, PollAnswered,
       PollReturns, PreloadReturns, InfoAnswered, InfoFails, InfoShowsAttempt,
       AsksForApps, AppsAnswered, AppsListed, AppsMissing, SessionLoaded,
       ClickPair, Refresh
  <2> USE <2>0, VerdictType
      DEF TypeOK, PairedIsEarned, AnswersEarned, PromiseInv, promiseVars, pageVars,
          Polling, Starting, Refreshing, GoesOn, StopsPoll, RefreshEnds, Forgets
  <2>1. ASSUME NEW f \in Flows, StartAnswered(f) PROVE Inv'
    BY <2>1 DEF StartAnswered, Start
  <2>2. ASSUME NEW f \in Flows, StartRefused(f) PROVE Inv'
    BY <2>2 DEF StartRefused
  <2>3. ASSUME NEW f \in Flows, StartReturns(f) PROVE Inv'
    BY Rendered, <2>3 DEF StartReturns
  <2>4. ASSUME NEW f \in Flows, TimerFires(f) PROVE Inv'
    BY <2>4 DEF TimerFires
  <2>5. ASSUME NEW f \in Flows, PollAnswered(f) PROVE Inv'
    BY <2>5 DEF PollAnswered
  <2>6. ASSUME NEW f \in Flows, PollReturns(f) PROVE Inv'
    BY Rendered, <2>6 DEF PollReturns
  <2>7. ASSUME NEW f \in Flows, PreloadReturns(f) PROVE Inv'
    BY <2>7 DEF PreloadReturns, Confirm
  <2>8. ASSUME NEW f \in Flows, InfoAnswered(f) PROVE Inv'
    BY <2>8 DEF InfoAnswered
  <2>9. ASSUME NEW f \in Flows, InfoFails(f) PROVE Inv'
    BY <2>9 DEF InfoFails
  <2>10. ASSUME NEW f \in Flows, InfoShowsAttempt(f) PROVE Inv'
    BY Rendered, <2>10 DEF InfoShowsAttempt
  <2>11. ASSUME NEW f \in Flows, AsksForApps(f) PROVE Inv'
    BY <2>11 DEF AsksForApps
  <2>12. ASSUME NEW f \in Flows, AppsAnswered(f) PROVE Inv'
    BY <2>12 DEF AppsAnswered, Confirm
  <2>13. ASSUME NEW f \in Flows, AppsListed(f) PROVE Inv'
    BY Rendered, <2>13 DEF AppsListed
  <2>14. ASSUME NEW f \in Flows, AppsMissing(f) PROVE Inv'
    <3>1. got[f] \in Statuses /\ panel'.state = got[f].state
      BY Rendered, <2>14 DEF AppsMissing, Told
    <3> QED
      BY <2>14, <3>1 DEF AppsMissing
  <2>15. ASSUME NEW f \in Flows, SessionLoaded(f) PROVE Inv'
    BY <2>15 DEF SessionLoaded
  <2>16. ASSUME NEW f \in Flows, ClickPair(f) PROVE Inv'
    BY <2>16 DEF ClickPair
  <2>17. ASSUME NEW f \in Flows, Refresh(f) PROVE Inv'
    BY <2>17 DEF Refresh
  <2>18. CASE Reload
    BY <2>18 DEF Reload, Loaded
  <2>19. CASE HostStep \/ SunshineTrusts \/ SunshineForgets \/ UNCHANGED vars
    BY <2>19 DEF HostStep, SunshineTrusts, SunshineForgets, vars
  <2> QED
    BY <2>1, <2>2, <2>3, <2>4, <2>5, <2>6, <2>7, <2>8, <2>9, <2>10, <2>11,
       <2>12, <2>13, <2>14, <2>15, <2>16, <2>17, <2>18, <2>19
       DEF Next, PageStep
<1>3. Spec => []PromiseInv
  BY HostKeepsPromise, PromiseIsHonest, PTL
<1> QED
  BY <1>1, <1>2, <1>3, TypeCorrect, PTL DEF Spec
=============================================================================
