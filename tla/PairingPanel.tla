---------------------------- MODULE PairingPanel ----------------------------
(***************************************************************************)
(* The pairing panel of the page (web/src/main.ts) in front of a host that *)
(* keeps PairingPromise: the status the page asks for is the abstract one, *)
(* which module Pairing implements.                                        *)
(*                                                                         *)
(* startPairing, pollPairing and refreshSunshine are asynchronous: each    *)
(* call, with what it awaits, is a "flow" of its own. A flow that starts   *)
(* an attempt goes on as the poll of it, and a poll that learns of success *)
(* as a refresh. A request is one step of the host, and the answer's use   *)
(* another one of the page; in between everything else may happen. The     *)
(* page may be reloaded at any time, and what it had asked the host for,   *)
(* like the requests of another page, is then a step of the host's own.    *)
(***************************************************************************)
EXTENDS PairingPromise, Naturals, FiniteSets

CONSTANTS
  Flows,    \* the calls that can be under way at once (a bound)
  MaxRefreshes,  \* the refreshes begun beside others (a bound)
  NoTimer,  \* pairingTimer when it is null
  Failed    \* in the place of an answer: the request failed

VARIABLES
  at,          \* how far each flow is
  got,         \* the answer it has received
  timer,       \* pairingTimer: the flow whose timer it names
  panel,       \* what renderPairingState rendered last; by: a history of why
  pairButton,  \* "enabled", or why sunshinePair is disabled
  locked,      \* sunshineRefresh.disabled
  trusted,     \* Sunshine accepts StorPlay's client certificate
  crossed      \* history: Pair was clicked while a call was still out

pageVars == <<at, got, timer, panel, pairButton, locked, crossed>>
vars == <<promiseVars, pageVars, trusted>>

Starting == {"start", "started"}
Polling == Starting \cup {"timer", "fetch", "polled"}
Refreshing == {"info", "told", "apps", "listed", "refused", "failed", "session"}

\* The page has just been loaded: it refreshes.
Loaded(f) ==
  /\ at' = [g \in Flows |-> IF g = f THEN "info" ELSE "idle"]
  /\ got' = [g \in Flows |-> Failed]
  /\ timer' = NoTimer
  /\ panel' = [state |-> "unpaired", pin |-> NoPin, by |-> "page"]
  /\ pairButton' = "load"
  /\ locked' = TRUE
  /\ crossed' = FALSE

Init ==
  /\ PromiseInit
  /\ trusted = known
  /\ \E f \in Flows : at = [g \in Flows |-> IF g = f THEN "info" ELSE "idle"]
  /\ got = [g \in Flows |-> Failed]
  /\ timer = NoTimer
  /\ panel = [state |-> "unpaired", pin |-> NoPin, by |-> "page"]
  /\ pairButton = "load"
  /\ locked = TRUE
  /\ crossed = FALSE

Reload == \E f \in Flows : Loaded(f) /\ UNCHANGED <<promiseVars, trusted>>

\* renderPairingState.
Render(s, by) ==
  /\ panel' = [state |-> s.state, pin |-> s.pin, by |-> by]
  /\ pairButton' = IF s.state \in {"unpaired", "error"} THEN "enabled"
                                                        ELSE "shown"

\* Flow f goes to where, after stopPairingPoll: the timer that pairingTimer
\* names is cleared if it has not fired yet.
StopsPoll(f, where) ==
  /\ timer' = NoTimer
  /\ at' = [g \in Flows |-> IF g = f THEN where
                            ELSE IF g = timer /\ at[g] = "timer" THEN "idle"
                            ELSE at[g]]

GoesOn(f, where) == at' = [at EXCEPT ![f] = where]

\* The answer has been used.
Forgets(f) == got' = [got EXCEPT ![f] = Failed]

-----------------------------------------------------------------------------
(* startPairing.                                                           *)

\* (mutant: the old poll is not stopped)
ClickPairMut(f) ==
  /\ pairButton = "enabled"
  /\ at[f] = "idle"
  /\ GoesOn(f, "start")
  /\ pairButton' = "start"
  /\ crossed' = (crossed \/ \E g \in Flows : at[g] \in Polling \ {"timer"})
  /\ UNCHANGED <<promiseVars, got, timer, panel, locked, trusted>>

ClickPair(f) ==
  /\ pairButton = "enabled"
  /\ at[f] = "idle"
  /\ StopsPoll(f, "start")
  /\ pairButton' = "start"
  /\ crossed' = (crossed \/ \E g \in Flows : at[g] \in Polling \ {"timer"})
  /\ UNCHANGED <<promiseVars, got, panel, locked, trusted>>

\* POST /api/sunshine/pair/start; its answer may get lost.
StartAnswered(f) ==
  /\ at[f] = "start"
  /\ \/ UnderWay /\ UNCHANGED promiseVars
     \/ \E p \in Pins : Start(p)
  /\ \E answer \in {status', Failed} : got' = [got EXCEPT ![f] = answer]
  /\ GoesOn(f, "started")
  /\ UNCHANGED <<timer, panel, pairButton, locked, crossed, trusted>>

StartRefused(f) ==
  /\ at[f] = "start"
  /\ got' = [got EXCEPT ![f] = Failed]
  /\ GoesOn(f, "started")
  /\ UNCHANGED <<promiseVars, timer, panel, pairButton, locked, crossed, trusted>>

\* (mutant: a failed start leaves the button as it is)
StartReturnsMut(f) ==
  /\ at[f] = "started"
  /\ IF got[f] = Failed
     THEN /\ UNCHANGED <<panel, pairButton, timer>>
          /\ GoesOn(f, "idle")
     ELSE /\ Render(got[f], "poll")
          /\ GoesOn(f, "timer")
          /\ timer' = f
  /\ crossed' = (crossed /\ \E g \in Flows : at'[g] \in Polling)
  /\ Forgets(f)
  /\ UNCHANGED <<promiseVars, locked, trusted>>

StartReturns(f) ==
  /\ at[f] = "started"
  /\ IF got[f] = Failed
     THEN /\ Render(Verdict("error"), "poll")
          /\ GoesOn(f, "idle")
          /\ UNCHANGED timer
     ELSE /\ Render(got[f], "poll")
          /\ GoesOn(f, "timer")
          /\ timer' = f
  /\ crossed' = (crossed /\ \E g \in Flows : at'[g] \in Polling)
  /\ Forgets(f)
  /\ UNCHANGED <<promiseVars, locked, trusted>>

-----------------------------------------------------------------------------
(* pollPairing.                                                            *)

TimerFires(f) ==
  /\ at[f] = "timer"
  /\ GoesOn(f, "fetch")
  /\ UNCHANGED <<promiseVars, got, timer, panel, pairButton, locked, crossed, trusted>>

PollAnswered(f) ==
  /\ at[f] = "fetch"
  /\ \E answer \in {status, Failed} : got' = [got EXCEPT ![f] = answer]
  /\ GoesOn(f, "polled")
  /\ UNCHANGED <<promiseVars, timer, panel, pairButton, locked, crossed, trusted>>

\* (mutant: polling ends as soon as Sunshine has a PIN)
PollReturnsMut(f) ==
  /\ at[f] = "polled"
  /\ LET s == IF got[f] = Failed THEN Verdict("error") ELSE got[f]
     IN  /\ Render(s, "poll")
         /\ CASE s.state = "paired" -> StopsPoll(f, "preload")
              [] s.state \in {"error", "pairing"} -> StopsPoll(f, "idle")
              [] OTHER -> GoesOn(f, "timer") /\ timer' = f
  /\ crossed' = (crossed /\ \E g \in Flows : at'[g] \in Polling)
  /\ Forgets(f)
  /\ UNCHANGED <<promiseVars, locked, trusted>>

\* The rest of tick. Its stopPairingPoll clears whatever timer pairingTimer
\* names by now; its own has fired.
PollReturns(f) ==
  /\ at[f] = "polled"
  /\ LET s == IF got[f] = Failed THEN Verdict("error") ELSE got[f]
     IN  /\ Render(s, "poll")
         /\ CASE s.state = "paired" -> StopsPoll(f, "preload")
              [] s.state = "error" -> StopsPoll(f, "idle")
              [] OTHER -> GoesOn(f, "timer") /\ timer' = f
  /\ crossed' = (crossed /\ \E g \in Flows : at'[g] \in Polling)
  /\ Forgets(f)
  /\ UNCHANGED <<promiseVars, locked, trusted>>

\* loadApps, awaited by the tick: AppList stores "paired" if it succeeds, and
\* the refresh follows in either case.
PreloadReturns(f) ==
  /\ at[f] = "preload"
  /\ GoesOn(f, "info")
  /\ locked' = TRUE
  /\ (trusted /\ Confirm) \/ UNCHANGED promiseVars
  /\ UNCHANGED <<got, timer, panel, pairButton, crossed, trusted>>

-----------------------------------------------------------------------------
(* refreshSunshine.                                                        *)

\* The Refresh button; and launchApp and cancelLaunch, which refresh whether
\* or not the button is disabled.
Refresh(f) ==
  /\ at[f] = "idle"
  /\ Cardinality({g \in Flows : at[g] \in Refreshing}) < MaxRefreshes
  /\ GoesOn(f, "info")
  /\ locked' = TRUE
  /\ UNCHANGED <<promiseVars, got, timer, panel, pairButton, crossed, trusted>>

\* GET /api/sunshine/info (Probe's own store is a step of the host).
InfoAnswered(f) ==
  /\ at[f] = "info"
  /\ \E answer \in {status, Failed} : got' = [got EXCEPT ![f] = answer]
  /\ GoesOn(f, "told")
  /\ UNCHANGED <<promiseVars, timer, panel, pairButton, locked, crossed, trusted>>

\* Every exit of refreshSunshine passes its finally.
RefreshEnds(f) == GoesOn(f, "idle") /\ locked' = FALSE

InfoFails(f) ==
  /\ at[f] = "told"
  /\ got[f] = Failed
  /\ pairButton' = "unavailable"
  /\ RefreshEnds(f)
  /\ Forgets(f)
  /\ UNCHANGED <<promiseVars, timer, panel, crossed, trusted>>

\* An attempt under way is rendered, and nothing polls it.
InfoShowsAttempt(f) ==
  /\ at[f] = "told"
  /\ got[f] # Failed
  /\ got[f].state \in {"waiting_for_pin", "pairing"}
  /\ Render(got[f], "info")
  /\ RefreshEnds(f)
  /\ Forgets(f)
  /\ UNCHANGED <<promiseVars, timer, crossed, trusted>>

AsksForApps(f) ==
  /\ at[f] = "told"
  /\ got[f] # Failed
  /\ got[f].state \notin {"waiting_for_pin", "pairing"}
  /\ GoesOn(f, "apps")
  /\ UNCHANGED <<promiseVars, got, timer, panel, pairButton, locked, crossed, trusted>>

\* GET /api/sunshine/apps: AppList succeeds if Sunshine accepts the client,
\* is refused if it does not, and may fail for other reasons.
AppsAnswered(f) ==
  /\ at[f] = "apps"
  /\ \/ trusted /\ Confirm /\ GoesOn(f, "listed")
     \/ ~trusted /\ UNCHANGED promiseVars /\ GoesOn(f, "refused")
     \/ UNCHANGED promiseVars /\ GoesOn(f, "failed")
  /\ UNCHANGED <<got, timer, panel, pairButton, locked, crossed, trusted>>

\* With the list, the panel shows "paired" and the active session is loaded.
AppsListed(f) ==
  /\ at[f] = "listed"
  /\ Render(Verdict("paired"), "page")
  /\ GoesOn(f, "session")
  /\ Forgets(f)
  /\ UNCHANGED <<promiseVars, timer, locked, crossed, trusted>>

\* Without it, the status /info had told before.
AppsMissing(f) ==
  /\ at[f] \in {"refused", "failed"}
  /\ Render(got[f], IF at[f] = "refused" THEN "refused" ELSE "page")
  /\ RefreshEnds(f)
  /\ Forgets(f)
  /\ UNCHANGED <<promiseVars, timer, crossed, trusted>>

SessionLoaded(f) ==
  /\ at[f] = "session"
  /\ RefreshEnds(f)
  /\ UNCHANGED <<promiseVars, got, timer, panel, pairButton, crossed, trusted>>

-----------------------------------------------------------------------------
(* The host and Sunshine on their own.                                     *)

\* Runs go on. A start or an app list reaches it whose page was reloaded in
\* between, or that another page has sent.
HostStep ==
  /\ Exchange \/ Confirm \/ Stray \/ (\E p \in Pins : Start(p) \/ Resolve(p))
  /\ UNCHANGED <<pageVars, trusted>>

\* An attempt has got as far as stage 4.
SunshineTrusts ==
  /\ Learn
  /\ trusted' = TRUE
  /\ UNCHANGED pageVars

\* The user removes StorPlay from Sunshine's clients.
SunshineForgets ==
  /\ trusted
  /\ trusted' = FALSE
  /\ UNCHANGED <<promiseVars, pageVars>>

PageStep(f) ==
  \/ StartAnswered(f) \/ StartRefused(f) \/ StartReturns(f)
  \/ TimerFires(f) \/ PollAnswered(f) \/ PollReturns(f) \/ PreloadReturns(f)
  \/ InfoAnswered(f) \/ InfoFails(f) \/ InfoShowsAttempt(f) \/ AsksForApps(f)
  \/ AppsAnswered(f) \/ AppsListed(f) \/ AppsMissing(f) \/ SessionLoaded(f)

Next ==
  \/ \E f \in Flows : PageStep(f) \/ ClickPair(f) \/ Refresh(f)
  \/ Reload \/ HostStep \/ SunshineTrusts \/ SunshineForgets

\* Timers fire, and a request is answered or fails: every handler it reaches
\* has a deadline. Neither the user nor the host's attempts owe anything.
Fairness == \A f \in Flows : WF_vars(PageStep(f))

Spec == Init /\ [][Next]_vars /\ Fairness

-----------------------------------------------------------------------------
(* Properties.                                                             *)

Statuses ==
  [state : {"unpaired", "waiting_for_pin", "pairing", "paired", "error"},
   pin : Pins \cup {NoPin}]

\* Each variable stays in its type.
TypeOK ==
  /\ status \in Statuses
  /\ clash \in BOOLEAN /\ known \in BOOLEAN /\ trusted \in BOOLEAN
  /\ at \in [Flows -> Polling \cup Refreshing \cup {"idle", "preload"}]
  /\ got \in [Flows -> Statuses \cup {Failed}]
  /\ timer \in Flows \cup {NoTimer}
  /\ [state |-> panel.state, pin |-> panel.pin] \in Statuses
  /\ panel.by \in {"page", "poll", "info", "refused"}
  /\ pairButton \in {"enabled", "load", "start", "shown", "unavailable"}
  /\ locked \in BOOLEAN /\ crossed \in BOOLEAN

AttemptShown == panel.state \in {"waiting_for_pin", "pairing"}

\* A PIN that startPairing or its poll put on the panel is being polled: some
\* tick will take it down, whatever stopped which timer meanwhile. (A PIN put
\* there by a refresh is not, see InfoShowsAttempt.)
PinShownIsPolled ==
  AttemptShown /\ panel.by # "info" =>
    \E f \in Flows : at[f] \in {"timer", "fetch", "polled"}

\* One call at a time starts or polls an attempt, and its timer is the one
\* that pairingTimer names, unless Pair was clicked while another one's
\* request was out.
OnePoll ==
  ~crossed =>
    /\ Cardinality({f \in Flows : at[f] \in Polling}) <= 1
    /\ \A f \in Flows : at[f] = "timer" => timer = f

\* Pair is never lost: it can be clicked, or the panel shows why not, or a
\* call under way will settle it, or Refresh can be clicked.
PairReachable ==
  /\ pairButton = "enabled" => panel.state \in {"unpaired", "error"}
  /\ pairButton = "start" => \E f \in Flows : at[f] \in Starting
  /\ pairButton = "load" => \E f \in Flows : at[f] \in Refreshing
  /\ locked => \E f \in Flows : at[f] \in Refreshing

\* The panel does not keep a PIN for ever after its attempt has ended on the
\* host (unless a refresh put it there).
PanelFollowsHost ==
  \A p \in Pins :
    []<>~(/\ AttemptShown /\ panel.pin = p /\ panel.by # "info"
          /\ ~(UnderWay /\ status.pin = p))

\* "The authenticated app list is the real proof that Sunshine still trusts
\* StorPlay's persisted client certificate" (main.ts): when Sunshine has
\* refused it, the panel does not say "Paired".
PairedIsProven == ~(panel.by = "refused" /\ panel.state = "paired")
=============================================================================
