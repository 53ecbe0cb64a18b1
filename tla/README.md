# StorPlay in TLA+

StorPlay streams a game from a Windows PC to a browser. The *host* (Go) pairs
with Sunshine on the same PC over the GameStream protocol, launches a game,
and talks WebRTC to the browser; the *web client* (TypeScript) shows the
video and sends keyboard, mouse and gamepad input back over a DataChannel.
This directory holds TLA+ modules of the parts where the order of events
matters, TLC configurations that check them, and TLAPS proofs.

## 1. Inventory

| Component | Source | State it keeps | Operations | Hard behaviour |
|---|---|---|---|---|
| Pairing status | `sunshine/pairing.go`, `client.go` | `pairState` under `pairMu` | `StartPairing`, `runPairing` (5 stages), `Probe`, `AppList`, `PairingStatus` | a goroutine per run, concurrent HTTP handlers, late answers, 20 error exits |
| GameStream session and caches | `sunshine/launch.go`, `rtsp.go`, `media_probe.go` | `activeSession`, `rtspProbe`, `mediaProbe`, a mutex each | `Launch`, `Cancel`, `ProbeRTSP`, `ProbeMedia`, the three status reads | invalidation in separate steps, probes that outlive their session, lost and reordered answers |
| Input path | `web/src/input.ts`, `webrtc.ts`, `session/session.go`, `input/sink.go`, `protocol/messages.go` | pointer lock and focus, last gamepad payload, what the sink holds down | key, mouse, gamepad events, `release_all`, `handleInput`, `ReleaseAll` | unordered lossy channel, teardown from either side |
| Signaling and session lifecycle | `session/session.go`, `web/src/webrtc.ts`, `signaling/server.go` | the peer connections, the WebSocket | `Start`, `OnICECandidate`, `handleSignal`, `Close` | callbacks against the read loop, ordering of offer and candidates |
| Client identity | `sunshine/identity.go`, `cmd/storplay-host/main.go` | the identity file | `LoadOrCreateIdentity` | crash during the write, power failure before the file is on the disk, two processes |
| Media relay, diagnostic pattern | `media/relay.go`, `pattern.go`, `source.go` | `closed`, `OnKeyframeRequest` | `PushVideo`, `PushAudio`, `readVideoRTCP`, `Close`, `Start` | check under the lock, use after it; deferred calls against running goroutines |
| Browser user interface | `web/src/main.ts` | `session`, `inputController`, `pairingTimer`, the panels | button handlers, `refreshSunshine`, `pollPairing` | async handlers interleaved at every `await` |
| HTTP API, access rules | `signaling/server.go` | none of its own | routes, `requireLocalAdmin`, `sameHostOrLocalOrigin` | runs the handlers above concurrently |
| Parsing | `rtsp.go`, `media_probe.go`, `client.go` | none | SDP, transport headers, XML | boundaries of ports and lengths |
| Host program, packaging, page, styles | `cmd/`, `packaging/`, `web/index.html`, `style.css` | none | flags, wiring, markup | none |

How they interact: the browser calls the HTTP API; `net/http` runs each
handler on a goroutine of its own, and all of them share one
`sunshine.Client`. `Probe` is called by every handler that talks to Sunshine
and writes the pairing status on the way; `Launch` writes both the session
and the pairing status. `ProbeMedia` calls `ProbeRTSP`. A WebSocket on
`/ws/session` creates one `Session`, which owns a peer connection, the input
DataChannel with its `Sink`, and a media `Relay`.

What makes each component correct:

- *Pairing status*: a PIN on display has a goroutine that waits for it and
  ends in a verdict; "paired" is never invented and only a new attempt leaves
  it; the client's secret goes only to a Sunshine that knows the PIN.
- *GameStream session*: no cache outlives its session; one probe never mixes
  two launches; the client knows what Sunshine runs; a diagnostic on display
  ends in a verdict, which is about all that was received.
- *Input path*: nothing stays pressed on the host that the user let go, and
  nothing at all after the session; what the user does is sent once connected.
- *Signaling*: every candidate reaches a peer that can use it; negotiation ends
  in a verdict; the host's session ends with the browser's.
- *Identity*: a restart keeps the identity Sunshine trusts.
- *Relay*: at most the one sample and the one callback that had passed the check
  come after `Close`; a keyframe request reaches the source; the goroutines end.
- *User interface*: one session at a time; every panel is about what the host
  has now; no button stays disabled and no PIN stays on display for good.

`PROJECT.json` lists the hazards at their lines, with the properties that
watch them or a note why there is none, and maps every definition to its lines.

## 2. How the modules fit together

| Module | Models | Used by |
|---|---|---|
| `Pairing` | `pairState`, `runPairing`, `StartPairing`, `Probe`, `AppList` | |
| `PairingPromise` | what the pairing status promises its readers (abstract) | `PairingRefinement`, `PairingPanel` |
| `PairingRefinement` | `Pairing` implements `PairingPromise` | `MCPairing`, `PairingProofs` |
| `PairingPanel` | the pairing panel of the page in front of a host that keeps the promise | |
| `GameStream` | `Launch`, `Cancel`, `ProbeRTSP`, `ProbeMedia` and the caches | |
| `SessionPromise` | a session replaced together with its caches (abstract) | `SessionRefinement` |
| `SessionRefinement` | `GameStream` implements `SessionPromise` | `MCGameStream`, `GameStreamProofs` |
| `MediaCapture` | the sockets and goroutines of one `ProbeMedia` | |
| `LaunchPanel` | launch, cancel and the diagnostics on the page, with the host's session behind them | |
| `Signaling` | offer, answer, candidates and teardown over the WebSocket | |
| `InputChannel` | key, mouse and gamepad state over the DataChannel to the sink | |
| `ConnectButton` | the Connect button and the `WebRtcSession` objects behind it | |
| `MediaRelay` | the relay, its RTCP goroutines and the pattern in one `/ws/session` handler | |
| `Identity` | loading, generating and writing the identity file | |

Each component module `X` has `MCX` with its configuration. The proofs are in
eight modules `XProofs`; `GameStreamProofs` is also about `MediaCapture`, and
`PageProofs` about `ConnectButton` and `LaunchPanel`. Where one proof module
extends two components, the second one's usual names carry a prefix
(`CaptureSpec`, `LaunchTypeOK`). The page is
composed with the host in its two panels: `PairingPanel` extends
`PairingPromise` and takes its steps as the host's, which is sound because
`KeepsPromise` shows that `Pairing` takes no others; `LaunchPanel` keeps the
host's session and caches as `GameStream` has them, coarser: one request is its
effects and its answer. `MediaCapture` opens up what `GameStream` does in
`MediaAnnounced`, `MediaPlays`, `MediaSucceeds` and `MediaFails`, and
`CaptureIsMediaStep` proves that it does nothing else.

Done: the components above and their compositions. Left, should the project
be taken further: `PairingPanel` and `LaunchPanel` in one module (they share
`refreshSunshine`), a restart of the host under an open page, two pages at one
host, and the parsers as operators against reference definitions
(`parseServerPort`, `stripPort`, `InputMessage.Valid`).

## 3. Modules and how they correspond to the code

### Pairing

One action per stretch of code between two points where another goroutine
can intervene. A request to Sunshine is therefore two actions, the answer
and its use: `RunProbeAnswered`/`RunProbeReturns` and
`CallProbeAnswered`/`CallProbeReturns` for `Probe`,
`CallAuthenticated`/`CallStoresPaired` for the mTLS request of `AppList` and
`Launch`, `SunshineAcceptsCertificate`/`Stage4Accepted` and
`SunshineAuthorizes`/`RunPairs` for the last two stages. The five stages are
modelled by what their answers prove: stage 3 verifies only if the PIN typed
into Sunshine is the run's. `RunFails` stands for every error exit of
`runPairing`: each of them stores an error and returns. `AppList` and `Launch`
look alike from here: `Probe`, an authenticated request, a store of "paired"
without regard to the present status. Sunshine may forget the client at any
time, and may answer `PairStatus` 0 to a client it trusts (the comment at main.ts:145 says so).

`overtaken` is a history variable: true while a run is alive whose status
`AppList` or `Launch` overwrote. The code allows that (hazard at
`pairing.go:397`), and two runs may then be alive at once; `SingleRun` and
`PairedSticky` say that this is the *only* way it can happen.

`PairingPromise` is the five-state machine the page relies on: `Start`,
`Exchange`, `Resolve`, `Confirm`, and, after a clash of an authenticated
request with a live attempt, `Stray`. `Learn` is Sunshine storing the
certificate, which happens only during an attempt or after a clash.
`PairingRefinement` maps its `status` to
`pairState`, `clash` to `overtaken`, `known` to `everTrusted`.

### GameStream

Each action is one section under one mutex, or the sending of a request, or
Sunshine's execution of it. A launch is `LaunchBegins`, `SunshineLaunches`
(external, may happen although the answer gets lost), `LaunchStores`
(`activeSession`), `DropsRtsp`, `DropsMedia`; a cancel likewise. `ProbeRTSP`
reads the session, talks to Sunshine, stores; `ProbeMedia` reads the session,
then the cached setup or a fresh `ProbeRTSP`, binds its sockets, stores
"starting", sends ANNOUNCE and PLAY, stores "receiving", captures, stores its
verdict. A session stands for one `LaunchSession` with its keys; the URL may
repeat and tells nothing apart, just as the code compares none.

History: `overlap[h]` becomes true when the session is replaced while `h`
works, `late` in a cached probe keeps that flag, and `diverged` says that the
client has no way to know what Sunshine runs (an answer lost, answers that
overtook one another, a game that ended). The properties assert currency and
agreement exactly up to these, so a forgotten reset or a wrong order
violates them, while the races the code does have stay visible as hazards.

`SessionPromise` has a session, an RTSP setup and a media diagnostic, which
`Replace` replaces all at once. `SessionRefinement` reads the caches through
views in which what is outdated (between `LaunchStores` and `DropsMedia`) or
late does not appear: with them the three steps of a launch look like one.

### MediaCapture

One call of `ProbeMedia` from ANNOUNCE on. `main` is the handler; `ping` and
`collector` the goroutines it starts for audio and for video; `ctxDone` the
request's context, which ends when the browser leaves, after 15 s, or with the
handler. `Connects` is separate because a request looks at the context only while
it connects: one that is out when the browser leaves may still be answered. `Waited` is `wg.Wait` with what follows up to the results; `Leaves` and
`Closes` are the deferred calls in their order. `Reports` may happen at any
time: a read of a UDP socket can fail with what came back for a ping. Such an
error is put into `result.Error` and then always overwritten; the code says
nowhere that it is to be told, and the model leaves it out.

### LaunchPanel

Each call of `launchApp`, `cancelLaunch`, `probeRTSP`, `probeMedia` or
`refreshSunshine` is a flow: `at` says before which `await` it is, `role` which
function was called, `got` what was answered. The host answers in one step, the
page uses the answer in another. `panel`, `rtspPanel` and `mediaPanel` hold the
session each panel tells of. `stale` is history: the panel was told something
the host had replaced meanwhile (`loadActiveSession` overtaken by a launch), the
answer of the replacing request was lost, or a refresh after a launch stopped
early and left the media panel as it was. `Owes(f, which)` says which panels a
call that has replaced the session has yet to tell: `PanelsTellLive` holds for
each panel as soon as nobody owes it anything, not only when all is quiet.

### PairingPanel

Flows likewise, for `startPairing` with its poll and for `refreshSunshine`. The
host is `PairingPromise` with `trusted` (Sunshine may forget the client) beside
it. `panel.by` records which call rendered last, `crossed` that Pair was
clicked while a call was still out: `stopPairingPoll` clears a timer, not a
request. The page may be reloaded at any time; a start it had sent may reach
the host later, like the requests of other pages (`HostStep`).

### Signaling

The host writes to the WebSocket from `Start` (`SendsOffer`), from the candidate
callback (`SendsCandidate`) and from the state callback (`ReportsFailure`), in
any order; the browser handles each message in an asynchronous `handleSignal`.
`DescribesItself`, `ReadsLocalDescription` and `SendsOffer` are separate because
gathering starts with the first. `early` is history, and a real gap in the
code: a candidate found after `Start` has read the local description and
written before the offer is in neither, and the browser refuses it for want of
a remote description. All other candidates arrive. The browser may refuse the
offer (`BrowserRefusesOffer`), or take it and fail to answer
(`BrowserAnswerFails`); the host is told of neither. The teardown is `ReadFails`,
`ClosesPeer`, `HangsUp` on the host and `BrowserLeaves`, `BrowserSeesClose` in
the browser; the WebSocket may break.

### MediaRelay

`PushVideo` is `ChecksClosed` and `WritesSample`, `readVideoRTCP` is `ReadsHook`
and `CallsHook`: the mutex is released in between. The `/ws/session` handler
proceeds through session, hook, pattern and `Start`, and its deferred calls run
in reverse. `lateSamples` and `lateCalls` count what happened after `Close`.

### Identity

A process is off, loading, generating, about to write, writing (the file is
truncated), ready (waiting for the port) or serving; it may crash anywhere and
be started again, also beside another one. `file` is what processes read and
write; `disk` is what the system has written back of it (`WritesBack`), whole
or in part, and at some time of its own choosing, since `os.WriteFile` neither
syncs nor renames. `Crashes` ends one process and leaves the file as it is;
`PowerFails` ends all of them and leaves what is on the disk. `misread`,
`overlapped` and `lostFile` are history, and real exceptions: a file that cannot
be read for a moment is replaced, so is one that a second process finds half
written, and an identity whose file was not yet on the disk when the power
failed is gone, with the pairings made with it.

### ConnectButton

One action per task of the browser's event loop. `close()` returns before the
WebSocket reports (`SocketReports`), which may happen after the next click.
`lost` is history, and a real exception: the catch branch of an abandoned
`connect()` clears `session` although it is the next one's by then, which so
stays alive with no button to end it.

### InputChannel

`down`, `pad`, `focused` and `locked` are what the user and the browser do;
`capturing`, `lastPad`, `channel` are the state of `InputController` and
`WebRtcSession`; `net` holds the messages in flight; `host`, `listening` are
the progress of `Session.Start`/`Close` and of the host's DataChannel; `held`,
`heldPad` are what the calls of `Sink` amount to. (The only sink today logs;
the sink is the boundary the host promises to a real one.) `Lose(i)` and
`Deliver(i)` take any message of `net`: the channel is created with
`ordered=false`, `maxRetransmits=0`. Teardown is the code's: `Disconnect`
sends `release_all` twice and closes channel and WebSocket; the host notices
the end of the WebSocket (`SessionEnds`, `Close` with its first
`ReleaseAll`), closes the peer connection (`PeerCloses`), after which the
state callback and the channel's `OnClose` each release once more, in either
order. One session, one gamepad; mouse moves and wheel events have no lasting
effect and are left out. A second Connect is in
`ConnectButton`.

`gap` is history: a message was lost or overtaken since a `release_all` was
the last thing to arrive. `orphans` are buttons that were down when the
pointer lock was left; the page ignores their release.

## 4. Runs

| Run | Shows | Bounds, and why they are enough |
|---|---|---|
| `pairing` | `PinHasRunner`, `SecretOnlyAfterPinProof`, `SingleRun`, `PairedSticky`, `KeepsPromise`; live: `InProgressResolves` | 2 runs: one overtaken and the one that replaces it; 2 handlers; 2 PINs tell right from wrong |
| `gamestream` | `RtspIsCurrent`, `MediaIsCurrent`, `OneSessionPerProbe`, `AgreesWithSunshine`, `ProbeHasRunner`, `KeepsSessionPromise`; live: `ProbeResolves` | 2 handlers: a launch or cancel against a probe or one another; 2 sessions tell old from new |
| `input` | `NoStuckInput`, `ClosedHoldsNothing`; live: `DisconnectReleases` | 1 key, 1 button, 2 gamepad states; 2 messages in flight before the user goes on, 4 with those of Disconnect: any pair can be reordered |
| `input_pad` | disagreement, below | as `input` |
| `signaling` | `HostCandidatesArrive`, `BrowserCandidatesArrive`; live: `NegotiationEnds`, `SessionFollowsBrowser`, `FailureIsShown` | 2 candidates a side: one in the offer and one behind it, or two around the answer |
| `relay` | `LateByOne`, `KeyframeReachesSource`; live: `GoroutinesEnd` | one session, with and without the pattern; no bound |
| `identity` | `ServingIsPersisted`, `PairedSurvivesRestart` | 3 processes, 3 identities: a serving one, one that overlaps it, and the one after both; crashes and power failures without bound |
| `connect` | `LiveSessionIsOurs`, `LabelAgrees`; live: `FailedConnectResolves` | 4 sessions: one abandoned, the next one whose variables it clears, and two after it |
| `panel` | `PinShownIsPolled`, `OnePoll`, `PairReachable`; live: `PanelFollowsHost` | 2 calls at once, 1 PIN, 1 refresh beside another call |
| `panel_proven` | disagreement, below | as `panel` |
| `launch_panel` | `LaunchTypeOK`, `PanelsTellLive`, `LocksHaveOwner` | 2 calls at once, 2 sessions (old and new), from any cache the host may have when the page is loaded; both sets are symmetric |
| `media_capture` | `CaptureTypeOK`, `VerdictMatchesTraffic`, `PingsCoverCapture`; live: `CaptureEnds` | 2 datagrams per socket: none, a first and a later one |

Deadlock is checked in all runs but `media_capture`, where a finished capture
stops for good. The type invariants
of the other modules are proved (section 5) and not run again.

Fairness, and why the code justifies it. *Pairing*: every request of a run
carries a timeout (65 s for the PIN, 6 s for the others, 90 s in all), so
`RunStep` is weakly fair; neither the user nor Sunshine nor other handlers owe
anything. *GameStream*: every request has a deadline and the capture window is
8 s, so a handler that has begun moves on; nobody is obliged to begin.
*MediaCapture*: the handler's requests and pause end and the read deadline
passes; after it a read fails; `PingStops` is strongly fair, since a `select`
with ticker and context both ready picks at random. *InputChannel*: only the
host's own teardown steps are weakly fair, once the WebSocket is gone:
`ReadJSON` fails, `Start` returns, the deferred `Close` runs, pion ends the
channel; nothing makes the browser, the network or the state callback act.
`DisconnectReleases` starts where the WebSocket is gone for the host: until
then a vanished browser may leave a key pressed, since `ReadJSON` has no
deadline (hazard at `session.go:134`). *Signaling*: goroutines that are ready
to run do, and a message on an open WebSocket is read; nobody owes a candidate
or a connection. *MediaRelay*: the deferred calls and the goroutines move on; the
pattern's view of its context is strongly fair, for the `select` once more.
*ConnectButton*: a WebSocket reports its end. *PairingPanel*: a request is
answered or fails and a timer fires; the user and the host owe nothing.
*Identity* and *LaunchPanel* have safety properties only and no fairness.

Two disagreements of the code with what the repository says of it:

- `input_pad` expects a violation of `RememberedPadWasSent`. `pollGamepads`
  remembers a payload as sent before it is handed to `sendInput`, which drops
  it while the channel is not open, and nobody looks at the result. Polling
  starts before the connection does, so a trigger held while connecting is
  never reported, although `host/README.md:70` says input is sent once the
  connection is connected.
- `panel_proven` expects a violation of `PairedIsProven`. `main.ts:145` calls
  the authenticated app list the real proof that Sunshine trusts the client;
  when it is refused, `refreshSunshine` renders the host's cached "paired" all
  the same, and the Pair button stays disabled.

Behaviours the code has and says nothing against are in the models as history
variables that the properties name as their exceptions: `overtaken`, `late`,
`diverged`, `gap`, `early`, `misread`, `overlapped`, `lostFile`, `lost`,
`crossed`, `stale` (section 3). For a hazard that is such an exception `PROJECT.json` names no
property, or what the property leaves of it. A refresh that finds an attempt under way shows its PIN and starts
no poll (`panel.by` = "info"). Each property asserts its subject exactly up to
these, so a forgotten reset or a wrong order still violates it.

Each property of each passing run has a mutant in its module (the definitions
commented "mutant"), a plausible slip in the code that violates it.

## 5. Proofs

For all values of the constants, any number of handlers, runs, calls, sessions,
candidates, messages and datagrams:

| Module | Theorems (property) | Argument |
|---|---|---|
| `PairingProofs` | `Typing`, `SecretSafe`, `PinSafe`, `PairedSafe` (`PairedHasEvidence`), `SingleRunSafe`, `StickySafe` | the first three and `SingleRun` are inductive with `TypeOK`: only `Stage3Verified` enters the later stages, whoever ends writes the status, `overtaken` goes with the last live run. `PairedHasEvidence` needs `Evidence`: every answer in flight that will store "paired" was given by a Sunshine that trusted the client. `StickySafe` is an action property, from `SingleRun` before the step |
| | `PromiseSafe` (`KeepsPromise`) | `PromiseStep`: each action is a step of `PairingPromise` or leaves the status alone, given `TypeOK`, `SingleRun`, `PinHasRunner`, `Evidence` and `PinAssigned` |
| | `PinStaysOnDisplay`, `TrustTakesThePin`, `RunsEnd` | the first is read off the promise step by step: none but `Start` changes the PIN. Trust comes from stage 4 only, where `SecretOnlyAfterPinProof` holds. `Reached` is a rank that each step of a run raises until it stores a verdict |
| `GameStreamProofs` | `Typing`, `RtspSafe`, `MediaSafe`, `OneSessionSafe`, `RunnerSafe`, `AgreementSafe` | `CacheInv`: what probes in flight have read names the active session, unless marked late or in the reset window. `AgreementInv`: at most one answer is in flight while nothing has diverged, and it names what Sunshine runs |
| | `SessionPromiseSafe` (`KeepsSessionPromise`), `PromiseShowsCurrent`, `HandlersReturn` | `SessionStep`, through the views of `SessionRefinement`; what a reader may conclude from the promise alone; `Progress`, a rank of at most seven steps that each step of a handler raises |
| | `CaptureTypeCorrect`, `VerdictIsSound` (`VerdictMatchesTraffic`), `PingsCoverTheCapture` (`PingsCoverCapture`) | `CaptureInv`: the counts are zero before both sockets are read and told once both collectors have reported (`CountsAgree`); the state last stored fits where the handler is (`StateTold`); pings run from ANNOUNCE to the results unless the request ends (`PingsRun`). The verdict alone is not inductive: it is drawn from what was told a step earlier |
| | `CaptureIsMediaStep` | with `CaptureInv`, each step of a capture is, for the handler of `GameStream` that carries it, one of the four media actions or no step |
| `InputChannelProofs` | `TypeCorrect`, `ClosedSafe`, `NothingStuck` (`NoStuckInput`) | `ClosedHoldsNothing` is inductive as it stands. For `NoStuckInput`, `Ends` and `EndsPad` say by positions, without replaying the queue, what the host will hold once it has handled all messages in flight; `InStep`: nothing but what the user holds down (or an orphan); `SentEnds` and `HandledEnds` carry this over a message sent and handled, `Phases` ties it to the connection |
| `SignalingProofs` | `TypeCorrect`, `HostCandidatesReachBrowser`, `BrowserCandidatesReachHost` | `HostCovered` and `BrowserCovered`: every candidate that counts is in the offer or behind it (behind the answer), in the queue or known; `OneOffer`: the page answers once |
| `MediaRelayProofs` | `TypeCorrect`, `LateAtMostOnce`, `KeyframesReachSource`, `StoppedInOrder` | `FirstLate`: a sample or callback still to come late is the first one. `Shutdown`: what the deferred calls have done so far. `HookFirst`: no request precedes the offer, nor the offer the hook |
| `IdentityProofs` | `TypeCorrect`, `ServesWhatIsStored`, `PairingSurvives` | `Alone`, `FileFollows` (what the file holds at each stage of the one process), `TrustsFile` (who is about to replace the file has met no valid one, so nothing was paired). After a power failure nothing runs, and either the valid file is on the disk or `lostFile` holds |
| `PageProofs` | of `ConnectButton`: `TypeCorrect`, `LiveSessionsAreOurs`, `InputFeedsOurSession`, `LabelIsTrue`, `StatsEnd` | together inductive with `SocketOrder`: a socket event outlives its socket only |
| | of `LaunchPanel`: `LaunchTypeCorrect`, `LocksAreOwned` (`LocksHaveOwner`), `CallsEnd` | `FlowShape`: which function a call is in at each place; without it "empty" might reach the launch panel, and a call might unlock what it had not locked. `OneLaunch`: launches exclude one another, so the one that ends may reset `launching`. `CallsEnd` is an action property: `Place` grows with each step of a call, and a call that ends gives its button back |
| | `PanelsAreTruthful` (`PanelsTellLive`) | the gap is a launch whose refresh is told that there is no session: it ends without a word to the media panel. `NoneShown`: without a session the media panel has none to tell, but for a cancel on its way back; `NothingOwed`: so such a launch has nothing left to do. With both, each of the three panels is followed action by action |
| `PairingPanelProofs` | `TypeCorrect`, `PairStaysReachable`, `ShownPinIsPolled`, `PollsOnce` | `Told`: a refresh that asks for the apps has been told of no attempt; `Loads`: an empty page has a refresh under way; `Single`: one poll at a time, named by the timer |
| | `PromiseIsHonest`, `PromiseKeepsPin`, `HostKeepsPromise`, `PanelIsHonest` | `PromiseInv` is an invariant of the abstract promise; the page's steps leave the host a behaviour of the promise, which carries the invariant over to the composition; with `AnswersEarned` for the answers in flight, "paired" on the panel was earned |

The assumptions are those the modules name (`...Assumption`): sentinels are not
values (also not one another, in `LaunchPanelAssumption`), keys and buttons are
different, a bound on messages or datagrams is a number. The runs evaluate them.

Model-checked only: everything that rests on fairness (`InProgressResolves`,
`ProbeResolves`, `DisconnectReleases`, `NegotiationEnds`,
`SessionFollowsBrowser`, `FailureIsShown`, `GoroutinesEnd`,
`FailedConnectResolves`, `PanelFollowsHost`, `CaptureEnds`): fairness and
ENABLED are beyond the prover. `RunsEnd`, `HandlersReturn` and `CallsEnd` prove
the part of the argument that is an action property: the steps that fairness
promises are finitely many. No module has a RECURSIVE operator, and nothing
needs induction over data. All invariants of the passing runs are proved.

## 6. Not modelled

- Cryptography, XML, SDP and RTSP texts: their outcome is accepted or not.
- The access rules (`requireLocalAdmin`, `sameHostOrLocalOrigin`), method checks
  and parsers: pure functions of one request or text. The parsers of
  `protocol` and `sunshine` have unit tests, `signaling/server.go` has none.
- Mouse moves and wheel, which leave nothing behind; `PushAudio`, which has the
  shape of `PushVideo` and no caller; full screen; statistics values; the
  contents of video and audio; logging and the wording of errors.
- A restart of the host under an open page, several gamepads, what a second page
  shows.
- Packaging, markup and styles.

Time appears only as "a deadline passes sooner or later".
