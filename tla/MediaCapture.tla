---------------------------- MODULE MediaCapture -----------------------------
(***************************************************************************)
(* The capture of ProbeMedia (host/internal/sunshine/media_probe.go), from *)
(* ANNOUNCE to its return: the handler, two goroutines that ping Sunshine, *)
(* two that collect what arrives on the UDP sockets, and the context of    *)
(* the request, which may end at any time. What precedes it, and what else *)
(* writes the cached diagnostic, is in GameStream; each call has sockets   *)
(* and goroutines of its own. GameStreamProofs extends both, hence the     *)
(* prefix of the usual names.                                              *)
(***************************************************************************)
EXTENDS Naturals

CONSTANT MaxPackets   \* datagrams that arrive on a socket (a bound)

ASSUME MediaCaptureAssumption == MaxPackets \in Nat

Kinds == {"audio", "video"}

VARIABLES
  main,       \* how far the handler is
  state,      \* result.State, as stored last
  told,       \* result.AudioPackets and result.VideoPackets
  ctxDone,    \* the request's context is done
  cancelled,  \* cancelPings was called
  ping,       \* the goroutine that pings for a kind
  heard,      \* the kinds whose ping has reached Sunshine
  arrived,    \* datagrams that have arrived on each socket
  collector,  \* the goroutine that reads each socket
  packets,    \* what it has counted
  deadlines,  \* the sockets with a read deadline
  expired     \* the deadline has passed

pingVars == <<cancelled, ping, heard>>
readVars == <<arrived, collector, packets, deadlines, expired>>
captureVars == <<main, state, told, ctxDone, pingVars, readVars>>

Each(x) == [k \in Kinds |-> x]

CaptureInit ==
  /\ main = "announce" /\ state = "starting" /\ told = Each(0)
  /\ ctxDone = FALSE
  /\ cancelled = FALSE /\ ping = Each("off") /\ heard = {}
  /\ arrived = Each(0) /\ collector = Each("off") /\ packets = Each(0)
  /\ deadlines = {} /\ expired = FALSE

Goes(from, to) == main = from /\ main' = to

-----------------------------------------------------------------------------
(* The handler.                                                            *)

\* A request looks at the context as it connects, and not any more then.
Connects ==
  /\ ~ctxDone
  /\ Goes("announce", "announcing") \/ Goes("play", "playing")
  /\ UNCHANGED <<state, told, ctxDone, pingVars, readVars>>

Announced ==
  /\ Goes("announcing", "pause")
  /\ ping' = Each("send")
  /\ UNCHANGED <<state, told, ctxDone, cancelled, heard, readVars>>

PauseOver ==
  /\ Goes("pause", "play")
  /\ UNCHANGED <<state, told, ctxDone, pingVars, readVars>>

\* ANNOUNCE or PLAY fails or is refused, or the context ends in the pause.
CaptureFails ==
  /\ \/ \E at \in {"announce", "announcing", "play", "playing"} : Goes(at, "leave")
     \/ ctxDone /\ Goes("pause", "leave")
  /\ state' = "error"
  /\ UNCHANGED <<told, ctxDone, pingVars, readVars>>

\* (mutant: the video socket has no deadline)
PlaysNoDeadlineMut ==
  /\ Goes("playing", "wait")
  /\ state' = "receiving"
  /\ deadlines' = {"audio"}
  /\ collector' = Each("read")
  /\ UNCHANGED <<told, ctxDone, pingVars, arrived, packets, expired>>

\* (mutant: the pings end with the handshake)
PlaysMut ==
  /\ Goes("playing", "wait")
  /\ state' = "receiving"
  /\ deadlines' = Kinds
  /\ collector' = Each("read")
  /\ cancelled' = TRUE
  /\ UNCHANGED <<told, ctxDone, ping, heard, arrived, packets, expired>>

\* "receiving" is stored, both sockets get their deadline, and both are read.
Plays ==
  /\ Goes("playing", "wait")
  /\ state' = "receiving"
  /\ deadlines' = Kinds
  /\ collector' = Each("read")
  /\ UNCHANGED <<told, ctxDone, pingVars, arrived, packets, expired>>

\* (mutant: the WaitGroup counts one collector)
WaitedMut ==
  /\ \E k \in Kinds : collector[k] = "reported"
  /\ Goes("wait", "tally")
  /\ cancelled' = TRUE
  /\ told' = [k \in Kinds |-> IF collector[k] = "reported" THEN packets[k] ELSE 0]
  /\ UNCHANGED <<state, ctxDone, ping, heard, readVars>>

\* wg.Wait returns, the pings are cancelled, and the results are read.
Waited ==
  /\ \A k \in Kinds : collector[k] = "reported"
  /\ Goes("wait", "tally")
  /\ cancelled' = TRUE
  /\ told' = packets
  /\ UNCHANGED <<state, ctxDone, ping, heard, readVars>>

\* The verdict is about video alone; an error of a collector is not told.
Verdict ==
  /\ Goes("tally", "leave")
  /\ state' = IF told["video"] = 0 THEN "error" ELSE "packets_received"
  /\ UNCHANGED <<told, ctxDone, pingVars, readVars>>

\* The deferred calls: cancelPings ...
Leaves ==
  /\ Goes("leave", "close")
  /\ cancelled' = TRUE
  /\ UNCHANGED <<state, told, ctxDone, ping, heard, readVars>>

\* ... and Close of both sockets. The request's context ends with its handler.
Closes ==
  /\ Goes("close", "done")
  /\ ctxDone' = TRUE
  /\ UNCHANGED <<state, told, pingVars, readVars>>

\* The browser has gone, or the 15 seconds are over.
RequestEnds ==
  /\ main # "done" /\ ~ctxDone
  /\ ctxDone' = TRUE
  /\ UNCHANGED <<main, state, told, pingVars, readVars>>

-----------------------------------------------------------------------------
(* sendGameStreamPings. An error of a write, as on a closed socket, is     *)
(* ignored, and a datagram may get lost.                                   *)

Pings(k) ==
  /\ ping[k] = "send"
  /\ ping' = [ping EXCEPT ![k] = "wait"]
  /\ \/ main # "done" /\ heard' = heard \cup {k}
     \/ UNCHANGED heard
  /\ UNCHANGED <<main, state, told, ctxDone, cancelled, readVars>>

\* The ticker may win over a context that is done.
Ticks(k) ==
  /\ ping[k] = "wait"
  /\ ping' = [ping EXCEPT ![k] = "send"]
  /\ UNCHANGED <<main, state, told, ctxDone, cancelled, heard, readVars>>

PingStops(k) ==
  /\ ping[k] = "wait"
  /\ cancelled \/ ctxDone
  /\ ping' = [ping EXCEPT ![k] = "ended"]
  /\ UNCHANGED <<main, state, told, ctxDone, cancelled, heard, readVars>>

-----------------------------------------------------------------------------
(* collectUDP, and what it reads.                                          *)

\* Sunshine streams to the address a ping came from.
Arrives(k) ==
  /\ k \in heard /\ main # "done"
  /\ arrived[k] < MaxPackets
  /\ arrived' = [arrived EXCEPT ![k] = @ + 1]
  /\ UNCHANGED <<main, state, told, ctxDone, pingVars, collector, packets,
                 deadlines, expired>>

DeadlinePasses ==
  /\ deadlines # {} /\ ~expired
  /\ expired' = TRUE
  /\ UNCHANGED <<main, state, told, ctxDone, pingVars, arrived, collector,
                 packets, deadlines>>

\* A read fails at once when its deadline has passed.
Collects(k) ==
  /\ collector[k] = "read"
  /\ ~(expired /\ k \in deadlines)
  /\ packets[k] < arrived[k]
  /\ packets' = [packets EXCEPT ![k] = @ + 1]
  /\ UNCHANGED <<main, state, told, ctxDone, pingVars, arrived, collector,
                 deadlines, expired>>

\* (mutant: the read is counted before its error is looked at)
ReportsMut(k) ==
  /\ collector[k] = "read"
  /\ collector' = [collector EXCEPT ![k] = "reported"]
  /\ packets' = [packets EXCEPT ![k] = @ + 1]
  /\ UNCHANGED <<main, state, told, ctxDone, pingVars, arrived, deadlines, expired>>

\* The deadline, or any other error (one that came back for a ping, say).
Reports(k) ==
  /\ collector[k] = "read"
  /\ collector' = [collector EXCEPT ![k] = "reported"]
  /\ UNCHANGED <<main, state, told, ctxDone, pingVars, arrived, packets,
                 deadlines, expired>>

HandlerStep ==
  \/ Connects \/ Announced \/ PauseOver \/ CaptureFails \/ Plays
  \/ Waited \/ Verdict \/ Leaves \/ Closes

CaptureNext ==
  \/ HandlerStep \/ RequestEnds \/ DeadlinePasses
  \/ \E k \in Kinds :
       Pings(k) \/ Ticks(k) \/ PingStops(k) \/ Arrives(k) \/ Collects(k) \/ Reports(k)

\* The handler's requests and its pause end, and the deadline passes. A read
\* ends once its deadline has passed; nobody owes it an error before. A select
\* with both channels ready picks at random, so a ping stops some time.
CaptureFairness ==
  /\ WF_captureVars(HandlerStep) /\ WF_captureVars(DeadlinePasses)
  /\ \A k \in Kinds :
       /\ WF_captureVars(Pings(k)) /\ SF_captureVars(PingStops(k))
       /\ WF_captureVars(expired /\ k \in deadlines /\ Reports(k))

CaptureSpec == CaptureInit /\ [][CaptureNext]_captureVars /\ CaptureFairness

-----------------------------------------------------------------------------
(* Properties.                                                             *)

\* Each variable stays in its type, and nothing is counted that did not arrive.
CaptureTypeOK ==
  /\ main \in {"announce", "announcing", "pause", "play", "playing", "wait",
               "tally", "leave", "close", "done"}
  /\ state \in {"starting", "receiving", "packets_received", "error"}
  /\ ping \in [Kinds -> {"off", "send", "wait", "ended"}]
  /\ collector \in [Kinds -> {"off", "read", "reported"}]
  /\ arrived \in [Kinds -> 0..MaxPackets]
  /\ packets \in [Kinds -> Nat] /\ told \in [Kinds -> Nat]
  /\ \A k \in Kinds : told[k] <= packets[k] /\ packets[k] <= arrived[k]
  /\ heard \subseteq Kinds /\ deadlines \subseteq Kinds
  /\ ctxDone \in BOOLEAN /\ cancelled \in BOOLEAN /\ expired \in BOOLEAN

\* When ProbeMedia returns, no collector is still reading a socket that is
\* about to be closed (or sending on a channel that is), the counts are those
\* of both collectors, and the state agrees with the count of video.
VerdictMatchesTraffic ==
  main \in {"leave", "close", "done"} =>
    /\ \A k \in Kinds : collector[k] # "read" /\ told[k] = packets[k]
    /\ state = IF packets["video"] > 0 THEN "packets_received" ELSE "error"

\* Sunshine is pinged for both kinds until the last collector is done, unless
\* the request was given up.
PingsCoverCapture ==
  main = "wait" /\ ~ctxDone =>
    ~cancelled /\ \A k \in Kinds : ping[k] \in {"send", "wait"}

Quiet ==
  /\ main = "done"
  /\ \A k \in Kinds : ping[k] \in {"off", "ended"} /\ collector[k] # "read"

\* ProbeMedia returns and leaves no goroutine behind, whether packets arrive,
\* the request is given up or a step fails.
CaptureEnds == <>[]Quiet
=============================================================================
