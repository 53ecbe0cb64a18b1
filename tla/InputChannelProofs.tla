------------------------- MODULE InputChannelProofs -------------------------
(* Proofs about InputChannel for any set of keys, buttons and gamepad      *)
(* states and any number of messages in flight.                            *)
EXTENDS InputChannel, SequenceTheorems, TLAPS

\* Once the host's channel is closed the Sink holds nothing down, however the
\* ReleaseAll calls of the teardown interleave with late messages: the last
\* of them comes after the last message.
THEOREM ClosedSafe == Spec => []ClosedHoldsNothing
<1>1. Init => ClosedHoldsNothing
  BY DEF Init, ClosedHoldsNothing
<1>2. ClosedHoldsNothing /\ [Next]_vars => ClosedHoldsNothing'
  <2> SUFFICES ASSUME ClosedHoldsNothing, [Next]_vars
               PROVE  ClosedHoldsNothing'
    OBVIOUS
  <2> USE DEF ClosedHoldsNothing, sinkVars, hostVars
  <2>1. CASE UserStep
    <3>1. ASSUME NEW k \in Keys, KeyDown(k) \/ KeyUp(k)
          PROVE  ClosedHoldsNothing'
      BY <3>1 DEF KeyDown, KeyUp
    <3>2. ASSUME NEW b \in Buttons, MouseDown(b) \/ MouseUp(b)
          PROVE  ClosedHoldsNothing'
      BY <3>2 DEF MouseDown, MouseUp
    <3>3. ASSUME NEW p \in Pads, UserMovesPad(p) PROVE ClosedHoldsNothing'
      BY <3>3 DEF UserMovesPad
    <3>4. CASE LockPointer \/ UnlockPointer \/ Blur \/ Focus
      BY <3>4 DEF LockPointer, UnlockPointer, Blur, Focus
    <3>5. CASE Connect \/ Disconnect \/ BrowserVanishes
      BY <3>5 DEF Connect, Disconnect, BrowserVanishes
    <3> QED BY <2>1, <3>1, <3>2, <3>3, <3>4, <3>5 DEF UserStep
  <2>2. CASE ChannelOpens \/ SignalingDrops \/ PollGamepads
    BY <2>2 DEF ChannelOpens, SignalingDrops, PollGamepads
  <2>3. ASSUME NEW i \in 1..Len(net), Lose(i) \/ Deliver(i)
        PROVE  ClosedHoldsNothing'
    \* a message is only handled while the channel still listens
    BY <2>3 DEF Lose, Deliver
  <2>4. CASE Teardown
    \* every step of the teardown that stops listening also releases
    BY <2>4 DEF Teardown, SessionEnds, PeerCloses, PeerCloseReported,
                ChannelCloses, SinkReleasesAll
  <2>5. CASE UNCHANGED vars
    BY <2>5 DEF vars
  <2> QED BY <2>1, <2>2, <2>3, <2>4, <2>5 DEF Next
<1> QED BY <1>1, <1>2, PTL DEF Spec

-----------------------------------------------------------------------------
(* Types.                                                                  *)

\* The type invariant without its flags, which are for Zenon.
Others ==
  /\ down \in SUBSET (Keys \cup Buttons) /\ held \in SUBSET (Keys \cup Buttons)
  /\ orphans \in SUBSET Buttons
  /\ pad \in Pads /\ heldPad \in Pads
  /\ lastPad \in Pads \cup {NoPad} /\ sentPad \in Pads \cup {NoPad}
  /\ channel \in {"none", "open", "closed", "gone"}
  /\ signaling \in {"none", "open", "closed"}
  /\ net \in Seq(Messages)
  /\ host \in {"none", "reading", "ending", "closed", "reported"}

\* Removing an element closes the gap.
LEMMA Removed ==
  ASSUME NEW S, NEW q \in Seq(S), NEW i \in 1 .. Len(q)
  PROVE  /\ RemoveAt(q, i) \in Seq(S)
         /\ Len(RemoveAt(q, i)) = Len(q) - 1
         /\ i = 1 => \A j \in 1 .. Len(q) - 1 : RemoveAt(q, i)[j] = q[j + 1]
<1> DEFINE a == SubSeq(q, 1, i - 1)
           b == SubSeq(q, i + 1, Len(q))
<1>1. /\ a \in Seq(S) /\ Len(a) = i - 1
  BY SubSeqProperties
<1>2. /\ b \in Seq(S) /\ Len(b) = Len(q) - i
      /\ \A j \in 1 .. Len(q) - i : b[j] = q[i + j]
  BY SubSeqProperties
<1>3. RemoveAt(q, i) = a \o b
  BY DEF RemoveAt
<1> HIDE DEF a, b
<1>4. a \o b \in Seq(S) /\ Len(a \o b) = Len(q) - 1
  <2>1. Len(a \o b) = Len(a) + Len(b) /\ a \o b \in Seq(S)
    BY <1>1, <1>2, ConcatProperties
  <2> QED
    BY <1>1, <1>2, <2>1
<1>5. ASSUME i = 1, NEW j \in 1 .. Len(q) - 1 PROVE (a \o b)[j] = q[j + 1]
  BY <1>1, <1>2, <1>5, ConcatProperties
<1> QED
  BY <1>3, <1>4, <1>5

\* What the page sends are messages.
LEMMA SentMessages ==
  /\ \A k \in Keys \cup Buttons :
       Control(k, TRUE) \in Messages /\ Control(k, FALSE) \in Messages
  /\ \A p \in Pads : Gamepad(p) \in Messages
  /\ ReleaseAll \in Messages
<1>1. TRUE \in BOOLEAN /\ FALSE \in BOOLEAN
  BY Zenon
<1> QED
  BY <1>1 DEF Control, Gamepad, ReleaseAll, Messages

\* A message that is sent is the last one in the channel.
LEMMA Sent ==
  ASSUME net \in Seq(Messages), NEW m \in Messages, Send(<<m>>)
  PROVE  /\ net' \in Seq(Messages)
         /\ channel = "open" =>
              /\ Len(net') = Len(net) + 1
              /\ net'[Len(net) + 1] = m
              /\ \A j \in 1 .. Len(net) : net'[j] = net[j]
         /\ channel # "open" => net' = net
BY DEF Send

\* Type correctness of InputChannel.
THEOREM TypeCorrect == Spec => []TypeOK
<1> DEFINE Flags ==
  /\ focused \in BOOLEAN /\ locked \in BOOLEAN /\ capturing \in BOOLEAN
  /\ listening \in BOOLEAN /\ gap \in BOOLEAN
<1>1. Init => Flags
  BY Zenon DEF Init
<1>2. Flags /\ [Next]_vars => Flags'
  BY ZenonT(60) DEF Next, UserStep, KeyDown, KeyUp, MouseDown, MouseUp,
     UserMovesPad, LockPointer, UnlockPointer, Blur, Focus, Connect, Disconnect,
     BrowserVanishes, ChannelOpens, SignalingDrops, PollGamepads, Lose, Deliver,
     Teardown, SessionEnds, PeerCloses, PeerCloseReported, ChannelCloses, vars,
     userVars, browserVars, hostVars
<1>3. Init => Others
  BY InputAssumption DEF Init, Others
<1>4. Others /\ [Next]_vars => Others'
  <2> SUFFICES ASSUME Others, [Next]_vars PROVE Others'
    OBVIOUS
  <2> USE InputAssumption, SentMessages
      DEF Others, userVars, browserVars, hostVars, sinkVars
  <2>1. ASSUME NEW k \in Keys, KeyDown(k) PROVE Others'
    BY <2>1, Sent DEF KeyDown
  <2>2. ASSUME NEW k \in Keys, KeyUp(k) PROVE Others'
    BY <2>2, Sent DEF KeyUp
  <2>3. ASSUME NEW b \in Buttons, MouseDown(b) PROVE Others'
    BY <2>3, Sent DEF MouseDown
  <2>4. ASSUME NEW b \in Buttons, MouseUp(b) PROVE Others'
    BY <2>4, Sent DEF MouseUp
  <2>5. ASSUME NEW p \in Pads, UserMovesPad(p) PROVE Others'
    BY <2>5 DEF UserMovesPad
  <2>6. CASE LockPointer \/ UnlockPointer \/ Focus
    BY <2>6 DEF LockPointer, UnlockPointer, Focus
  <2>7. CASE Blur
    BY <2>7, Sent DEF Blur
  <2>8. CASE Disconnect
    <3>1. net' \in Seq(Messages)
      BY <2>8 DEF Disconnect, Send
    <3> QED
      BY <2>8, <3>1 DEF Disconnect
  <2>9. CASE Connect \/ BrowserVanishes \/ ChannelOpens \/ SignalingDrops
    BY <2>9 DEF Connect, BrowserVanishes, ChannelOpens, SignalingDrops
  <2>10. CASE PollGamepads
    BY <2>10, Sent DEF PollGamepads
  <2>11. ASSUME NEW i \in 1 .. Len(net), Lose(i) PROVE Others'
    BY <2>11, Removed DEF Lose
  <2>12. ASSUME NEW i \in 1 .. Len(net), Deliver(i) PROVE Others'
    <3>1. net' \in Seq(Messages)
      BY <2>12, Removed DEF Deliver
    <3>2. held' \in SUBSET (Keys \cup Buttons) /\ heldPad' \in Pads
      BY <2>12 DEF Deliver, Apply, Messages, ReleaseAll
    <3> QED
      BY <2>12, <3>1, <3>2 DEF Deliver
  <2>13. CASE Teardown
    BY <2>13 DEF Teardown, SessionEnds, PeerCloses, PeerCloseReported,
                 ChannelCloses, SinkReleasesAll
  <2>14. CASE UNCHANGED vars
    BY <2>14 DEF vars
  <2> QED
    BY <2>1, <2>2, <2>3, <2>4, <2>5, <2>6, <2>7, <2>8, <2>9, <2>10, <2>11,
       <2>12, <2>13, <2>14 DEF Next, UserStep
<1>5. TypeOK <=> Flags /\ Others
  BY DEF TypeOK, Others
<1> QED
  BY <1>1, <1>2, <1>3, <1>4, <1>5, PTL DEF Spec

-----------------------------------------------------------------------------
(* Nothing stays pressed. As long as messages arrive in order, what matters *)
(* is what the Sink will hold once it has handled all that is in the        *)
(* channel; the user may be ahead of that by messages only, never by a      *)
(* release the page has not sent.                                           *)

Clears(m, k) == m \in {Control(k, FALSE), ReleaseAll}

\* Handling queue q with h held leaves k held.
Ends(q, h, k) ==
  \/ k \in h /\ \A j \in 1 .. Len(q) : ~Clears(q[j], k)
  \/ \E i \in 1 .. Len(q) :
       /\ q[i] = Control(k, TRUE)
       /\ \A j \in 1 .. Len(q) : j > i => ~Clears(q[j], k)

\* Handling queue q with the gamepad in state h leaves it in state p, other
\* than by putting it to rest.
EndsPad(q, h, p) ==
  \/ p = h /\ \A j \in 1 .. Len(q) : q[j].type = "control"
  \/ \E i \in 1 .. Len(q) :
       /\ q[i] = Gamepad(p)
       /\ \A j \in 1 .. Len(q) : j > i => q[j].type = "control"

\* How far the connection is.
Phases ==
  /\ channel = "open" => signaling # "none"
  /\ channel \in {"none", "open"} /\ signaling # "none" => capturing
  /\ channel = "none" => net = <<>> /\ held = {} /\ heldPad = Neutral
  /\ locked => focused

InStep ==
  channel = "open" /\ ~gap =>
    /\ \A k \in Keys : Ends(net, held, k) => focused /\ k \in down
    /\ \A b \in Buttons : Ends(net, held, b) =>
         b \in orphans \/ (locked /\ b \in down)
    /\ \A p \in Pads : EndsPad(net, heldPad, p) => p \in {Neutral, lastPad}

LEMMA PhasesHold == Spec => []Phases
<1>1. Init => Phases
  BY DEF Init, Phases
<1>2. TypeOK /\ Phases /\ [Next]_vars => Phases'
  <2> SUFFICES ASSUME TypeOK, Phases, [Next]_vars PROVE Phases'
    OBVIOUS
  <2> USE DEF Phases, userVars, browserVars, hostVars, sinkVars
  <2>1. ASSUME NEW k \in Keys, KeyDown(k) \/ KeyUp(k) PROVE Phases'
    BY <2>1 DEF KeyDown, KeyUp, Send
  <2>2. ASSUME NEW b \in Buttons, MouseDown(b) \/ MouseUp(b) PROVE Phases'
    BY <2>2 DEF MouseDown, MouseUp, Send
  <2>3. ASSUME NEW p \in Pads, UserMovesPad(p) PROVE Phases'
    BY <2>3 DEF UserMovesPad
  <2>4. CASE LockPointer \/ UnlockPointer \/ Focus
    BY <2>4 DEF LockPointer, UnlockPointer, Focus
  <2>5. CASE Blur
    BY <2>5 DEF Blur, Send
  <2>6. CASE Connect \/ BrowserVanishes \/ ChannelOpens \/ SignalingDrops
    BY <2>6 DEF Connect, BrowserVanishes, ChannelOpens, SignalingDrops
  <2>7. CASE Disconnect
    BY <2>7 DEF Disconnect
  <2>8. CASE PollGamepads
    BY <2>8 DEF PollGamepads, Send
  <2>9. ASSUME NEW i \in 1 .. Len(net), Lose(i) \/ Deliver(i) PROVE Phases'
    <3>1. channel # "none"
      BY <2>9
    <3> QED
      BY <2>9, <3>1 DEF Lose, Deliver
  <2>10. CASE Teardown
    BY <2>10 DEF Teardown, SessionEnds, PeerCloses, PeerCloseReported,
                 ChannelCloses, SinkReleasesAll
  <2>11. CASE UNCHANGED vars
    BY <2>11 DEF vars
  <2> QED
    BY <2>1, <2>2, <2>3, <2>4, <2>5, <2>6, <2>7, <2>8, <2>9, <2>10, <2>11
       DEF Next, UserStep
<1> QED
  BY <1>1, <1>2, TypeCorrect, PTL DEF Spec

\* A message sent decides the end, or leaves it as it was.
LEMMA SentEnds ==
  ASSUME net \in Seq(Messages), NEW m \in Messages, Send(<<m>>),
         channel = "open", NEW h
  PROVE  /\ \A k : Ends(net', h, k) =>
                m = Control(k, TRUE) \/ (Ends(net, h, k) /\ ~Clears(m, k))
         /\ \A p : EndsPad(net', h, p) =>
                m = Gamepad(p) \/ (EndsPad(net, h, p) /\ m.type = "control")
<1>1. /\ Len(net) \in Nat /\ Len(net') = Len(net) + 1
      /\ net'[Len(net) + 1] = m
      /\ \A j \in 1 .. Len(net) : net'[j] = net[j]
  BY Sent
<1>2. /\ 1 .. Len(net') = (1 .. Len(net)) \cup {Len(net) + 1}
      /\ \A j \in 1 .. Len(net) : Len(net) + 1 > j /\ ~(j > Len(net) + 1)
  BY <1>1
<1>3. ASSUME NEW k, Ends(net', h, k)
      PROVE  m = Control(k, TRUE) \/ (Ends(net, h, k) /\ ~Clears(m, k))
  BY <1>1, <1>2, <1>3 DEF Ends
<1>4. ASSUME NEW p, EndsPad(net', h, p)
      PROVE  m = Gamepad(p) \/ (EndsPad(net, h, p) /\ m.type = "control")
  BY <1>1, <1>2, <1>4 DEF EndsPad
<1> QED
  BY <1>3, <1>4

\* Handling the first message brings the end nearer and does not change it.
LEMMA HandledEnds ==
  ASSUME net \in Seq(Messages), 1 \in 1 .. Len(net),
         Apply(net[1]), net' = RemoveAt(net, 1)
  PROVE  /\ \A k : Ends(net', held', k) => Ends(net, held, k)
         /\ \A p : EndsPad(net', heldPad', p) =>
                p = Neutral \/ EndsPad(net, heldPad, p)
<1>1. /\ Len(net) \in Nat /\ Len(net') = Len(net) - 1
      /\ \A j \in 1 .. Len(net') : net'[j] = net[j + 1]
      /\ net[1] \in Messages
  <2>1. Len(net) \in Nat /\ net[1] \in Messages
    OBVIOUS
  <2>2. /\ Len(net') = Len(net) - 1
        /\ \A j \in 1 .. Len(net) - 1 : net'[j] = net[j + 1]
    BY Removed
  <2> QED
    BY <2>1, <2>2
<1>2. /\ \A j \in 1 .. Len(net') : j + 1 \in 1 .. Len(net) /\ j + 1 > 1
      /\ \A j \in 1 .. Len(net) :
           j = 1 \/ (j - 1 \in 1 .. Len(net') /\ net[j] = net'[j - 1])
  BY <1>1
<1>3. ASSUME NEW k, Ends(net', held', k) PROVE Ends(net, held, k)
  <2>1. CASE \E i \in 1 .. Len(net') :
               /\ net'[i] = Control(k, TRUE)
               /\ \A j \in 1 .. Len(net') : j > i => ~Clears(net'[j], k)
    <3>1. PICK i \in 1 .. Len(net') :
            /\ net'[i] = Control(k, TRUE)
            /\ \A j \in 1 .. Len(net') : j > i => ~Clears(net'[j], k)
      BY <2>1
    <3>2. i + 1 \in 1 .. Len(net) /\ net[i + 1] = Control(k, TRUE)
      BY <1>1, <1>2, <3>1
    <3>3. ASSUME NEW j \in 1 .. Len(net), j > i + 1 PROVE ~Clears(net[j], k)
      <4>1. j - 1 \in 1 .. Len(net') /\ net[j] = net'[j - 1] /\ j - 1 > i
        BY <1>2, <3>3
      <4> QED
        BY <3>1, <4>1
    <3> QED
      BY <3>2, <3>3 DEF Ends
  <2>2. CASE k \in held' /\ \A j \in 1 .. Len(net') : ~Clears(net'[j], k)
    <3>1. \A j \in 1 .. Len(net) : j > 1 => ~Clears(net[j], k)
      BY <1>2, <2>2
    <3>2. CASE net[1] = Control(k, TRUE)
      BY <3>1, <3>2 DEF Ends
    <3>3. CASE net[1] # Control(k, TRUE)
      <4>1. k \in held /\ ~Clears(net[1], k)
        <5>1. CASE net[1].type = "control"
          <6>1. PICK c \in Keys \cup Buttons, d \in BOOLEAN :
                  net[1] = Control(c, d)
            BY <1>1, <5>1 DEF Messages, ReleaseAll, Control
          <6>2. held' = IF d THEN held \cup {c} ELSE held \ {c}
            BY <6>1 DEF Apply, Control
          <6>3. Control(c, d) # ReleaseAll
            BY DEF Control, ReleaseAll
          <6>4. CASE d = TRUE
            <7>1. c # k /\ Control(c, TRUE) # Control(k, FALSE)
              BY <3>3, <6>1, <6>4, Zenon DEF Control
            <7> QED
              BY <2>2, <6>1, <6>2, <6>3, <6>4, <7>1 DEF Clears
          <6>5. CASE d = FALSE
            <7>1. Control(c, FALSE) = Control(k, FALSE) => c = k
              BY DEF Control
            <7> QED
              BY <2>2, <6>1, <6>2, <6>3, <6>5, <7>1 DEF Clears
          <6> QED
            BY <6>4, <6>5
        <5>2. CASE net[1].type = "gamepad"
          BY <2>2, <5>2 DEF Apply, Clears, Control, ReleaseAll
        <5>3. CASE net[1].type = "release_all"
          BY <2>2, <5>3 DEF Apply
        <5> QED
          BY <1>1, <5>1, <5>2, <5>3 DEF Messages, ReleaseAll
      <4>2. \A j \in 1 .. Len(net) : ~Clears(net[j], k)
        BY <1>1, <3>1, <4>1
      <4> QED
        BY <4>1, <4>2 DEF Ends
    <3> QED
      BY <3>2, <3>3
  <2> QED
    BY <1>3, <2>1, <2>2 DEF Ends
<1>4. ASSUME NEW p, EndsPad(net', heldPad', p), p # Neutral
      PROVE  EndsPad(net, heldPad, p)
  <2>1. CASE \E i \in 1 .. Len(net') :
               /\ net'[i] = Gamepad(p)
               /\ \A j \in 1 .. Len(net') : j > i => net'[j].type = "control"
    <3>1. PICK i \in 1 .. Len(net') :
            /\ net'[i] = Gamepad(p)
            /\ \A j \in 1 .. Len(net') : j > i => net'[j].type = "control"
      BY <2>1
    <3>2. i + 1 \in 1 .. Len(net) /\ net[i + 1] = Gamepad(p)
      BY <1>1, <1>2, <3>1
    <3>3. ASSUME NEW j \in 1 .. Len(net), j > i + 1
          PROVE  net[j].type = "control"
      <4>1. j - 1 \in 1 .. Len(net') /\ net[j] = net'[j - 1] /\ j - 1 > i
        BY <1>2, <3>3
      <4> QED
        BY <3>1, <4>1
    <3> QED
      BY <3>2, <3>3 DEF EndsPad
  <2>2. CASE p = heldPad' /\ \A j \in 1 .. Len(net') : net'[j].type = "control"
    <3>1. \A j \in 1 .. Len(net) : j > 1 => net[j].type = "control"
      BY <1>2, <2>2
    <3>2. CASE net[1].type = "control"
      <4>1. heldPad' = heldPad
        BY <3>2 DEF Apply
      <4> QED
        BY <2>2, <3>1, <3>2, <4>1 DEF EndsPad
    <3>3. CASE net[1].type = "gamepad"
      <4>1. net[1] = Gamepad(net[1].state)
        BY <1>1, <3>3 DEF Messages, ReleaseAll, Gamepad
      <4>2. heldPad' = net[1].state
        BY <3>3 DEF Apply
      <4> QED
        BY <2>2, <3>1, <4>1, <4>2 DEF EndsPad
    <3>4. CASE net[1].type = "release_all"
      BY <1>4, <2>2, <3>4 DEF Apply
    <3> QED
      BY <1>1, <3>2, <3>3, <3>4 DEF Messages, ReleaseAll
  <2> QED
    BY <1>4, <2>1, <2>2 DEF EndsPad
<1> QED
  BY <1>3, <1>4

LEMMA StepInStep ==
  ASSUME TypeOK, Phases, InStep, [Next]_vars
  PROVE  InStep'
<1> USE InputAssumption DEF userVars, browserVars, hostVars, sinkVars
<1>c. channel = "open" => capturing
  BY DEF Phases
<1>m. /\ \A k, c : Control(k, TRUE) = Control(c, TRUE) => k = c
      /\ \A k, c : Control(k, TRUE) # Control(c, FALSE)
      /\ \A k, p : Control(k, TRUE) # Gamepad(p) /\ Control(k, FALSE) # Gamepad(p)
      /\ \A k : Control(k, TRUE) # ReleaseAll
      /\ \A p : Gamepad(p) # ReleaseAll
      /\ \A p, r : Gamepad(p) = Gamepad(r) => p = r
      /\ \A p : Gamepad(p).type # "control"
      /\ ReleaseAll.type # "control"
  BY DEF Control, Gamepad, ReleaseAll
<1>q. ASSUME UNCHANGED <<net, sinkVars, lastPad>>,
             channel' = "open" /\ ~gap' => channel = "open" /\ ~gap,
             \A k \in Keys : focused /\ k \in down => focused' /\ k \in down',
             \A b \in Buttons : b \in orphans \/ (locked /\ b \in down)
               => b \in orphans' \/ (locked' /\ b \in down')
      PROVE  InStep'
  BY <1>q DEF InStep, Ends, EndsPad
<1>s. ASSUME channel = "open", ~gap, NEW m \in Messages, Send(<<m>>),
             held' = held, heldPad' = heldPad
      PROVE  /\ \A k \in Keys : Ends(net', held', k) =>
                  m = Control(k, TRUE) \/ (focused /\ k \in down /\ ~Clears(m, k))
             /\ \A b \in Buttons : Ends(net', held', b) =>
                  \/ m = Control(b, TRUE)
                  \/ (b \in orphans \/ (locked /\ b \in down)) /\ ~Clears(m, b)
             /\ \A p \in Pads : EndsPad(net', heldPad', p) =>
                  \/ m = Gamepad(p)
                  \/ p \in {Neutral, lastPad} /\ m.type = "control"
  <2>1. /\ \A k : Ends(net', held, k) =>
             m = Control(k, TRUE) \/ (Ends(net, held, k) /\ ~Clears(m, k))
        /\ \A p : EndsPad(net', heldPad, p) =>
             m = Gamepad(p) \/ (EndsPad(net, heldPad, p) /\ m.type = "control")
    BY <1>s, SentEnds DEF TypeOK
  <2> QED
    BY <1>s, <2>1 DEF InStep
<1>1. ASSUME NEW k \in Keys, KeyDown(k) PROVE InStep'
  <2> SUFFICES ASSUME channel = "open", ~gap PROVE InStep'
    BY <1>1 DEF KeyDown, InStep
  <2>1. Control(k, TRUE) \in Messages /\ Send(<<Control(k, TRUE)>>)
    BY <1>1, <1>c, SentMessages DEF KeyDown
  <2>2. held' = held /\ heldPad' = heldPad
    BY <1>1 DEF KeyDown
  <2> QED
    BY <1>1, <1>m, <1>s, <2>1, <2>2 DEF KeyDown, InStep, Clears
<1>2. ASSUME NEW k \in Keys, KeyUp(k) PROVE InStep'
  <2> SUFFICES ASSUME channel = "open", ~gap PROVE InStep'
    BY <1>2 DEF KeyUp, InStep
  <2>1. CASE focused
    <3>1. Control(k, FALSE) \in Messages /\ Send(<<Control(k, FALSE)>>)
      BY <1>2, <1>c, <2>1, SentMessages DEF KeyUp
    <3>2. held' = held /\ heldPad' = heldPad
      BY <1>2 DEF KeyUp
    <3> QED
      BY <1>2, <1>m, <1>s, <3>1, <3>2 DEF KeyUp, InStep, Clears
  <2>2. CASE ~focused
    BY <1>2, <2>2 DEF KeyUp, InStep, Ends, EndsPad
  <2> QED
    BY <2>1, <2>2
<1>3. ASSUME NEW b \in Buttons, MouseDown(b) PROVE InStep'
  <2> SUFFICES ASSUME channel = "open", ~gap PROVE InStep'
    BY <1>3 DEF MouseDown, InStep
  <2>1. CASE locked
    <3>1. Control(b, TRUE) \in Messages /\ Send(<<Control(b, TRUE)>>)
      BY <1>3, <1>c, <2>1, SentMessages DEF MouseDown
    <3>2. held' = held /\ heldPad' = heldPad
      BY <1>3 DEF MouseDown
    <3>3. \A k \in Keys : Control(b, TRUE) # Control(k, TRUE)
      BY <1>m
    <3>4. \A k \in Keys : Ends(net', held', k) => focused' /\ k \in down'
      BY <1>3, <1>s, <3>1, <3>2, <3>3 DEF MouseDown
    <3>5. \A c \in Buttons : Ends(net', held', c) =>
            c \in orphans' \/ (locked' /\ c \in down')
      BY <1>3, <1>m, <1>s, <2>1, <3>1, <3>2 DEF MouseDown
    <3>6. \A p \in Pads : EndsPad(net', heldPad', p) => p \in {Neutral, lastPad'}
      BY <1>3, <1>m, <1>s, <3>1, <3>2 DEF MouseDown
    <3> QED
      BY <3>4, <3>5, <3>6 DEF InStep
  <2>2. CASE ~locked
    BY <1>3, <1>q, <2>2 DEF MouseDown
  <2> QED
    BY <2>1, <2>2
<1>4. ASSUME NEW b \in Buttons, MouseUp(b) PROVE InStep'
  <2> SUFFICES ASSUME channel = "open", ~gap PROVE InStep'
    BY <1>4 DEF MouseUp, InStep
  <2>1. CASE locked
    <3>1. Control(b, FALSE) \in Messages /\ Send(<<Control(b, FALSE)>>)
      BY <1>4, <1>c, <2>1, SentMessages DEF MouseUp
    <3>2. held' = held /\ heldPad' = heldPad
      BY <1>4 DEF MouseUp
    <3> QED
      BY <1>4, <1>m, <1>s, <1>c, <2>1, <3>1, <3>2 DEF MouseUp, InStep, Clears
  <2>2. CASE ~locked
    BY <1>4, <1>q, <2>2 DEF MouseUp
  <2> QED
    BY <2>1, <2>2
<1>5. ASSUME NEW p \in Pads, UserMovesPad(p) PROVE InStep'
  BY <1>5, <1>q DEF UserMovesPad
<1>6. CASE LockPointer \/ UnlockPointer \/ Focus
  BY <1>6, <1>q DEF LockPointer, UnlockPointer, Focus
<1>7. CASE Blur
  <2> SUFFICES ASSUME channel = "open", ~gap PROVE InStep'
    BY <1>7 DEF Blur, InStep
  <2>1. ReleaseAll \in Messages /\ Send(<<ReleaseAll>>)
    BY <1>7, <1>c, SentMessages DEF Blur
  <2>2. held' = held /\ heldPad' = heldPad
    BY <1>7 DEF Blur
  <2> QED
    BY <1>7, <1>m, <1>s, <2>1, <2>2 DEF Blur, InStep, Clears
<1>8. CASE Connect \/ SignalingDrops
  BY <1>8, <1>q DEF Connect, SignalingDrops
<1>9. CASE Disconnect \/ BrowserVanishes
  BY <1>9 DEF Disconnect, BrowserVanishes, InStep
<1>10. CASE ChannelOpens
  <2>1. net' = <<>> /\ held' = {} /\ heldPad' = Neutral
    BY <1>10 DEF ChannelOpens, Phases
  <2>2. /\ \A k : ~Ends(net', held', k)
        /\ \A p : EndsPad(net', heldPad', p) => p = Neutral
    BY <2>1 DEF Ends, EndsPad
  <2> QED
    BY <2>2 DEF InStep
<1>11. CASE PollGamepads
  <2> SUFFICES ASSUME channel = "open", ~gap PROVE InStep'
    BY <1>11 DEF PollGamepads, InStep
  <2>1. Gamepad(pad) \in Messages /\ Send(<<Gamepad(pad)>>)
    BY <1>11, SentMessages DEF PollGamepads, TypeOK
  <2>2. held' = held /\ heldPad' = heldPad
    BY <1>11 DEF PollGamepads
  <2> QED
    BY <1>11, <1>m, <1>s, <2>1, <2>2 DEF PollGamepads, InStep, Clears
<1>12. ASSUME NEW i \in 1 .. Len(net), Lose(i) PROVE InStep'
  BY <1>12 DEF Lose, InStep
<1>13. ASSUME NEW i \in 1 .. Len(net), Deliver(i) PROVE InStep'
  <2> SUFFICES ASSUME channel = "open", ~gap' PROVE InStep'
    BY <1>13 DEF Deliver, InStep
  <2>1. CASE net = <<ReleaseAll>>
    <3>1. i = 1 /\ net[1] = ReleaseAll /\ Len(net) = 1
      BY <1>13, <2>1
    <3>2. Len(net') = 0
      <4>1. net' = RemoveAt(net, 1) /\ 1 \in 1 .. Len(net)
            /\ net \in Seq(Messages)
        BY <1>13, <3>1 DEF Deliver, TypeOK
      <4>2. Len(net') = Len(net) - 1
        BY <4>1, Removed
      <4> QED
        BY <3>1, <4>2
    <3>3. held' = {} /\ heldPad' = Neutral
      BY <1>13, <3>1 DEF Deliver, Apply, ReleaseAll
    <3> QED
      BY <3>2, <3>3 DEF InStep, Ends, EndsPad
  <2>2. CASE net # <<ReleaseAll>>
    <3>1. ~gap /\ ~(i > 1)
      BY <1>13, <2>2, Zenon DEF Deliver
    <3>2. i = 1
      BY <3>1
    <3> QED
      BY <1>13, <3>1, <3>2, HandledEnds DEF Deliver, InStep, TypeOK
  <2> QED
    BY <2>1, <2>2
<1>14. CASE Teardown
  <2>1. UNCHANGED <<down, focused, locked, orphans, channel, lastPad, net, gap>>
    BY <1>14 DEF Teardown, SessionEnds, PeerCloses, PeerCloseReported,
                 ChannelCloses
  <2>2. \/ UNCHANGED sinkVars
        \/ held' = {} /\ heldPad' = Neutral
    BY <1>14 DEF Teardown, SessionEnds, PeerCloses, PeerCloseReported,
                 ChannelCloses, SinkReleasesAll
  <2>3. /\ \A k : Ends(net', held', k) => Ends(net, held, k)
        /\ \A p : EndsPad(net', heldPad', p) =>
              p = Neutral \/ EndsPad(net, heldPad, p)
    BY <2>1, <2>2 DEF Ends, EndsPad
  <2> QED
    BY <2>1, <2>3 DEF InStep
<1>15. CASE UNCHANGED vars
  BY <1>15, <1>q DEF vars
<1> QED
  BY <1>1, <1>2, <1>3, <1>4, <1>5, <1>6, <1>7, <1>8, <1>9, <1>10, <1>11, <1>12,
     <1>13, <1>14, <1>15 DEF Next, UserStep

\* Neither a key released out of focus nor an old gamepad state stays with the
\* host, for any number of keys, buttons and messages on their way.
THEOREM NothingStuck == Spec => []NoStuckInput
<1>1. Init => InStep
  BY DEF Init, InStep
<1>2. TypeOK /\ InStep => NoStuckInput
  <2> SUFFICES ASSUME TypeOK, InStep, channel = "open", net = <<>>, ~gap
               PROVE  NoStuckInput
    BY DEF NoStuckInput
  <2>1. /\ \A k \in held : Ends(net, held, k)
        /\ EndsPad(net, heldPad, heldPad)
    BY DEF Ends, EndsPad
  <2> QED
    BY <2>1 DEF InStep, NoStuckInput, TypeOK
<1>3. TypeOK /\ Phases /\ InStep /\ [Next]_vars => InStep'
  BY StepInStep
<1> QED
  BY <1>1, <1>2, <1>3, TypeCorrect, PhasesHold, PTL DEF Spec
=============================================================================
