--------------------------- MODULE VirtualChannel ---------------------------
(***************************************************************************)
(* Reception on one TC virtual channel of the data link layer: FARM-1      *)
(* (VirtualChannelReception and its three states) and the extraction of    *)
(* packets from the accepted frames (MapPacketExtraction), with the sender *)
(* on ground that the CLCW is meant for.  The ground is not in the         *)
(* sources: it keeps a window of unacknowledged frames, repeats them in    *)
(* any order, and unlocks and sets V(R) as COP-1 has it.                   *)
(*                                                                         *)
(* A step on board is one frame through processFrame.  A frame that        *)
(* DataLinkLayer refuses (version, length, CRC) is a lost frame.  There is *)
(* one virtual channel with one MAP channel; farmBCounter, which only      *)
(* counts, is left out.                                                    *)
(***************************************************************************)
EXTENDS Integers, Sequences, FiniteSets

CONSTANTS
  Modulus,           \* 2^8: N(S) and V(R) are uint8_t
  SlidingWindowWidth,
  MAX_PACKET_SIZE,   \* of packetBuffer
  MINIMUM_SIZE,      \* of SpacePacketBase: a header and a CRC
  Frames,            \* AD frames of the ground in order, [flag, size, ends]
  FirstVr,           \* the V(R) the ground may start with
  LinkDepth,         \* frames on their way
  Losses, Strays, Waits, Refusals, Bypasses   \* bounds on what goes wrong, and on BD frames

Flag == {"NO_SEGMENTATION", "FIRST_PORTION", "CONTINUING_PORTION", "LAST_PORTION"}
Unfinished == {"FIRST_PORTION", "CONTINUING_PORTION"}
Number == 0 .. Modulus - 1
positiveWindow == SlidingWindowWidth \div 2
negativeWindow == SlidingWindowWidth \div 2

\* In a frame without segmentation, "ends" has where its packets end by their
\* headers, and "left" is what the frame has from the start of packet k.
start(i, k) == IF k = 1 THEN 0 ELSE Frames[i].ends[k - 1]
left(i, k) == Frames[i].size - start(i, k)

\* initialize refuses odd widths and those over 254; it accepts 0, with which
\* the ground may send nothing.  Segments come as the protocol has them, and
\* there is a header wherever more than MINIMUM_SIZE bytes are left.
ASSUME ChannelAssumption ==
  /\ Modulus \in Nat /\ Modulus % 2 = 0
  /\ SlidingWindowWidth \in 2 .. Modulus - 2 /\ SlidingWindowWidth % 2 = 0
  /\ {MAX_PACKET_SIZE, MINIMUM_SIZE} \subseteq Nat
  /\ Frames \in Seq([flag : Flag, size : Nat \ {0}, ends : Seq(Nat \ {0})])
  /\ \A i \in DOMAIN Frames :
       Frames[i].flag \in {"CONTINUING_PORTION", "LAST_PORTION"}
         <=> i > 1 /\ Frames[i - 1].flag \in Unfinished
  /\ \A i \in DOMAIN Frames :
       /\ \A k \in DOMAIN Frames[i].ends : start(i, k) < Frames[i].ends[k]
       /\ Frames[i].flag = "NO_SEGMENTATION" =>
            left(i, Len(Frames[i].ends) + 1) <= MINIMUM_SIZE
  /\ FirstVr \subseteq Number
  /\ LinkDepth \in Nat \ {0}
  /\ {Losses, Strays, Waits, Refusals, Bypasses} \subseteq Nat

VARIABLES
  farm,                  \* currentState, vR and the flags of internalClcw
  clcw,                  \* the register that telemetry reports
  lastSegmentationFlag, packetBuffer, packetLength,
  delivered,             \* packets sent to the distributor
  uplink,                \* frames on their way
  report,                \* the CLCW on its way
  ground,                \* [vS, acked, sent, syncing, blocked]
  received, spoilt, lost,   \* history: see the properties
  losses, strays, waits, bypasses

map == <<lastSegmentationFlag, packetBuffer, packetLength>>
history == <<received, spoilt, lost>>
onboard == <<farm, clcw, map, delivered, history>>
counters == <<losses, strays, waits, bypasses>>
channelVars == <<onboard, uplink, report, ground, counters>>

NoReport == [vR |-> 0, lockout |-> FALSE, wait |-> FALSE, retransmit |-> FALSE]

ChannelInit ==
  /\ farm = [currentState |-> "open", vR |-> 0,
             lockout |-> FALSE, wait |-> FALSE, retransmit |-> FALSE]
  /\ clcw = NoReport /\ report = NoReport
  /\ lastSegmentationFlag = "NO_SEGMENTATION" /\ packetBuffer = << >> /\ packetLength = 0
  /\ delivered = << >> /\ uplink = << >>
  /\ \E v \in FirstVr : ground = [vS |-> v, acked |-> 0, sent |-> 0,
                                  syncing |-> TRUE, blocked |-> FALSE]
  /\ received = 0 /\ spoilt = {} /\ lost = {}
  /\ losses = 0 /\ strays = 0 /\ waits = 0 /\ bypasses = 0

-----------------------------------------------------------------------------
(***************************************************************************)
(* FARM-1.  The operators give the machine as it is afterwards.            *)
(***************************************************************************)
\* int8_t diff = N(S) - V(R)
Diff(n) == LET d == (n - farm.vR) % Modulus
           IN  IF d < Modulus \div 2 THEN d ELSE d - Modulus

Successor(v) == (v + 1) % Modulus

\* Seeded fault: the lower edge of the window is left out.
InWindow_LowerEdge(d) == d > -negativeWindow /\ d < positiveWindow
InWindow(d) == d >= -negativeWindow /\ d < positiveWindow

Accepts(n) == farm.currentState = "open" /\ Diff(n) = 0

Locked == [farm EXCEPT !.lockout = TRUE, !.currentState = "lockout"]

handleADFrame(n) ==
  CASE Accepts(n) -> [farm EXCEPT !.vR = Successor(@), !.retransmit = FALSE]
    [] farm.currentState # "lockout" /\ ~InWindow(Diff(n)) -> Locked
    [] farm.currentState = "open" /\ Diff(n) > 0 /\ InWindow(Diff(n)) ->
         [farm EXCEPT !.retransmit = TRUE]
    [] OTHER -> farm

\* Seeded fault: the lockout flag stays in the CLCW.
handleBCUnlockCommand_FlagKept ==
  [farm EXCEPT !.retransmit = FALSE, !.wait = FALSE, !.currentState = "open"]

\* The open state leaves the lockout flag alone, as it is not set there
handleBCUnlockCommand ==
  [farm EXCEPT !.retransmit = FALSE, !.wait = FALSE, !.lockout = FALSE,
               !.currentState = "open"]

handleBCSetVrCommand(v) ==
  IF farm.currentState = "lockout" THEN farm
  ELSE [farm EXCEPT !.wait = FALSE, !.retransmit = FALSE, !.vR = v,
                    !.currentState = "open"]

\* frameAcceptanceAndReportingMechanism writes the CLCW after each frame
Reported(f) == /\ farm' = f
               /\ clcw' = [vR |-> f.vR, lockout |-> f.lockout, wait |-> f.wait,
                           retransmit |-> f.retransmit]

-----------------------------------------------------------------------------
(***************************************************************************)
(* Packets.  A piece is <<frame, part>>, where the frame of a BD frame is  *)
(* 0; a packet is the sequence of its pieces.                              *)
(***************************************************************************)
BypassPacket == << <<0, 1>> >>

\* The packets of frame i that end within it
Whole(i) == {k \in DOMAIN Frames[i].ends : Frames[i].ends[k] <= Frames[i].size}

\* Seeded fault: a packet that goes on after the frame is sent.
unpackBlockingPackets_Unchecked(i) ==
  [k \in {j \in DOMAIN Frames[i].ends : /\ Frames[i].size <= MAX_PACKET_SIZE
                                        /\ left(i, j) > MINIMUM_SIZE} |-> << <<i, k>> >>]

\* None of a frame that is too large (CONTENT_TOO_LARGE); else up to the first
\* packet that goes on after the frame (DATA_CORRUPTED), or that starts where
\* at most MINIMUM_SIZE bytes are left (RESIDUAL_DATA).
unpackBlockingPackets(i) ==
  [k \in {j \in Whole(i) : /\ Frames[i].size <= MAX_PACKET_SIZE
                           /\ left(i, j) > MINIMUM_SIZE} |-> << <<i, k>> >>]

\* Whether sendCompletePacket has put a packet into store and queue is not
\* looked at: what they refuse is gone, the others are kept in their order.
SendCompletePackets(packets) ==
  \E n \in 0 .. Len(packets) : \E kept \in [1 .. n -> DOMAIN packets] :
    LET refused == {packets[k] : k \in DOMAIN packets \ {kept[j] : j \in 1 .. n}}
    IN  /\ \A k \in 1 .. n : \A j \in 1 .. k - 1 : kept[j] < kept[k]
        /\ Cardinality(lost) + Cardinality(refused) <= Refusals
        /\ delivered' = delivered \o [k \in 1 .. n |-> packets[kept[k]]]
        /\ lost' = lost \union refused

clearBuffers == packetBuffer' = << >> /\ packetLength' = 0

\* lastSegmentationFlag, which clearBuffers has reset, gets the flag of the
\* frame even if it was refused
Segment(i) ==
  LET length == (IF Frames[i].flag = "FIRST_PORTION" THEN 0 ELSE packetLength) + Frames[i].size
      before == IF Frames[i].flag = "FIRST_PORTION" THEN << >> ELSE packetBuffer
      legal == Frames[i].flag = "FIRST_PORTION" \/ lastSegmentationFlag \in Unfinished
  IN  IF ~legal \/ length > MAX_PACKET_SIZE
      THEN clearBuffers /\ UNCHANGED <<delivered, lost>>
      ELSE IF Frames[i].flag = "LAST_PORTION"
      THEN clearBuffers /\ SendCompletePackets(<< Append(before, <<i, 1>>) >>)
      ELSE /\ packetBuffer' = Append(before, <<i, 1>>) /\ packetLength' = length
           /\ UNCHANGED <<delivered, lost>>

extractPackets(i) ==
  /\ lastSegmentationFlag' = Frames[i].flag
  /\ IF Frames[i].flag = "NO_SEGMENTATION"
     THEN /\ SendCompletePackets(unpackBlockingPackets(i))
          /\ UNCHANGED <<packetBuffer, packetLength>>
     ELSE Segment(i)

\* A BD frame carries one packet without segmentation, or residual data
extractBypass ==
  /\ lastSegmentationFlag' = "NO_SEGMENTATION"
  /\ \E n \in {0, 1} : SendCompletePackets([k \in 1 .. n |-> BypassPacket])
  /\ UNCHANGED <<packetBuffer, packetLength>>

\* A BD frame that comes after a segment, with the packet unfinished
Interrupted == {i \in {received} : i > 0 /\ Frames[i].flag \in Unfinished}

-----------------------------------------------------------------------------
(***************************************************************************)
(* Frames on board.                                                        *)
(***************************************************************************)
Arrives(type) == /\ uplink # << >> /\ Head(uplink).type = type
                 /\ uplink' = Tail(uplink)
                 /\ UNCHANGED <<report, ground, counters>>

ReceiveAD ==
  LET frame == Head(uplink)
  IN  /\ Arrives("AD")
      /\ Reported(handleADFrame(frame.n))
      /\ IF Accepts(frame.n)
         THEN extractPackets(frame.i) /\ received' = received + 1
         ELSE UNCHANGED <<map, delivered, received, lost>>
      /\ UNCHANGED spoilt

ReceiveBD == /\ Arrives("BD")
             /\ Reported(farm)
             /\ extractBypass
             /\ spoilt' = spoilt \union Interrupted
             /\ UNCHANGED received

ReceiveUnlock == /\ Arrives("UNLOCK")
                 /\ Reported(handleBCUnlockCommand)
                 /\ UNCHANGED <<map, delivered, history>>

ReceiveSetVr == /\ Arrives("SET_V_R")
                /\ Reported(handleBCSetVrCommand(Head(uplink).n))
                /\ UNCHANGED <<map, delivered, history>>

\* An AD frame of another sender.  One that has the expected number by chance
\* is nothing a receiver can tell.
ReceiveStray ==
  /\ strays < Strays /\ strays' = strays + 1
  /\ \E n \in Number \ {farm.vR} : Reported(handleADFrame(n))
  /\ UNCHANGED <<map, delivered, history, uplink, report, ground, losses, waits, bypasses>>

\* Called by nobody in the sources, and taken for a call in the open state;
\* the CLCW tells it with the next frame.
setToWaitState ==
  /\ waits < Waits /\ waits' = waits + 1
  /\ farm.currentState = "open"
  /\ farm' = [farm EXCEPT !.wait = TRUE, !.currentState = "wait"]
  /\ UNCHANGED <<clcw, map, delivered, history, uplink, report, ground, losses, strays, bypasses>>

-----------------------------------------------------------------------------
(***************************************************************************)
(* The link and the ground.                                                *)
(***************************************************************************)
LoseFrame == /\ losses < Losses /\ losses' = losses + 1
             /\ uplink # << >> /\ uplink' = Tail(uplink)
             /\ UNCHANGED <<onboard, report, ground, strays, waits, bypasses>>

\* The CLCW comes with each telemetry frame; a later one replaces one not
\* read yet.
SendClcw == /\ report' = clcw
            /\ UNCHANGED <<onboard, uplink, ground, counters>>

Transmit(type, n, i) == /\ Len(uplink) < LinkDepth
                        /\ uplink' = Append(uplink, [type |-> type, n |-> n, i |-> i])
                        /\ UNCHANGED <<onboard, report, losses, strays, waits>>

\* N(S) of frame i: vS is that of frame 1
NumberOf(i) == (ground.vS + i - 1) % Modulus

\* A new frame, or one that is not acknowledged, within the window
SendAD(i) ==
  /\ ~ground.syncing /\ ~ground.blocked
  /\ i \in ground.acked + 1 .. ground.acked + positiveWindow
  /\ i <= ground.sent + 1 /\ i <= Len(Frames)
  /\ Transmit("AD", NumberOf(i), i)
  /\ ground' = [ground EXCEPT !.sent = IF i > @ THEN i ELSE @]
  /\ UNCHANGED bypasses

SendBD == /\ bypasses < Bypasses /\ bypasses' = bypasses + 1
          /\ Transmit("BD", 0, 0)
          /\ UNCHANGED ground

SendUnlock == /\ ground.blocked
              /\ Transmit("UNLOCK", 0, 0)
              /\ UNCHANGED <<ground, bypasses>>

SendSetVr == /\ ground.syncing /\ ~ground.blocked
             /\ Transmit("SET_V_R", ground.vS, 0)
             /\ UNCHANGED <<ground, bypasses>>

\* The frames that a V(R) acknowledges
Acknowledged(v) == {a \in ground.acked .. ground.sent : (ground.vS + a) % Modulus = v}

ReadClcw ==
  /\ ground' = [ground EXCEPT
       !.blocked = report.lockout \/ report.wait,
       !.syncing = @ /\ (report.vR # ground.vS \/ report.lockout \/ report.wait),
       !.acked = IF ground.syncing \/ Acknowledged(report.vR) = {} THEN @
                 ELSE CHOOSE a \in Acknowledged(report.vR) : TRUE]
  /\ UNCHANGED <<onboard, uplink, report, counters>>

Receive == ReceiveAD \/ ReceiveBD \/ ReceiveUnlock \/ ReceiveSetVr

ChannelNext ==
  \/ Receive \/ ReceiveStray \/ setToWaitState
  \/ LoseFrame \/ SendClcw \/ ReadClcw
  \/ \E i \in DOMAIN Frames : SendAD(i)
  \/ SendBD \/ SendUnlock \/ SendSetVr

\* Frames are processed as they come, telemetry goes on, and the ground repeats
\* what is needed next.
ChannelFairness ==
  /\ WF_channelVars(Receive) /\ WF_channelVars(SendClcw) /\ WF_channelVars(ReadClcw)
  /\ SF_channelVars(SendUnlock) /\ SF_channelVars(SendSetVr)
  /\ SF_channelVars(SendAD(ground.acked + 1))

ChannelSpec == ChannelInit /\ [][ChannelNext]_channelVars
FairChannelSpec == ChannelSpec /\ ChannelFairness

-----------------------------------------------------------------------------
\* A ground that keeps to its window is never out of step, whatever is lost,
\* repeated or delayed: V(R) is the number of the first frame that was not
\* received, that is one the ground has not given up, and none of its frames
\* locks the channel out.
InStep ==
  ~ground.syncing =>
    /\ farm.vR = (ground.vS + received) % Modulus
    /\ received \in ground.acked .. ground.sent
    /\ uplink # << >> /\ Head(uplink).type = "AD" => InWindow(Diff(Head(uplink).n))

\* Frames f to i are segments of one packet that goes on after them
Begun(f, i) == /\ Frames[f].flag = "FIRST_PORTION"
               /\ \A j \in f + 1 .. i : Frames[j].flag = "CONTINUING_PORTION"

\* The pieces in the segments f to e
Pieces(f, e) == [j \in 1 .. e - f + 1 |-> <<f + j - 1, 1>>]

\* The packets that frame i completes, and those of the first n frames
CompletedBy(i) ==
  CASE Frames[i].flag = "NO_SEGMENTATION" -> {<< <<i, k>> >> : k \in Whole(i)}
    [] Frames[i].flag = "LAST_PORTION" -> {Pieces(f, i) : f \in {g \in 1 .. i - 1 : Begun(g, i - 1)}}
    [] OTHER -> {}
PacketsIn(n) == UNION {CompletedBy(i) : i \in 1 .. n}

\* Size of the packet up to frame i
SizeAt[i \in DOMAIN Frames] ==
  Frames[i].size + IF Frames[i].flag \in {"CONTINUING_PORTION", "LAST_PORTION"}
                   THEN SizeAt[i - 1] ELSE 0

Elements(s) == {s[k] : k \in DOMAIN s}
Ending(p) == p[Len(p)]
Rests(p) == {SubSeq(p, k, Len(p)) : k \in 2 .. Len(p)}

\* A packet without segmentation in the last MINIMUM_SIZE bytes of its frame
Residual(p) == /\ Frames[Ending(p)[1]].flag = "NO_SEGMENTATION"
               /\ left(Ending(p)[1], Ending(p)[2]) <= MINIMUM_SIZE

\* Fits the buffer, is not left over, and no BD frame came between its segments
Sound(p) == /\ SizeAt[Ending(p)[1]] <= MAX_PACKET_SIZE
            /\ ~Residual(p)
            /\ \A k \in 1 .. Len(p) - 1 : p[k][1] \notin spoilt

\* p ends before q does
Before(p, q) == \/ Ending(p)[1] < Ending(q)[1]
                \/ Ending(p)[1] = Ending(q)[1] /\ Ending(p)[2] < Ending(q)[2]

\* The distributor gets the packets of the accepted frames: all, once, and in
\* the order of the ground, except those that store or queue refuse and those
\* in the last MINIMUM_SIZE bytes of a frame, which stay there as residual data.
\* Packets that a BD frame interrupts, or that (or whose frame) are larger than
\* the buffer, are dropped or (as the flag of a refused segment is kept) cut off
\* at their beginning.  No packet is ever joined with another one, and one that
\* its frame cuts off is not delivered.
DeliveredInOrder ==
  /\ \A p \in PacketsIn(received) : Sound(p) => p \in Elements(delivered) \union lost
  /\ \A p \in Elements(delivered) \ {BypassPacket} :
       \E q \in PacketsIn(received) : p = q \/ (~Sound(q) /\ p \in Rests(q))
  /\ \A j, k \in DOMAIN delivered :
       j < k /\ delivered[j] # BypassPacket /\ delivered[k] # BypassPacket
         => Before(delivered[j], delivered[k])

\* Everything is received and acknowledged in the end: no sequence of losses,
\* foreign frames, waits and lockouts leaves ground and board stuck.
EverythingArrives == <>[](ground.acked = Len(Frames))
=============================================================================
