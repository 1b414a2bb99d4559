# TmTcInterface: TLA+ models, model checking and proofs

TmTcInterface is the telemetry and telecommand side of an on-board software. It is
built on the FSFW (`src/fsfw`), a C++ framework of tasks, message queues, packet
stores, PUS services, device handlers and a mode tree; `src/mission` and
`src/bsp_linux` assemble it into one Linux program. This directory models the parts
that carry control of their own: the packet stores, the path of telemetry to the
ground and of telecommands from it, the services that forward commands and report on
them, housekeeping, and of the framework the device handler, the mode tree and the
reception of frames. TLC checks the models on small instances; TLAPS proves the safety
properties of the packet stores, of the two paths, of the commanding services, of housekeeping,
of the device handler and of frame acceptance for all values of the constants.

## 1. Inventory

### The parts that are modelled

**Packet stores** (`fsfw/storagemanager`: `LocalPool`, `PoolManager`, `StorageManagerIF`).
State: `size_list` (bytes in each element, or free) and `store` (the data), in several
pools of fixed element size; `PoolManager` adds a mutex. Operations: `addData` and
`getFreeElement` (search an element, reserve it, write), `modifyData`/`getData`
(a pointer to the element), `deleteData` by address or by pointer. Every task of the
program uses the stores concurrently. The lock covers only search and reservation, and
deletion; reading and writing rely on the rule that the address of a packet is passed
on like a token. Hard: what is inside the lock and what is not, a lock that times out,
a pool that is full and spills, the width of the integer that holds a position.
Correct when no element is given out twice, nobody damages another holder's packet, and
nothing is left in use without an owner.

**TM path** (`TmPacketStored`, `TmFunnel`, `TmTcBridge`, `ESBOTmBridge`).
State: the TM store, the funnel's queue and sequence count, the bridge's queue, its FIFO
of packets kept while the link is down, `tmStored`, `packetSentCounter`,
`communicationLinkUp`. Services create packets and send their addresses to the funnel,
which stamps them with the sequence count and sends them to the bridge, which sends them
down or keeps them. Hard: each queue and the FIFO can be full, and on each such path
exactly one party must delete the packet; the link changes at any time from another task;
a cycle's limit is shared by two loops. Correct when each packet has exactly one holder
until it is deleted, and everything in the store leaves it in the end.

**TC path** (`ESBOTcPolling`, `CCSDSDistributor`, `PUSDistributor`, `TcDistributor`,
`PusServiceBase`, `VerificationReporter`, `Service1TelecommandVerification`).
State: the TC store, four kinds of queue, the packet each task works on. A datagram is
stored, forwarded twice, checked, forwarded to its service, handled and deleted; the
distributor and the services send reports to Service 1. Both distributors (and the funnel)
run in one task (`DIST`, priority 40); services run in tasks of priority 4 to 80, so
that a service can run between two statements of the distributor. Hard: full queues,
and packets that are used after they were handed over. Correct when each packet has one
holder and each telecommand one verdict.

**Commanding services** (`CommandingServiceBase`, `Service8FunctionManagement`, and on
the other side `HasActionsIF`/`ActionHelper`). State: the map of active commands (one
for each object, with a FIFO of telecommands that wait for it), request queue, command
queue, start times. One cycle handles all replies, then all requests, then all timeouts;
a command that ends starts the next one of its FIFO, which may itself end at once, from
within any of the three loops and while the map shrinks. Hard: that recursion, replies
after a timeout, several replies for one command, lost replies, full FIFO and map. Correct
when the ground gets one consistent sequence of reports for each telecommand, none is
forgotten, and every one ends.

**Housekeeping** (`Service3HousekeepingPSB`, `HkPacketDefinition`, `hkInit`, on
`PusServiceBase`). State: a `LocalPool` of report definitions, two maps from structure id
to pool address (housekeeping and diagnostics reports), each definition's interval,
counter and switch, the cycle counter that decides when the slow map is looked at.
Operations: define, delete, append to, switch, change, describe and report a structure,
and the periodic generation. Hard: a definition is in the pool and in a map, and commands
that fail half way must not separate the two; counters that start, stop and are compared
one off; one field (`isDiagnostics`) that selects map and units for all of them. Correct
when pool and maps agree and enabled reports come once in each interval.

**Device handlers** (`DeviceHandlerBase`, `DeviceHandlerFailureIsolation`). Two machines
in one object, run by one task in four calls for each cycle. The *exchange*: the command
and reply maps, the cookie with the stage of the transfer, countdowns for replies; commands
come from outside, from the ground in raw form, or from the handler itself; writes,
confirmations and reads fail, replies are late, twice, unrequested or missing. The *modes*:
base modes and transitions, the power switch with its delay, the child's transitions with
their timeout, mode and health commands of several commanders, and the failure isolation
with recoveries and reboots, whose events come back into the middle of the calls that
raise them. Correct when a command is answered for good exactly once by the entry that kept
its commander, when no error leaves a command blocked, when each mode command ends and is
answered, and when the power switch agrees with the mode.

**Mode tree** (`SubsystemBase`, `Subsystem`, `ModeHelper`, `HealthHelper`). State: the
sequence being executed, its table and step, the count of replies outstanding, the modes the
children are believed to be in, change flags; and in the children, the mode and the
commander. Hard: replies of a table that was given up arrive during the next one; children
are commanded by others, refuse, fail and change their health at any moment. Correct when
the subsystem knows its children's modes, acts on each deviation, and never waits for a
reply that nobody sends.

**Data link layer** (`DataLinkLayer`, `VirtualChannelReception` with the three FARM-1
states, `Clcw`, `MapPacketExtraction`). State: V(R), the FARM state, the flags of the CLCW,
the segment buffer. Frames from the ground are accepted by their number, and packets are
taken out of them, several from one frame or one from several. Hard: numbers that wrap,
the two edges of the window, frames lost, repeated and from another sender, recovery from
lockout and wait, segments interrupted by bypass frames. Correct when a sender that keeps
to the protocol is never locked out by its own frames, packets come out once and in order,
and everything arrives.

**IPC** (`MessageQueue`, `Mutex`, `MutexHelper`) and **containers** (`FIFO`, `DynamicFIFO`,
`FixedMap`) appear in the modules where they are used.

This program instantiates no device handler, no subsystem and no virtual channel: these
three are parts of the framework that is in its sources.

### The parts that are not modelled

| Part | State and behaviour | Why it is not modelled |
| --- | --- | --- |
| Operating system abstraction (`osal`, `tasks`) | wrappers of threads, clocks, semaphores | system calls; the tasks are the fairness of the models |
| Events, Service 5 | listeners and a matching tree | next in the plan; in `DeviceModes` an event is what its receiver does with it |
| Data pool | shared variables behind one lock | sequential |
| Parameter service | reads and writes of the data pool | conversion of data mostly |
| Services 2, 9, 17 | contents for the two service skeletons | the skeletons are modelled |
| Status and time packets | receive and forward fixed packets | their tasks are not started; the path is that of telecommands |
| Monitoring, controller, memory, time manager, TM storage | base classes | not instantiated, apart from the clock |
| Serialisation, helpers, object manager, logging | conversion and lookup | sequential, formatting |
| Coordinates, SGP4, test data | numerics and CSV | floating point; no control |
| Start-up and configuration | objects, pool sizes, priorities, periods | gives the constants and the fairness |

`InitMission.cpp` creates the task of the telecommand poller and has its `startTask` call
commented out, like those of status and time packets. The models take the poller as
running: it is the only producer of telecommands the sources have.

## 2. Modules

| Module | Models | Built from |
| --- | --- | --- |
| `TokenStore` | what a packet store promises: an element in use has one holder, and only the holder touches it | class comment of `StorageManagerIF` and its operations |
| `StoragePool` | `LocalPool` and `PoolManager` under concurrent tasks | refines `TokenStore` |
| `TmDownlink` | the TM path | refines `TokenStore` |
| `TcUplink` | the TC path, up to the queue of Service 1 | refines `TokenStore` |
| `AddressQueues` | which addresses are in a queue, for the properties of both paths | `MessageQueue` |
| `CommandingService` | `CommandingServiceBase` with Service 8 and the objects' `ActionHelper` | on its own |
| `Housekeeping` | Service 3 with its pool, its two maps and `PusServiceBase` around it | on its own |
| `ModeHolder` | what an object with a mode promises its commanders: a mode command is taken on or refused, ends, and is answered once | `ModeHelper` |
| `DeviceExchange` | the command and reply cycle of `DeviceHandlerBase` | takes transitions as ending in any mode |
| `DeviceModes` | the mode machine of `DeviceHandlerBase`, its power switch and failure isolation | refines `ModeHolder` |
| `Subsystem` | `Subsystem` and `SubsystemBase` with the children's `ModeHelper` and `HealthHelper` | its children keep the promise of `ModeHolder` |
| `VirtualChannel` | FARM-1 and packet extraction of one virtual channel, the link, and a sender on ground | on its own |
| `StoragePool_proofs`, `TmDownlink_proofs`, `Uplink_proofs` (of `TcUplink` and `VirtualChannel`), `CommandingService_proofs`, `Housekeeping_proofs`, `DeviceExchange_proofs`, `DeviceModes_proofs`, `Subsystem_proofs` | theorems | |
| `MC...` | instances for TLC | |

`TmDownlink` and `TcUplink` use the stores through atomic operations: that a store's
operations can be taken so is what `StoragePool`'s refinement of `TokenStore` shows, under
the condition that its users keep the token discipline; that the two paths do keep it is
what their own refinement of `TokenStore` shows. The two halves meet in `TokenStore`. In
the same way `DeviceModes` and `Subsystem` meet in `ModeHolder`: a child of `Subsystem`
refuses commands in transition, ends each transition and answers once, which is what
`DeviceModes` is shown to do.

### State and actions

*StoragePool.* `pc` is the point a task has reached in a call. `addData` is `AddData`
(the call), `LockForAdd`, `Search` or `SearchFails`, `Reserve` (both end the lock's scope)
and `Write` (outside of the lock); `deleteData` is `DeleteData`, `LockForDelete`,
`ClearPage` (the memset) and `Release`. The callers' side is `tokens`: the addresses a
task may use, with what it has stored there; `Pass` is a message that carries an address.
`Enter` has the branch in which `MutexHelper` logs a timeout and goes on, enabled by
`LockTimesOut`; `Unlock` by a task that does not own the mutex is undefined for a POSIX
mutex, and either outcome is possible. `Cleared` computes the elements a memset touches
from a position taken modulo `PositionModulus`, as `deleteData`'s `uint16_t` does. A
failing search leaves the pool index of the last pool tried in the caller's address.

*TmDownlink.* A packet is the service it comes from and its stamp. `CreatePacket` and
`SendPacket` are the two calls of a service; `FunnelReceive`, `FunnelStamp`, `FunnelSend`
are one message in the funnel; the actions `Bridge...` are the steps of `handleTmQueue`,
`storeDownlinkData` and `handleStoredTm`. One step is one access to shared state.

*TcUplink.* `StoreDatagram`, `SendDatagram`: the poller. `Ccsds...`, `Pus...`: the two
distributors in one task. `Service...`: `handleRequestQueue` of a `PusServiceBase`, in
three steps. `verdicts` and `dropped` are history variables for the properties.
`PusAccepted` follows the code: it reads the packet after its address is with the service.

*CommandingService.* `service.step` is the loop `performOperation` is in; `iter` is the
iterator of `checkTimeout`, `entry` the one `startExecution` has. `CheckAndExecuteFifo`
and `StartExecution` keep the iterators as the code does, where one is passed by value
and one by reference. An iterator beyond the end of the map is undefined behaviour: the
model stops there, which is why its configurations switch the deadlock check off (it also
stops when all telecommands are sent, and everything is quiet).

*Housekeeping.* One action is one telecommand, through `handleRequestQueue` and
`handleRequest`, or one cycle of `performService`, which generates the reports that are due
from both maps. Times are cycles of the service. `ReportFails` is the first failure of a
periodic report: `updateErrorMap` then writes through a pointer that `FixedMap::find` has
left NULL, and the model stops (`crashed`). `watched`, `gap` and `waited` are history
variables: the clocks of one structure, any one.

*DeviceExchange.* `pc` names the next piece of the four calls to `performOperation`:
`ReadCommandQueue`, `DoStateMachine`, `DecrementDeviceReplyMap` and the write
(`BuildInternalCommand`, `DoSendWrite`) in the first, then `DoGetWrite`, `DoSendRead`,
`DoGetRead` with `ParseReply` for each frame in the data. `deviceCommandMap` and
`deviceReplyMap` have the fields of the code. `open` and `sent` are history: the commands a
commander has had no final answer to, and the answers of the last step.

*DeviceModes.* `pc` names the next piece of SEND_WRITE. Mode and health messages are
`ReadCommandQueue`; `doStateMachine` has one action for each kind of mode; `fdir` is the
failure isolation, whose reactions are functions of its state because its events come back
in the middle of `setMode` and `handleTransitionFailure`. The power unit, the child's
transitions and the faults are nondeterministic.

*Subsystem.* `HandleMessage` is one message of `checkCommandQueue`; `PerformChildOperation`
is the rest of a cycle, with one action for each branch of `performChildOperation`. The
queue is one queue for each child, as messages of different children arrive in any order.
`TakeCommand`, `Settle`, `Leave` and `SetHealth` are a child with its `ModeHelper` and
`HealthHelper`.

*VirtualChannel.* One step on board is one frame through `processFrame`: `ReceiveAD`,
`ReceiveBD`, `ReceiveUnlock`, `ReceiveSetVr`, with `Reported` writing the CLCW afterwards
as `frameAcceptanceAndReportingMechanism` does. `handleADFrame` and the two BC handlers
have the three states of the FARM in one operator each. A packet is the sequence of its
pieces, so that a packet joined from two would show. A frame without segmentation has the
positions where its packets end by their headers, so that the three exits of
`unpackBlockingPackets` (frame too large, packet cut off, residual data) are those of the code. The ground is not in the sources; it is
the sender COP-1 describes: it sets V(R), sends and repeats the frames of its window in any
order, follows the CLCW it reads, and unlocks. `received`, `spoilt` and `lost` are history.

### Abstractions, all modules

Packets and messages are model values; sizes and positions are kept in `StoragePool`,
`Housekeeping` and `VirtualChannel` only. Message queues are bounded FIFO queues whose send
fails when they are full. Operators whose comment starts with "Seeded fault", named after
what they replace with a suffix (`InWindow_LowerEdge`), are used by no specification: they
are plausible errors in the code, with which each property is shown to be able to fail.

Not in the models: the optional storage destination of the funnel (`NO_OBJECT` here),
`clearStore` (never called), sockets, `recvfrom`'s buffers, the contents of packet checks
(`WellFormed` says which telecommands pass), the packet Service 1 makes of a report; in
`CommandingService` follow-up commands (`nextCommand`, which no service in these sources
sets), the IPC store, `REPLY_REJECTED` (as `COMPLETION_FAILED`), and the clock's wrap after
2^32 ms: an entry keeps the time since its start, which saturates beyond the timeout. The
two replies that `prepareExecution` sends for EXECUTION_FINISHED are sent in one step. No
service here returns EXECUTION_COMPLETE from `prepareCommand`; the base class handles it,
and so does the model. In `Housekeeping` the contents of reports and more than one request
in a cycle (up to ten are possible) are left out. In the device handler: wiretapping, the forwarding of raw
replies, submodes, the FORCED flag, thermal requests, and other implementations of the
virtual functions than the default ones; a power switcher is assumed present, and how many
faults were counted before is any number. In `Subsystem`: submodes, the mode store
(`USE_MODESTORE` is not defined), the commands that maintain tables and sequences, the
answers to the subsystem's own commander; its queue (depth 8) is assumed to have room, and
`executeTable`'s three reads of a child's health are one. In `VirtualChannel`: `farmBCounter`, several channels,
and `DataLinkLayer`'s checks, of which a refused frame is a lost one.

## 3. What the runs check

| Run | Instance | Shows |
| --- | --- | --- |
| `storage_pool` | 2 tasks; two pools with 2 elements of 2 bytes and 1 of 4; packets of 2 and 3 bytes; spilling | no double allocation, packets stay intact, no leak, the pool implements `TokenStore` |
| `tm_downlink` | 2 services, 3 slots, queues of 1 and 2, FIFO of 2, 1 packet for each cycle, count modulo 2 | one holder for each packet, refinement, the store drains when the services are silent |
| `tc_uplink` | 2 good telecommands, a malformed one, one without a service; 3 slots, all queues of 1 | one holder, one verdict, refinement, the store drains |
| `commanding_service` | 3 telecommands, up to 3 objects, a map of 2, FIFOs of 1, queues of 1 and 2 | reports consistent, none forgotten, starts in order, replies not mixed up before a verdict, every telecommand ends |
| `housekeeping` | 2 structures, each of both kinds; maps of 2 and 1, pool with 2 larger elements and 1 smaller; 2 cycles to a second | pool and maps agree, an enabled report is not late, two reports of a structure are an interval apart |
| `device_exchange` | 2 commanders; a command with a direct reply, one with a periodic reply, one without; raw and internal commands; 2 frames in a read | no command blocked, commanders kept, one final answer, every command answered |
| `device_modes` | 2 commanders; a switch delay of 2 cycles, a child's delay of 1, 1 reboot | the switch follows the mode, a faulty device is left alone, the handler implements `ModeHolder` |
| `mode_tree` | 2 children with 2 modes, a safe sequence of one step and an operational one of two, 3 disturbances | children's modes known, no wait for a reply nobody sends, no deviation ignored, every table ends |
| `virtual_channel` | numbers modulo 8, a window of 4, 7 frames: one whose packet goes on after it, a packet in two segments that is too large, one in three that fits, three packets in one frame with the last left over; one loss, foreign frame, wait, refusal and bypass frame | the sender is never out of step, packets are delivered in order, everything arrives |

Bounds. In `storage_pool` three elements for two tasks let the first pool run full, spill,
and the whole store run full while a call is under way; two tasks are enough for every race
between two critical sections. In the two paths there are as many slots as make it possible
that each queue is full while another packet is on its way behind it, and that the store is
full. In `commanding_service` three telecommands for one object mean one active, one
waiting, one refused; for two objects, a full map with one waiting; for three, a refused
entry. `TimeoutSeconds` is 1 and the clock advances by 1 or 2, below and beyond the
timeout. In `tm_downlink` the sequence count wraps at 2 instead of 2^14. Telecommands are
sent once each, and an action sends at most one intermediate reply. In `housekeeping` the
maps have room for three definitions and the elements that the pool really uses for two, so
that either can run full first;
`GapBound` saturates the clock of a report above the longest interval of the instance. In
`device_exchange` `ReplyRange` is 3 for the 2^8 of `expectedReplies`, which wraps within a
few replies, and `IgnoreBound` 1 for the missed replies that are let pass. In `device_modes`
the delays are one and two cycles, so that success comes before, with and after the
timeout, and the second reboot is one too many. In `mode_tree` three disturbances (a child
that leaves its mode, a health change or a command of somebody else) suffice for one in each of
the two steps and one in the fallback; an outbox of 1 for each child is the next reply
waiting behind the one being read. In `virtual_channel` seven frames from V(S) = 6 take the
numbers across the wrap, and a window of 4 on a circle of 8 has all four regions: expected,
above, below and outside. `MINIMUM_SIZE` is 1 for 8 and the buffer 3 bytes for 4096: frames of 3
bytes have packets on each side of both limits. A frame that is larger than the buffer cannot
occur with the code's constants (frames have 1024 bytes at most); it is in the model and the
proof, but not in this run.

The runs of `housekeeping` and `commanding_service` switch the deadlock check off, the
first because it stops after `crashed`, the second as described above.

### Fairness

Periodic tasks run again and again and no call in them blocks, so each task's step is
weakly fair: funnel, bridge, distributors, services, the polling sequence of a device
handler, a subsystem, the reception of frames. A service that has created a packet sends it
in the next statement (`SendPacket`), and so does the poller (`SendDatagram`). Nothing is
assumed of the environment of the paths and services: new telemetry and telecommands may
or may not come, the link may do anything, objects may never answer, Service 1 may be
arbitrarily late. `DrainsWhenSilent` has the silence of the services and the link as its
hypothesis. `DeviceExchange` and `DeviceModes` have one task, whose next piece is weakly
fair, and nothing is assumed of device, power unit and child. In `Subsystem` the children's
tasks are fair as well, and their transitions end: `ModeHolder`'s promise, which
`device_modes` checks. In `VirtualChannel` telemetry and reception are weakly fair, and the
ground is strongly fair in repeating what is needed next: the sender of COP-1 keeps doing
so whenever the link has room.

### What the models found

Each of these runs ends in a counterexample, by what the code does.

- `uplink_acceptance`: the acceptance report is read from a packet that the service may
  have deleted already.
- `timeout_iterator`: a timeout followed by a command that fails to start can leave
  `checkTimeout`'s iterator past the end of the map.
- `late_replies`: replies to the commands of a table that was given up are counted as
  replies to the next one, so that a subsystem goes on before its children have replied.

Some properties are stated with an exception, where the code has it. `RepliesAreNotMixedUp`: a reply
that arrives when the verdict on its telecommand is out (after a timeout, or after a data
reply that was taken for the completion) is taken for the next command of the same object;
the property says that this is the only case. `DeliveredInOrder`: a bypass frame between the
segments of a packet, or a packet larger than the buffer, can lead to the delivery of a
packet without its beginning; and a packet that starts in the last `MINIMUM_SIZE` bytes of its
frame is neither delivered nor refused, but stays there (`RESIDUAL_DATA`). With the 8 bytes of the
code that is a last or sole packet of 7 or 8 bytes. Both are excepted by `Sound`. `FaultyIsLeftKnowingly`: a late confirmation can take a faulty
device into a recovery. `EveryTelecommandEnds` excepts the state of `timeout_iterator`, and
`OneFinalAnswer` periodic replies, whose count wraps.

### What was met while reading

Behaviour of the code that no run is about, for those who maintain it.

- *Locks.* `MutexHelper` only logs a timeout (`MutexHelper.h:14`). With `LockTimesOut` set to
  TRUE, TLC finds `NoDoubleAllocation` violated, although `PoolManager.h:12-13` calls the class
  thread safe. `TypeCorrect` and `NothingLeaks` are proved with timeouts allowed.
  `HealthTable` (`HealthTable.cpp:34`) and `QueueMapManager.cpp:41` write `MutexHelper(mutex, ...);`, a
  temporary that releases the lock in the same statement.
- *TM path.* Under a steady load stored packets are never sent, as they get only what new
  packets leave of the limit (`TmTcBridge.cpp:103`, against `TmTcBridge.h:122`). With
  `overwriteOld` off a packet that the FIFO refuses is never deleted (`TmTcBridge.cpp:161`), nor is one
  whose `sendTm` fails (`:138`); with a FIFO of size 0 the store address retrieved is 0
  (`:157`). `TmPacketStored.cpp:61` goes on after `getFreeElement` has failed.
- *TC path.* `callbackAfterSending` overwrites `tcStatus`, so that the failure report of a packet
  without destination does not carry the reason (`PUSDistributor.cpp:77`).
  `ESBOTcPolling.cpp:47` receives into `testBuffer` and stores `receptionBuffer`. After a report that
  could not be turned into telemetry `Service1TelecommandVerification.cpp:33` leaves its loop.
- *Commanding.* An action that returns EXECUTION_FINISHED is reported as failed, twice
  (`ActionHelper.cpp:69-71`, `ActionMessage.cpp:56-60`). At the wrap of the millisecond clock commands
  time out at once or hardly ever (`CommandingServiceBase.cpp:415`).
- *Housekeeping.* Appending deletes the definition and returns if the new one cannot be added
  (`Service3HousekeepingPSB.cpp:457`). Only the pool with the largest elements is ever used: the
  element sizes descend, and `LocalPool.h:48-49` asks for ascending ones. A one-shot report is reported
  as a success when its telemetry could not be stored (`:707`). Intervals are truncated to seconds
  when modified. The task has a period of 1 s (`InitMission.cpp:125-130`), the conversion of intervals
  assumes 200 ms.
- *Device handler.* `expectedReplies` of a periodic reply passes zero and completes the command
  again. Failed reads count as missed replies when none is awaited (`DeviceHandlerBase.cpp:609`).
  OFF to RAW to ON gives ON without power. `setThermalStateRequestPoolIds` assigns one of its two
  ids twice (`:53-54`). An event SWITCH_WENT_OFF is marked as reported when the failure isolation does
  not listen.
- *Subsystem.* `forced` stays set after a refused forced command (`ModeHelper.cpp:22`). A child that is
  a subsystem accepts a fallback in the middle of a transition and forgets its first commander
  (`Subsystem.cpp:521`), who waits for ever; so does one whose queue lost a reply, as there is no
  timeout. `uptimeStartTable` is not reset by `startTransition`. `deleteTable` erases from the map of
  sequences (`:476`). READ_SEQUENCE and READ_TABLE go on with a NULL pointer (`:258`, `:291`).
- *Data link layer.* `clearBuffers` resets `lastSegmentationFlag`, and `extractPackets` overwrites it
  (`MapPacketExtraction.cpp:83`). The result of `sendCompletePacket` is ignored: an acknowledged packet
  is lost, and stays in the store if the queue refused it. A last packet of at most
  `MINIMUM_SIZE` bytes in a frame is left over (`:94`), although such a packet may be complete: a
  header and a CRC are `MINIMUM_SIZE` bytes. The result, `RESIDUAL_DATA`, goes to the caller of `processFrame`, which is not in these sources.
  `initialize` accepts a window of 0, with which every frame but the expected one locks the channel
  out. `setToWaitState` is called by nobody; from
  lockout it would leave the lockout flag set. `frameDelimitingAndFillRemoval` advances the member
  `frameBuffer` for good.

## 4. What is proved

`StoragePool_proofs`, for any number of tasks, pools, elements and packets:

- `TypeCorrect`: `Spec => []TypeOK`, with or without lock timeouts.
- `SingleOwner`: `Spec => []NoDoubleAllocation`, if no lock times out.
- `PacketsStayIntact`: `Spec => []TokensIntact`, if no lock times out and `PositionsFit`
  (every byte position fits into the integer of `deleteData`; the pools that
  `ObjectFactory.cpp` creates satisfy it).
- `NothingLeaks`: `Spec => []NoLeak`, with or without lock timeouts.
- `KeepsTokens`: `Spec => ImplementsTokenStore`, the refinement of `TokenStore`, if no lock
  times out and `PositionsFit`. Without the first the pool hands an element out twice.
- `TokensFreeIffUnheld`: in every behaviour of `TokenStore`, over the pool's elements, an element
  is free exactly when nobody holds it; with `KeepsTokens` this is true of the pool
  (`FreeIffUnheld`).

`TmDownlink_proofs`, for any number of services, packets and slots and any depth of the queues:

- `TypeCorrect`: `Spec => []TypeOK`.
- `SingleHolder`: `Spec => []OneHolder`, and `KeepsTokens`: `Spec => ImplementsTokenStore`, the
  refinement of `TokenStore`, both if the bridge may overwrite old packets (`OverwriteOld`, the
  default of the code), its FIFO has a place and `Free` is no packet.
  Without the first two the statements are false, as section 3 tells under *TM path*.

`Uplink_proofs`, of `TcUplink`, for any telecommands and services and any depth of the queues:

- `TypeCorrect`: `Spec => []TypeOK`.
- `SingleHolder`: `Spec => []OneHolder`, and `KeepsTokens`: `Spec => ImplementsTokenStore`.
- `DecidedOnce`: `Spec => []OneVerdict`.

`CommandingService_proofs`, for any number of telecommands and objects, any depths, and whatever
the service and its objects return:

- `TypeCorrect`: `Spec => []TypeOK`.
- `Verdict`: `Spec => []OneVerdict`; `NothingForgotten`: `Spec => []InHand`; `InOrder`:
  `Spec => []StartsInOrder`; `NoMixUp`: `Spec => RepliesAreNotMixedUp`. With
  them every safety property that the run checks is proved.

`Housekeeping_proofs`, for any structures, pool, sizes of the maps, intervals and factor:

- `TypeCorrect`: `Spec => []TypeOK`; `NothingLeaks`: `Spec => []PoolMatchesMaps`.
- `ReportsInTime`: `Spec => []NotLate`; `NotTooOften`: `Spec => ReportsApart`. All of the run's
  properties are proved.

`DeviceExchange_proofs`, for any commands, replies, delays, commanders and amounts of data:

- `MarkIsTakenOff`: `Spec => []NothingExecutesForEver`; `AnswersItsCommander`:
  `Spec => []CommanderIsKept`; `AnswersOnce`: `Spec => OneFinalAnswer`.

`DeviceModes_proofs`, for any delays and number of reboots:

- `TypeCorrect`: `Spec => []TypeOK`.
- `SwitchIsTold`: `Spec => []SwitchFollowsMode`.
- `HoldsModes`: `Spec => Holder!HolderSafe`, the safety part of the refinement of `ModeHolder`.
- `FaultyLeftKnowingly`: `Spec => FaultyIsLeftKnowingly`.

`Subsystem_proofs`, for any finite number of children, any modes, tables and sequences, any
depths and any number of disturbances:

- `TypeCorrect`: `Spec => []TypeOK`; `KnowsItsChildren`: `Spec => []UnderstandsChildren`.
- `NoWaitForNobody`: `Spec => []WaitsForSomebody`; `DeviationsAreActedOn`:
  `Spec => []LeavesNoDeviation`. Every safety property of `mode_tree` is proved.

`Uplink_proofs`, of `VirtualChannel`, for any modulus, windows, length of the link, buffer and
frames:

- `StaysInStep`: `ChannelSpec => []InStep`.
- `PacketsInOrder`: `ChannelSpec => []DeliveredInOrder`.

The assumptions on the constants are `PoolAssumption` (the pools have natural sizes, element
sizes are positive, and the model's special values are no packets), `TmAssumption` and
`UplinkAssumption` (sizes are natural numbers; in the uplink they are positive, and the special
values are no telecommands), `CommandingAssumption` (depths are natural numbers, results are
those of the code), `HousekeepingAssumption` (sizes and intervals are natural numbers, a map has
room for an entry), Housekeeping's own `PoolAssumption` (there is an element for the
report that is defined at the start) and `GapBoundAssumption` (the bound of the model's clock is past the
longest interval: it is a bound of the model, not of the code), `DeviceExchangeAssumption` (a
reply that is entered has a delay of at least one cycle, as `insertInReplyMap` is used, and the
special values are no commands), `DeviceModesAssumption` (delays and the limit of reboots are natural numbers, and the parent is
not the ground), `SubsystemAssumption` (finitely many children, and tables that give children
modes, as `checkObjectConnections` has found when the subsystem runs) and `ChannelAssumption` (an even modulus and an even window less than it, as
`initialize` and the frames' `uint8_t` numbers have it, without the window of 0, in which a ground
may send nothing; segments in the protocol's order; and in a frame without segmentation a header
wherever more than `MINIMUM_SIZE` bytes are left).

`NoDoubleAllocation` is not inductive: it says nothing of a task between search and
reservation, which has chosen an element that is still marked free. `PoolInv` adds what the
argument needs: a task inside the critical section owns the mutex (`LockHeld`), so that
there is one at a time; the address it works on is one of the pool (`AddressKnown`); the
element it is about to reserve is still free (`StillFree`); and an element with a token or a
running call is marked as in use (`OwnedIsInUse`). So a search never finds an element
that has an owner, and what is reserved had none. Each of these has a lemma for the step.
`TokensIntact` follows with `ClearedIsOnePage`: the memset of a page whose position fits
reaches that page only. `FirstFreeIsFree` and `NatMin` show that the search returns an
element that is free, from the well-foundedness of the natural numbers. For the refinement,
`StoreInv` joins `PoolInv`, `TokensIntact` and `NoLeak`: the holder of an element is the one
task with a token, or with a running call, for it, and what the abstract store contains is in the
element from the `memcpy` to the `memset`. So an `addData` is an `Allocate` at its reservation
and a `Fill` at its copy, a `deleteData` is a `Delete` at its release, and a search changes nothing.

For the two paths a step does one of few things to the places of addresses: it gives a new
packet to a place, takes one from a place to another, releases one, or leaves all where they
are. The lemmas `Give`, `Take`, `Release`, `Stay` (and `Write`, for the funnel's stamp) show of
each that it preserves `OneHolder` and is a step of `TokenStore`, in which the holder is the one
place the address is in; `Lengths`, `Sent` and `Received` tell what sending to and receiving
from a queue does to the addresses in it. Then each action is one of these. `OneHolder` alone is not
inductive: a task in the middle of its work has a slot (`HasSlot`), and one that waits has none
(`Waiting`), so that no old address counts as a place; the bridge that is about to keep
a packet has room for it in the FIFO. In the uplink type correctness and `OneHolder` need each other: what
is added to `dropped` is the content of a slot, and it is a telecommand only since
its address has a holder. `OneVerdict` follows from `Records`, which says of each telecommand
what its place in the path means: not yet received or in the store without a verdict,
in the store with its one verdict and about to be deleted, or gone with its verdict or dropped.

The invariant of `CommandingService` says for each telecommand where it is and what has been
reported of it (`Placed`): nothing yet as long as it waits for the service, in a FIFO or for its
start, a start and no verdict exactly while an entry of the map is active with it. `Entries`:
one entry for each object, and all in it is for that object. `Ordered`: what has left
the queue is older than what is in it, and each FIFO is in order behind the command being started.
`Objects`: a reply that is on its way is about a command that was started and comes from its
object. `InHand` is a consequence of `Placed`; on its own it is not inductive, since it does not
say that a telecommand is in a FIFO once only, which `Ordered` does. The lemmas go by the
helpers through which the loops work: an entry is added, started, popped or erased (where the
last entry takes its place), and a verdict is reported.

For `Housekeeping`, the pool and the maps are one part (`PoolMatchesMaps` is inductive
with the types and with counters that start at 1), time is the other: `Clocks` ties the
definition's `cycleCounter` and the service's `intervalCounter` to the model's two clocks. As long
as the watched definition is enabled and not due, the cycles since its report are at most
`(cycleCounter - 1) * Look + Phase`, where `Look` is how many cycles pass between two
looks at it (`HK_INTERV_FACTOR`, or 1 for diagnostics) and `Phase` how far the service is in it; and
whatever happens to the definition they are at least that, unless the clock is at its bound. Both
properties are read off at the look that finds the counter at its limit.

In `DeviceExchange` the mark of a command, the cookie, the reply's delay and the commander who
waits are set and reset in different steps. The invariant says how they agree: the cookie holds a
command only between its being taken on and written (`CookieInPlace`); an executing command is
written or has exactly one reply left (`OneReplyLeft`, which is what makes one late reply
take the mark off); without periodic replies a delay that runs means that the command
executes (`OnlyExecuting`); and the commander of an executing command waits
(`CommanderWaits`). Each error path is an instance of one of a few lemmas: the command is
answered and stopped (`WriteAnswered`), goes on to wait (`Enabled`), gets its reply or is late
(`RepliedKeeps`), or is left alone (`Calm`).

`SwitchFollowsMode` is inductive together with `TypeOK`: a transition that times out returns
to `transitionSourceMode`, and it is the type invariant that says this is never OFF, where
the switch would have to be off. The lemmas follow `setMode`, through which every change of
the mode goes, and the failure isolation, which changes only its own state. `HoldsModes`
maps each action to a step of `ModeHolder`: what `setMode` does with the command in progress
is `Settle` or `Silence`, and a mode command is taken on, answered at once or refused.

`InStep` of the virtual channel is about counters that wrap, so its proof counts without
them. The ground numbers what it sends, and the inductive invariant relates every number on
board, in a CLCW or in a frame on its way to that count. `Synced`: FARM-1, the CLCW and each
report on its way are at a count that is not behind what the ground has given up, and not
ahead of what it has sent, less than half the modulus apart. `InOrder`: a frame on its
way is at most a window behind what has been received, and at most a window behind each frame
ahead of it, so a frame that comes late or twice is seen behind V(R), never ahead of the
window. `Syncing` and `SetsFirst` are about the ground before it has seen its V(R) in a CLCW:
nothing is sent as AD frame until then, so that a Set V(R) that is late never comes after one. `DiffIsDistance` is the core of it: the `int8_t`
difference of `processFrame` is the signed distance of two counts, as long as they are
less than half the modulus apart; it rests on a few lemmas on division, since the
prover's arithmetic is linear.

`DeliveredInOrder` has an invariant of its own, on top of that one. `Buffered`: while a packet is
being received, `packetBuffer` holds its segments up to the last frame received, from some
segment on. It is the first one unless the packet is broken: it is larger than the buffer
already, or a bypass frame has come between its segments; and if `lastSegmentationFlag` says that no
segment is awaited, one has come just now. `BrokenStays` carries this from segment to segment, and
`OnePacket` shows that the packet which the last segment completes is the one in the
buffer. So a sound packet is whole when it is sent, and anything else that is sent is a rest
of the one packet the buffer was about. In a frame without segmentation the packets sent are the
first ones (`UnpackedAre`: a packet is sent only if the one before it was), and every sound packet
is among them (`SoundBlocked`). `Grows` turns this into the three parts of the
property: what is sent ends with the frame received, behind all that was sent before. `SizeAt` is a
recursive function; that it exists, and is a sum over segments, is shown by hand for each prefix of the
frames (`SizesExist`), from the well-foundedness of the natural numbers, as the library's
induction theorems cannot be used.

In `Subsystem` the subsystem's view and its children are related through queues in both
directions. `Told` follows the newest mode a child has told, in its queue or read from it
(`NewestTold`, `NewestKnown`): it is the child's mode, even while the child moves, since it tells its
mode in the step that changes it. `UnderstandsChildren` is the case of an empty queue.
`LeavesNoDeviation` is inductive with the types: whatever changes a child's known mode or the table in
force also sets a flag that the next cycle looks at. `WaitsForSomebody` compares a counter with a set:
`Owed(c)` are a child's commands, the one it executes, and its replies not read yet. Each step
is shown to map what is owed one to one into what is owed after it, except for the reply it
counts (`OneChildMoves`, `StillCovered`); the commands of a table are owed from the step that sends
them (`CommandsCovered`). Cardinalities are compared by such injections only, since there are
finitely many children, but any number.

Only model-checked: the liveness properties (`DrainsWhenSilent`, `StoreDrains`,
`EveryTelecommandEnds`, `EveryCommandIsAnswered`, `EveryTableEnds`, `EverythingArrives`, and what
`ImplementsModeHolder` says beyond `HolderSafe`), which are out of the prover's reach. Every other
property of the passing runs, invariant or action property, is a theorem. The three
counterexamples are traces that TLC found.

## 5. Plan

1. Done: `TokenStore`, `StoragePool`, `TmDownlink`, `TcUplink`, `CommandingService`,
   `Housekeeping`, `DeviceExchange`, `ModeHolder`, `DeviceModes`, `Subsystem`,
   `VirtualChannel`; the proofs of the store and its refinement, of the two paths, of
   the commanding services, of housekeeping, of the device handler's exchange and modes, of
   the subsystem, and of FARM-1 and packet extraction.
2. Left to model: event distribution with Service 5; Service 200 in front of a `ModeHolder`;
   Service 1 as a producer of telemetry that joins `TcUplink` and `TmDownlink`; the wrapping
   clock of `checkTimeout`; a child of `Subsystem` that is itself a subsystem.
3. Left to prove: what the models of point 2 will promise. Of the present ones, liveness
   stays with TLC.
