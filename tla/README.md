# TLA+ models of iot-zephyr-app

This directory models the firmware, the libraries, the drivers and the host tools of this
repository: how the firmware upgrade channels share the flash, how an image travels over
UDP, CAN, CANopen and WebSocket, how registers, outputs and settings stay together, how
the servers of the edge hub treat their clients, how the recorder loses no sample, how
the 2.4 GHz link keeps its order, and how the socket table of the W5500 driver survives
`close()`. TLC checks the models on small instances; TLAPS proves most of the safety
properties for every value of the constants.

1. [The system](#1-the-system)
2. [The modules](#2-the-modules)
3. [What is checked](#3-what-is-checked)
4. [Fairness and time](#4-fairness-and-time)
5. [What is proved](#5-what-is-proved)
6. [Where the code and its documents disagree](#6-where-the-code-and-its-documents-disagree)
7. [What is not modelled](#7-what-is-not-modelled)
8. [The plan](#8-the-plan)

Line numbers refer to files under `src/`. `PROJECT.json` maps every definition to its
lines, lists the runs, and names one or more *mutants* for each checked property: a
plausible bug (`UdpEndUnverified`, `KeyUnblanks`, ...) under which TLC finds the property
violated. The mutants stand beside the definitions they change, are marked `a plausible
bug`, and are used by nothing else.

## 1. The system

The repository holds five Zephyr applications (`io-edge-hub`, `canopen-io`,
`angle-handler`, `n2e-gw`, `apollo-v2`), the libraries and drivers they share, host
tools, and a J1939 demonstration. What keeps state, and how the parts meet:

| Part | State | Operations | Meets |
|---|---|---|---|
| **Upgrade lock** `fw_upgrade_state.c` | `upgrade_active`, `current_channel` | try_lock, unlock, hooks | all upgrade channels |
| **UDP upgrade** `libs/udp_fw_upgrade` | session, offset, writer, configuration socket | START, DATA, DATA_V2, END, REBOOT, filter and route of answers | the lock, slot1, the host tool, the interface |
| **CAN upgrade** `libs/can_fw_upgrade` | session, size, writer, RX queue | START, data, CONFIRM, REBOOT, keyhash | the lock, slot1 (slot0 in the boot loader) |
| **Boot hook** `can_fw_boot.c` | probe and idle windows | wait for an upgrade, give up, boot | the CAN library's thread, MCUboot |
| **WebSocket upgrade** `web/ws_io.c` | `fw_upg`, connection slots | fw_start, binary frame, fw_end | the lock, slot1, main's delayed reboot |
| **SDO download** `canopen-io/src/fw_download.c` | state of 0x1F50/0x1F51 | write, confirm, delayed restart | the same lock, a fourth channel |
| **Host tools** `tools/firmware_upgrade` | window, retries, socket | upgrade over UDP, CAN, CANopen | the libraries over a network |
| **Registers and outputs** `modbus/function.c`, `io/dio.c`, `app_od.c`, `udp.c`, `settings` | `holding_reg`, object 0x2002, GPIOs, stored settings | writes with side effects, bit writes, save, load, factory reset | Modbus, CANopen, web, UDP, shell, link events |
| **Modbus TCP** `modbus/tcp.c` | client list, `g_resp`, semaphore | accept, receive, submit, wait, reply | Zephyr's Modbus server in the system work queue |
| **History** `history/history.c` | queue, open file, names | send, flush, rotate, sync, enable | sampling threads, main's reboot, the FTP and web servers |
| **HTTP/JSON** `web/httpd.c` | one body accumulator, download | POST and GET handlers | registers, history files |
| **FTP** `ftp_server/ftpd.c` | sessions, listening and data sockets, transfer | commands, PASV/PORT, RETR/STOR | files |
| **nRF24L01+ driver** `drivers/nrf24l01p` | mode, `tx_done_sem`, `last_status`, queues, chip, frame counters | send, power, configure, start_rx, interrupt thread, seal and open | handheld and gateway |
| **Handheld** `angle-handler` | link type, sleep, button, angles | send with retries, heartbeat, link key, sleep, wake-up | the driver |
| **Gateway** `n2e-gw` | queues, link flag, parameters, LEDs | forward frames to UDP, configuration commands, DHCP | the driver, the network |
| **W5500 TOE driver** `drivers/w5500_toe` | socket table and hardware sockets under one lock | socket calls, worker's pass | its callers and the chip |
| **Board application** `apollo-v2` | fonts, slot1, address, mounts, panel | web page, WebSocket, shell, screen key | QSPI and SD flash, network |
| **J1939 demo** `examples/j1939-demo` | address, NAME, reassembly | claim, request, broadcast | the other nodes and a Python host |

What makes these parts hard, and what makes them correct:

- *Upgrade.* Several threads erase, write and request the swap of one slot; every command
  can fail in the middle, a chunk may sit in RAM when it was acknowledged, and the device
  may restart at any point. Correct means: sessions exclude each other, a failed one gives
  the lock back, what MCUboot swaps in is the image that was verified, and what a tool
  calls a success is installed.
- *Transfer.* Datagrams and frames are late, lost, doubled, out of order, or from an
  earlier run. Correct means: chunks land at their own offset, what the host takes for
  confirmed is stored, exit code 0 means the image is armed, the tool ends.
- *Registers.* Cooperative and preemptible threads store the same registers, some under
  `reg_lock`, some not. Correct means: outputs, register and object dictionary agree when
  no write is under way, no bit write is lost, a lost link leaves the outputs off.
- *Servers.* One thread serves all clients of a protocol; TCP cuts data anywhere, clients
  leave at any point. Correct means: a command is the one its client sent, files arrive
  whole, each client gets its own response, no socket is lost, nobody keeps the thread.
- *Recorder.* Queue, work item and callers of `history_sync` meet at one flag. Correct
  means: a sample is queued, cached, stored, or older than everything that is.
- *Radio.* Senders, link key, sleep and wake-up share the chip with the interrupt thread;
  frames are repeated and overtaken. Correct means: a success belongs to the frame sent,
  the radio goes back to reception, what the host gets is in order and decrypted right.
- *Socket table.* Threads wait in calls while others close the socket. Correct means: no
  slot and no hardware socket is lost or given out twice, and every call returns.

`PROJECT.json` lists the hazards one by one, each at its line, with the properties that
cover it and, in a note, what the code does not keep.

## 2. The modules

```
FlashImg <- FwUpgradeState <- UdpFwUpgrade \
                           <- CanFwUpgrade  > FwUpgrade
                           <- WsFwUpgrade  /     | refines ExclusiveSlot
                                           FwUpgrade <- CoFwUpgrade \
         ApolloWeb, ApolloStart, GwNet ---- MCFwUpgrade <- FwUpgrade_proofs
UdpTransfer <- UdpTransfer_proofs
IoRegisters <- CoRegisters \
WebServer, FtpServer, ModbusTcp, MbClients <- CanopenIo ---------- MCEdgeHub
History <- CoHistory -------------------------------------------- MCHistory
Nrf24 <- HandlerRadio -------------------------------------- MCHandlerRadio
CoHistory, HandlerRadio <- Devices_proofs
W5500Toe -------------------------------------------------------- MCW5500Toe
W5500Toe <- W5500Toe_proofs
CanTransfer, CoDownload, RfLink, GwBox, J1939 ---------------------- MCNodes
WebServer, FtpServer, ModbusTcp, MbClients <- Servers_proofs \
CoRegisters (io-edge-hub and canopen-io) <- MCEdgeHub ---------- EdgeHub_proofs
RfLink <- RfLink_proofs
CoDownload, GwBox, J1939 <- Nodes_proofs
```

A composition of parts that share no state (`MCFwUpgrade`, `MCEdgeHub`, `MCNodes`) runs
them one at a time: `Init` chooses the application or the part, the others stand still in
one fixed state. No interleaving is lost, because such parts do not act on each other, and
no state is checked twice. Where parts do share state (the lock and the slot; the registers
and their writers; the two halves of the CAN library and the boot hook; the link with both
its ends) they are composed step by step in one next-state relation.

### Firmware upgrade

**FlashImg** is the writer of Zephyr (`flash_img`, `stream_flash`), external to the
repository and modelled from its use: a RAM block that is programmed when full or flushed,
cells that take a value only when erased, and for every operation the *set* of its
outcomes, so that each caller handles failures as its code does.

**FwUpgradeState** is the lock. `holder`, a history variable, is the channel that really
took it, because the code gives the CAN channel the label "UDP". **UdpFwUpgrade**,
**CanFwUpgrade** and **WsFwUpgrade** are the three command handlers. A command is one step,
except where it lets another thread run between taking the lock, working on the flash and
requesting the swap: `udp_pc`, `can_pc` and `ws_pc` say where it stands. When a session ends
the model forgets what nothing reads any more. **FwUpgrade** runs them side by side with
restarts at any moment; `Enabled` is the set of channels built in. **ExclusiveSlot** states
what the lock is for, without a word of how. **CoFwUpgrade** replaces the CAN channel by
canopen-io's SDO download. That one erases the trailer of the slot and nothing else, because
`IMG_ERASE_PROGRESSIVELY` is off: a cell that was not erased before does not take the image, and no
answer tells (`sdo_blank`, `Landed`).

**UdpTransfer** puts the go-back-N sender of `firmware_upgrade.c` against the device's
handler over a network of counted datagrams; chunk *i* of run *r* is `<<r, i>>`, so that a
mixture of two runs is visible. **CanTransfer** is the same over CAN, from the tool (run
after run, with `-b` and without, killed at any point) through the RX thread to the boot
loader's probe and wait windows and what MCUboot then boots. The writer's RAM block is part of it
(`BlockFrames`), and so are the results nobody looks at: of the erase (`can_fw_upgrade.c:240`) and of
the last flush (`:276`). **CoDownload** is the download over CANopen with `canopen_fw_upgrade.py`,
another channel that takes the lock, resets of the application, power cuts and the delayed restart.
Its slot is NOR flash that the download never erases: after a swap it holds the old image, after
another channel's START the blank beginning that one erased, and a write over anything else
fails or leaves neither the old nor the new chunk.

**ApolloWeb** is apollo-v2's own channel: the page's two flows (font and firmware) over one
WebSocket connection without answers, the thread that writes both, the font reader, and the
shell's installation, which writes the file from its byte 16 on to the beginning of the partition. **ApolloStart** has the threads that `main` starts: network with its
DHCP client and fallback address, storage with retries, display with its wait for the
mounts, and the backlight with its four writers. **GwNet** is n2e-gw on its network and the
part of the UDP library that FwUpgrade leaves out: `IF_UP` and the opening of the
configuration port, who is heard from another subnet, where the answer goes, REBOOT.

### io-edge-hub and canopen-io

**IoRegisters** has every store to register 0, to the address registers, to the pins and to
the settings as a step of its own, as far as the thread can be preempted there: Modbus on the
work queue and the link events are cooperative, UDP, WebSocket and shell are not.
`Installation` says which clients are used; each is a small system and together they let
every writer meet every other. **CoRegisters** adds canopen-io's second copy, object 0x2002,
written by SDOs and RPDOs on one side and by `mb_set_do` on the other; threads are lists of
stores. It ignores priorities, which only adds interleavings.

**WebServer** is `httpd.c` and the slots of `ws_io.c`: six POST resources over one buffer, a
byte is `<<client, position>>`. **FtpServer** is `ftpd.c` with sessions, both data modes,
transfers block by block and text conversion at block ends. **MbClients** cuts Modbus TCP
frames where TCP may cut them; **ModbusTcp** follows `handle_client` from `k_sem_reset` to
the reply, one step per access to `g_resp`, `g_resp_sem` and the server's only ADU. **CanopenIo**
says which of these steps make up canopen-io's handlers, whose files were taken over with
their control unchanged. **History** is the recorder with its file system as the code uses it,
two sampling threads and two callers of `history_sync`, errors, deletion from outside, a clock
set back and restarts; **CoHistory** is canopen-io's.

### Radio, network chip, vehicles

**Nrf24** is the driver with the chip behind its SPI bus; commands under `data->lock` are one
step, the interrupt thread's pass is cut where the radio can act in between. **HandlerRadio**
adds the threads of the handheld. **RfLink** is one level up: an attempt of `nrf24_send` is a
step, and two nodes with their retries, ping and echo, encryption counters, the queue to the
host and the link flag stand on both ends of the air. **GwBox** is the gateway beside its
traffic: parameters set by two threads, the factory reset, starts, and three LEDs.

**W5500Toe** has the driver's socket table, the hardware sockets with their pools, every
call cut where it lets go of the lock to wait, and the worker's pass. **J1939** has address
claiming by firmware nodes and by the Python host's own copy of the procedure, and multi-packet
broadcasts from two threads with their reassembly.

## 3. What is checked

| Run | Question | Instance |
|---|---|---|
| `fw_all` | `MutualExclusion`, `NoLeak`, `UdpArmedImage`, `OffsetCountsStored`, `CompleteIsKept`, `ComesUp` | all channels of io-edge-hub, canopen-io, apollo-v2; the starts of apollo-v2 and n2e-gw |
| `fw_noweb` | `ArmedHeld` and the refinement of `ExclusiveSlot` | UDP and CAN |
| `udp_transfer` | `RightImage`, `ConfirmedStored`, `HostTerminates` | two runs of 3 chunks with loss, reordering and write errors |
| `edge` | 10 properties of registers, web, FTP and Modbus TCP | both applications, each part in turn |
| `history` | `LossIsOldest`, `SyncFlushes`, `SyncReturns` | two samplers, two callers, one trouble at a time |
| `radio` | `SentMeansAcked`, `NothingLeftToSend`, `ListensWhenIdle`, `NoPhantomFrame`, `RxServed` | two senders, FIFO of 2, one retry |
| `w5500` | `EachToOne`, `ClosedIsFreed`, `PassEnds` | 3 slots, 3 hardware sockets, 2 callers, 8 sets of calls |
| `nodes` | `OkIsInstalled`, `WaitEnds`, `SlotOfOne`, `CleanRunSucceeds`, `LinkFaithful`, `ParamsAgree`, `LedSettles`, `OneClaimOneSnapshot` | CAN transfer, CANopen download, link, gateway, J1939, each in turn |
| `mb_tcp_shared` | `OwnResponse` is violated | two clients that count ids from 1 |
| `history_durable` | `SyncDurable` is violated | two callers |
| `w5500_full` | `PassEnds` is violated | more connections than slots |
| `can_pending` | `BootOkIsInstalled` is violated | an upgrade of the application, then one with `-b` |

With two workers `nodes`, `edge`, `history` and `fw_all` take two to four minutes each, the
others at most one and a half.

Several names stand for a conjunction of what two or three parts promise alike, because one
run checks them together; each conjunct has a mutant of its own:
`CompleteIsKept` is `SdoImageKept` (CoFwUpgrade) and `WholeOnly` (ApolloWeb); `ComesUp` is
`AddressTrue`, `FontApart`, `ScreenAgrees` (ApolloStart) and `LinkTold`, `PortOpen`,
`BroadcastAllowed` (GwNet); `OneClaimOneSnapshot` is `Unique` and `BamWhole`; `LinkFaithful`
is `InOrder`, `OpensRight` and `PingHonest`; `EachToOne` is `SlotsAccounted` and
`HwOfOneSocket`; `RightImage` is `ArmedWhole` and `SuccessIsArmed`; `MastersServed` is
`EveryRequestAnswered` and `BackToSelect`; `OutputsAgree` and `AddressKept` have one half for each application;
`NothingLeftOpen` is about FTP listeners, Modbus sockets and WebSocket slots.

Several properties carry an exception, a condition such as `~spoiled`, `unflushed`, `blank`,
`unheard`, `overlap`, `~torn` or `early`. Each is a history variable, described where it is set, and
it marks where the code does not keep the promise: the form without the exception stands beside
it (`StoredText`, `UniqueAlways`, `CleanRunAlways`, `SyncDurable`, ...) and section 6 names it.

The bounds, and why they show what they should:

- `SlotLen = 4`, `BlockLen = 2`, `PageLen = 2`: an image that ends inside a block and one that
  ends on its edge, one larger than the slot, a partial erase, a second transfer over the first.
  Contents are two chunks: enough to tell a right cell from a wrong one. The theorems of
  section 5 remove these bounds.
- `N = 3`, `Window = 2`, `Runs = 2`, `Copies = 2`: a full window and the rest, so that answers of
  the first are late in the second, and datagrams of one run that reach the next. `Copies` bounds the
  copies of one datagram in flight. The instance has no duplication (a network that doubles what it
  carries is too large beside two runs); the theorem about `RightImage` covers it.
- `MaxReq = 3` requests of two Modbus clients: a timed-out request, the next of the same client
  and one of the other overlap with a late response. Two frames of which one is refused.
- Registers: two output bits and one spare, two addresses and a bad octet, at most five kinds of
  writers at once in each installation.
- Web: bodies up to two bytes over `BODY_MAX = 3`, files of 3 bytes in blocks of 2; FTP: blocks
  of 2, files up to 5, texts with CR LF at every place of a block.
- `FileMax = 2`, `MaxFiles = 1`, `MaxSample = 3`: a file that fills, rotates, and a sample
  behind it in the queue.
- `Retries = 1` (the code has 5): a first attempt, a retry, the end of the retries; FIFO of 2
  (the chip has 3): one frame read, one behind it. `Window = 3` and `Low = 5` of the link's
  counter: the byte wraps within a scenario (five frames of one thread, with a
  loss or beside a frame of another), and the window spans the one frame or ACK that is lost (`RfLosses`).
- CAN: images of 2 and 3 frames over a queue of 4, `Interval = 2` frames per answer, blocks of
  `BlockFrames = 2` (an image that ends on the edge of a block, and one with a tail for the last
  flush), `MaxTrouble = 2` (a lost frame, a failure, a kill).
- CANopen download: a slot of `SlotLen = 3` chunks, blank or full of an old image at first, and
  images of 2, 3 and 4 chunks: over a blank slot, over a used one, over the beginning of one that
  broke off, over what another channel erased, and too large. `MaxMishap = 2`; the theorems have no bound.
- W5500: eight sets of calls instead of all at once. Each lets calls that share state meet;
  with one peer at a time, except in `w5500_full`.
- apollo-v2 and n2e-gw: two leases, two retries of the SD card, two presses; links and leases
  of GwNet change without bound, with at most two events unhandled at a time.

Deadlock is checked in `fw_all`, `fw_noweb` and `radio`. In the others the clients, the tool,
or the peers come to an end of what they do, and the system really stops.

## 4. Fairness and time

Liveness is stated only where the scheduling of the code justifies it.

- `HostTerminates`: weak fairness of the host tool as a whole, of its window deadline (which ends
  the read loop whatever was read before), and of the device reading its socket. Nothing is
  assumed of the network.
- `EveryRequestAnswered`: the server thread runs, its wait times out, and `select` returns a
  client that has sent something again and again (strong fairness of `Receive` for each client).
  Nothing is assumed of the work queue: Zephyr's server may never answer. `BackToSelect`: a
  receive returns with data or fails at its timeout.
- `FtpServes`: the transfer under way goes on and an attempt to open the data connection that
  nobody answers fails, because its socket has a timeout.
- `RxServed`: weak fairness of the interrupt thread, which is cooperative, has a higher priority
  than every sender and polls every 50 ms. Nothing is assumed of the threads that switch the power.
- `SyncReturns`: the recorder's work queue and each caller's loop run. The other caller is
  assumed to stop calling (`<>[]` in the property).
- `ClosedIsFreed`, `PassEnds`: the worker's pass goes on, and a caller that looks again every
  10 ms gets the lock in the end (strong fairness, the lock being free again and again).
- `WaitEnds`: host, RX thread and boot hook run, except in steps that count as trouble (a lost
  frame, a kill, a flash command that does not return).
- `LedSettles`: the blink work runs, and a thread inside `gw_led_rf24_activity` leaves it.

In `MCNodes` the fairness of a part is stated for the behaviours of that part.

Time appears as the order of timeouts and events. Where that order rests on numbers of the code,
the model says so in a comment at the action:

- *CanTransfer*: the host answers a probe within the window unless there is trouble; an erase takes
  longer than the probe window; the idle limit is longer than the tool's own limits; the
  application has no `pre_start` hook (as in `angle-handler`).
- *RfLink*: the retries of a frame take less time than the other threads need to send as many
  frames as the byte has values outside the window (`RetriesAreShort`); the air takes fewer frames
  than the window spans (`RfLosses`). Beyond that the code promises nothing: a receiver that has
  missed the whole window rejects what follows.
- *CoDownload*: `--wait` is longer than a restart.
- *J1939*: probe and observation are longer than a frame waits in a queue (`Heard`). Two
  claimers may displace each other without end, so no liveness is stated.
- *GwNet*: the event thread keeps up with the cable (`QueueLen`); Zephyr drops an event when its
  queue stays full.

## 5. What is proved

TLAPS proves, for every value of the constants that satisfies the named assumptions:

**FwUpgrade_proofs** (from `FlashAssumption`, `ImageAssumption`, `EnabledAssumption`,
`BlocksAssumption`) has four parts, as `MCFwUpgrade` has:

- *The lock and its channels* (FwUpgrade): `TypeCorrect`, `Inductive`, and from it
  `MutuallyExclusive`, `LockNotLeaked`, `OffsetCounts` and `UdpImageIntact`. Mutual exclusion alone
  is not inductive: it needs that a channel that upgrades *holds* the lock, that the lock is taken
  when and only when somebody holds it, and that the label under which it was taken is its
  holder's: the CAN channel takes it as "UDP", and an `Unlock("UDP")` must still never hit it.
  `IndInv` says so, with the place in each command where a session is open (`UdpSession`,
  `CanSession`, `WsSession`), and keeps the verified image through the steps between END and the
  restart (`VerifiedInv`). With `"WS" \notin Enabled`, `LockHeldWhileArmed` and `Refinement`: the
  lock implements `ExclusiveSlot` with owner <- `holder`, slot <- `slot1`, pending <- `armed.by`.
  With the web server this is false (section 6).
- *The SDO download of canopen-io* (CoFwUpgrade): `DownloadKept`, and `ChannelsCorrect` for both
  applications at once. Here the label "CAN" is the SDO server's own, so `CoLockInv` can say that
  label, holder and the flag `sdo_lock_held` agree at every step; `SdoInv` follows the stream through
  the requests that write it. What it proves of the slot is what the flash took: in the cells that were
  erased when 0x1F51 = 0 was answered the chunk sent, in the others none (`Landed`). That the
  confirmed image is there (`DownloadStored`) is false (section 6).
- *Starts* (ApolloStart, GwNet): `BringUpCorrect`, `ReachableCorrect`, and both as
  `ComesUpCorrect`, for any leases, faults, presses and any length of the event queue. What makes
  `Reachable` inductive is that the last unhandled event of the cable tells the state of the
  cable (`EventInv`), and that the RX thread lives exactly as long as its socket (`PortInv`).
- *The web page of apollo-v2* (ApolloWeb): `WholeOnlyCorrect` and `CompleteCorrect`, for any files
  and any number of clicks. That what is announced is complete rests on the wire: the frames of a
  flow are on it in the order they were sent, and while the connection lives nothing is missing
  behind a frame that is to come (`WireInv`). The device erases one sector after each frame, so an
  erase always has a frame to come (`FtInv`). A flow that meets no other is *alone*, and of such a flow
  the device has got exactly the first frames (`AloneInv`); when two meet, `mixed` says so (`MixInv`).
  The shell's installation appears there as one that meets others; of the font it writes itself the
  theorem says nothing, since that is never the file (`InstallWhole`, section 6).

The lemmas about `FlashImg` (what a write, a flush and an erase return) come first, then one lemma
per channel and conjunct.

**Devices_proofs** has two parts.

*HandlerRadio* (from `DepthAssumption`, `ThreadAssumption`): `TypeCorrect`, `InvCorrect`,
and from it `SendCorrect`, `FlushCorrect`, `ListenCorrect` and `FetchCorrect`, for any number of
senders, retries and FIFO places. That a success is about the frame sent is not inductive: the
result goes from the chip's flags through `tx_done_sem` and `last_status` to the caller.
`ResultIsOwn` states it for each of those places, together with the empty FIFO that makes
`NothingLeftToSend` survive a success (on success the code does not flush), and rests on `OneSend`,
which is what `rf24_tx_mutex` gives. `IdleInPrx` adds the driver's `mode` to `ListensWhenIdle`,
because `nrf24_configure` derives the chip's direction from it. `RxFlagHonest` says what RX_DR
stands for between the flush and the clearing of the flag.

*History* (from `HistoryAssumption`): `LossIsOldestCorrect`, and `CoLossIsOldestCorrect` of
canopen-io's recorder, for any number of samples, callers and files and any length of the queue. That
what is lost is oldest rests on the samples being sorted by place: files by their names, then the cache,
which belongs to the newest file, then the one the work item has, then the queue (`FileInv`,
`FilesSorted`, `QueueInv`); so the smallest names have the oldest samples, and the file that is open
is never among those `cleanup_old_files` removes. That a finite set of names has a largest, and
`ensure_file` finds it, is proved from the least element of a set of numbers (`LeastOf`), which the
library's `WFMin` gives.

**Servers_proofs** (WebServer, FtpServer): `WebInvCorrect`, `OwnBodyCorrect`, `WholeDownload` and
`FtpListenersCorrect`, for any visitors, files and sessions. Five resources collect their bodies in
one static buffer. Zephyr lets one client hold a resource (`OneHolder`), so while only one resource is
posted to, the buffer holds the beginning of its client's body, or was rejected (`BodyInv`). Each FTP
session has at most one listener and one data connection; the invariant follows them through every
way a transfer can end (`ListenInv`).

The Modbus TCP server (from `TransAssumption`): `MbTypeCorrect`, and with `DistinctIds`
`RightAnswerCorrect`, for any clients, requests and broadcasts. A response that is late belongs to a
request that was given up, so the invariant speaks of three places at once: whatever the server
holds, works on or left in `g_resp` belongs to a request that *was* submitted (`SeenInv`), so its id
is not the next one's; and while the thread waits, the receive ADU is the awaited request, and
`g_resp` carries its id only after it was executed (`WaitInv`). With equal ids the theorem is false
(`mb_tcp_shared`). About the clients' sockets (MbClients) it has `FramesInStepCorrect` and
`WatchesCorrect`: the pieces in a stream are in order, and the server's place in it is the
beginning of a frame or, in the client being served, inside the frame it reads (`InStep`).

**EdgeHub_proofs** (from `IoAssumption`): for io-edge-hub's registers `IoTypeCorrect`, `IoInvCorrect`,
`AgreeCorrect`, `LostBitCorrect` and `AddressCorrect`, for any number of threads and outputs; the
middle two wherever single bits and the whole register are not written by different threads
(`LockedWrites`; without it both are false, section 6). That pins and register agree is not
inductive: between the store and the last output they differ. `DriveInv` says how: the thread that
drives holds `reg_lock`, the value it will store is the register's with one bit changed, and each
output shows the new value exactly if its turn is over. Where those that set the address also save
it, the settings differ from the registers only as long as a thread has a save before it
(`AddressInv`). For canopen-io (CoRegisters) `CoOutputsCorrect` and `CoAddressCorrect`: as long as
whole writes do not overlap, all stores still to come have one value, and register, object and each
output have it already unless a store to them is among those (`CopiesSettle`); for the address, an
export is still to come (`AddressSaved`).

On io-edge-hub and canopen-io as a whole (`EdgeSpec`): `PartsOfEdge` shows that a behaviour of
the whole is one of each part; from it and what is said of the parts follow `OutputsAgreeCorrect`,
`AddressKeptCorrect`, `EdgeLostBit`, `EdgeOwnBody`, `NothingLeftOpenCorrect`, `EdgeRightAnswer`
(with `DistinctIds`) and `EdgeFramesInStep`: the safety properties of run `edge`.

**RfLink_proofs** (from `RfAssumption` and `RfLosses`): `LinkFaithfulCorrect`, for any traffic of the
seven threads, any number of retries, lost frames and restarts, any queues and any width of the
counter's byte. It has three arguments. *Pings*: an echo, wherever it is on its way, is of a ping that the
handler answered (`EchoInv`). *Counters* (`CounterInv`, while no frame is dropped and no side begins
anew): whatever is on its way or queued is within reach of what the receiver has when its turn comes,
so that the byte stands for one counter only (`WindowMath`): not too far behind, since
`RetriesAreShort`; not too far ahead, because a counter that the receiver never sees has cost
Retries + 1 losses. `LossFits` keeps that account: the counters passed over, the attempts spent on
frames under way and the losses still to come stay below the window, with room for the two other threads
of the node that may hold a counter each. *Order* (`OrderInv`): for each thread, what came out, what is
queued and what it is sending follow one another; a frame that was queued twice carries the same
counter, and once its first copy came out that counter is not above the receiver's (`Stale`), so the
second is rejected. Without encryption, or after a side began anew, the same invariant allows the
repetition and nothing else.

**W5500Toe_proofs** (from `ToeAssumption`): `ToeEachToOne`, that nothing is lost or given out twice, for
any number of sockets, hardware sockets and threads: with two threads in every behaviour
(`AtMostTwo`), with more in those where a `close()` never meets two of them in `accept()` of the
same listener (`OneInClosed`); without that it is false (section 6). A call of the model changes the
state several times within its step, so the lemmas are about functions on the state: what each of
`ListenerFill`, `Promote`, `HwClose`, `Closing` and `Release` keeps, whatever state it is applied to, with
the threads inside each socket and the connections in hand between two queues as parameters. The
invariant has two halves. `Booked`, about slots: `users` counts the threads inside, a connection is in
one queue, once, and otherwise as new; a slot that nobody uses is as new; a socket that was closed has
nothing queued and does not listen. `Owned`, about the hardware: at most one place of one slot holds a
hardware socket, and those in a pool are neither closed nor closing, which is why `hw_alloc` does
not take them although it looks at `hw` of the slots only. This half holds until a listening socket
dies (`listenerDied`, as in the property). What joins the two is `ZombieUnfilled`: a thread that
waits in `accept()` of a closed listener finds the pool empty, so it has nothing to promote into the
queue that close() has emptied.

**Nodes_proofs** has three parts that have nothing to do with each other.

*CoDownload* (from `SdoAssumption`): `TypeCorrect`, `LockCorrect`, `SlotOfOneCorrect`,
`InvsCorrect` and `CleanRunCorrect`, for any list of runs of the tool, of any sizes. The lock needs
only `LockInv` (the flag `sdo_lock_held` and the lock say the same). That a run nothing disturbs
installs its image, if the slot was blank where the image goes, needs more: no run's data is in the
slot or running before the run began (`SourceInv`), which tells the restart into the new image from one
into the old, and for every place of the tool what the device has reached there (`OnItsWay`): how much
is stored and that the rest is still blank (`BlankFrom`), so that the flash takes the next chunk; that
the swap is requested and the restart scheduled; that the image runs. Whoever could write to the slot
in between is a mishap or held off by the lock.

*GwBox* (from `GwAssumption`): `ParamsAgreeCorrect`, for any commands of the two threads, any values and
any number of restarts. While commands are under way RAM, flash and radio differ; `AheadInv` says
for each pair of them that where they differ some thread still has the step to do that makes them equal
(`WillSave`, `WillConfig`, `WillStore`). It survives the other thread because each saves and
configures what is in RAM by then, not the value of its own command (the mutant `SaveAddrOf`).

*J1939* (from `J1939Assumption`): `BamWholeCorrect` and `OneClaimOneSnapshotCorrect`, for any set of nodes,
addresses and requests. That a broadcast is of one snapshot is about a queue: of each address the
packets in it are those of one broadcast after the other, in order (`FlowsOn`); the last is the one the
sender is at (`EndsIn`), and the first goes on with what the host has put together so far, or
begins anew (`Begun`). That an address has one holder is about pairs (`PairInv`): of two that want it,
the one with the larger NAME has seen the other's claim, or has it in its queue, or has a probe
in the other's queue that will be answered. Each of claiming, probing, announcing, observing and
handling a frame keeps that, or sets `unheard`: those are the cases the property excepts.

**UdpTransfer_proofs** (from `TransferAssumption`): `TypeCorrect`, `InPlaceCorrect`, `ImageCorrect`
(`RightImage`, for every set of faults and any number of runs) and
`ConfirmedCorrect` (`ConfirmedStored`, in the first run, without duplicates). An exit code 0 rests on an
answer in flight, so `ArmedInv` says of every such answer that this run's image is armed; it holds
because a session is open only while nothing is armed, and because the socket of a run that is over
takes its answers with it. That a confirmed chunk is stored rests on the only START: while it is
under way nothing is stored (`StartInv`), and then what is stored never shrinks.

Only model-checked are the liveness properties, which the proof system cannot treat (it knows neither
fairness nor `ENABLED`), and what is expected to be violated. Induction over data is out of its
reach as well: that the pieces of a file make up the file (the text part of FtpServer) stays with TLC.
Every safety property of the passing runs that is an invariant has its theorem.

## 6. Where the code and its documents disagree

Four disagreements are runs whose counterexample TLC finds; `PROJECT.json` quotes the lines.

- `mb_tcp_shared`: clients that count transaction ids alike get each other's responses, against
  `tcp.c:54` and `:213`. A request can also be submitted while the server still works on the
  previous one, whose receive ADU it overwrites.
- `history_durable`: `history_sync` returns with a sample that was queued before the call still
  in RAM: the run of the work item that was under way consumes the flag (`history.c:264`, `:308`).
- `w5500_full`: a connection that finds no free slot keeps the worker in its pass with the lock
  held (`w5500_toe.c:690`, against `:26` and `:636`).
- `can_pending`: `-b` writes slot0 while an older image waits in slot1; MCUboot swaps that in, and
  the tool has answered 0 (`can_fw_boot.c:8`).

More are stated as properties that TLC refutes in the same models, and have no run:

| Property | The code, and what says otherwise |
|---|---|
| `CanRestartable` (FwUpgrade) | a failed CAN transfer keeps the lock; the next START is refused although it promises to begin anew |
| `CanArmedImage` (FwUpgrade) | CONFIRM reads nothing back: after a failed flush the swap is requested for something else |
| `ArmedHeld` with `"WS"` | a second `fw_end` returns the lock that is to be kept until the restart (`ws_io.c:411`) |
| `CommErrorIsSilence` (UdpTransfer) | a late data answer is read as the answer to END; the tool reports an error while the device arms the image |
| `RxLossless` (HandlerRadio) | the flush after each payload drops acknowledged frames behind it (`nrf24l01p.c:335`, against `:330`) |
| `RotatesOldest` (History) | with the clock set back, rotation removes a newer file (`docs/io-edge-hub.md:1174`) |
| `BodiesApart` (WebServer) | two clients that post to two resources mix their bodies in one buffer (`httpd.c:94`) |
| `PersistedWhole` (IoRegisters) | a save outside `reg_lock` persists an address of two halves (`function.c:29`) |
| `OdSynchronised` (CoRegisters) | a whole write and an RPDO that meet leave object and register different (`function.c:7` of canopen-io) |
| `StoredText` (FtpServer) | a CR LF cut by the end of a block keeps its CR (`ftpd.c:240`, against `:228`) |
| `EachToOne` (W5500Toe) with three threads | two are in `accept()` of a listener that the third closes: the first fills the pool again before it looks at `zombie` (`w5500_toe.c:1096`, `:1099`), the second promotes what connected meanwhile, and the slot of that connection is never freed (against `:1503`) |
| `ListensForSomeone` (W5500Toe) | a hardware socket goes on listening after `close()` of its listener |
| `ProbeSeen` (CanTransfer) | `-b` does not reach a boot loader that waits already (`firmware_upgrade.c:930`) |
| `StopsQuiet` (CanTransfer) | the idle limit and `can_fw_rx_busy` are looked at one after the other (`can_fw_boot.c:121`) |
| `OkIsNew`, `HeldUntilReboot` (CoDownload) | a lost poll passes for the restart (`canopen_fw_upgrade.py:131`); a second confirmation gives the lock back with the swap pending (`fw_download.c:162`) |
| `DownloadStored` (CoFwUpgrade), `CleanRunAlways` (CoDownload) | `fw_download.c:10` and `:50` rely on an erase on demand, and `:13` promises that writing 0x1F51 = 0 starts anew; but no `prj.conf` sets `IMG_ERASE_PROGRESSIVELY` and `:117` erases the last 8 KB only. A download into a slot that holds the old image since the last swap, or the beginning of a download that broke off, fails, or is confirmed and then refused by MCUboot |
| `OkIsInstalledAlways` (CanTransfer) | `can_fw_upgrade.c:276` does not look at the last flush, and `:279` compares the count of the bytes taken: CONFIRM and the tool's 0 can mean an image without its tail |
| `InstallWhole` (ApolloWeb) | `font_qspi.c:212` has read the header, and the copy (`:258`) goes on from there: a file of the exact size always ends as incomplete (`:277`), a longer one is reported complete (`:282`) with its content shifted by 16 bytes |
| `ErrorStays` (GwBox) | the end of the LED self test switches a latched error off (`led.c:52`, against `:40`) |
| `UniqueAlways`, `BamWholeAlways` (J1939) | two nodes keep one address when a frame was not heard (`j1939.c:159`); broadcasts of two threads are put together into one (`j1939_host.py:137`) |
| `BroadcastAllowed` without `moved` (GwNet) | with a lease that changes between filter and answer a command that is not allowed is answered by broadcast (`udp_fw_upgrade.c:195`) |

And some were met while reading, and are behaviours of the models without a property:

- *io-edge-hub, canopen-io*: a datagram may go to the new IP with the old port (`n2e-gw/src/udp.c:125`);
  the factory reset over UDP asks for a confirmation within 5 s, but its timestamp starts at 0, so in
  the first 5 s after a start one command is enough (`udp.c:24`, `:101`). Writing 0x1F51 = 0
  within the delay of the restart erases the swap request; an NMT reset forgets the scheduled restart;
  a failed data write keeps the lock.
- *CAN*: a late answer to a killed run is taken for the next run's by the data loop
  (`firmware_upgrade.c:1058`). An erase that fails (`can_fw_upgrade.c:240`) is answered like one that
  succeeded.
- *n2e-gw*: `gw ip` stores an address that does not parse, after which the interface never comes up;
  settings saved after `gw reset` without a restart are lost; without an address every sender counts
  as being in the same subnet; a refused configuration socket is tried again only when the cable is
  plugged anew.
- *angle-handler*: the power key within the 100 ms of `system_sleep` leaves the handheld awake with
  its radio off (`gpio.c:208`); a frame that began before sleep is retried in it (`common.c:27`).
- *Link*: a retried frame overtaken by another is acknowledged but not opened (`nrf24_crypt.c:158`,
  `:177`); more than 32 lost frames, or a key set on one side only, break the counter for good. Both
  `prj.conf` leave the encryption off.
- *J1939*: a probe that meets a claimer in its observation is not answered; `peer_name` keeps the last
  claim only; the host sends under `self.sa` while it claims another (`j1939_host.py:204`); the RX
  thread does not receive while it sends a broadcast.
- *apollo-v2*: `fw_end` requests a permanent swap, so `main.c:57` can roll nothing back; an upgrade
  during a trial run overwrites the image to roll back to. The page announces success without any
  answer, waits for ever when the connection breaks during an erase, and allows a second file to be
  chosen during the first, whose frames then mix. A torn installation with a valid header counts as
  ready (`font_qspi.c:64`). A failing status frame right after the end skips the restart. The web
  server is never started if the cable is missing in the first 5 s, but it is when the fallback address was
  refused. The address shown is stale after a lease is lost. A press of WK_UP during the display's
  start leaves `screen_on` wrong, and the card of the backlight does not follow its other writers.
  The file page joins "/SD:" and a directory without a slash, so that no directory can be entered
  (`display.c:306`). README.md says WK_UP beeps and DS0 is a heartbeat; the code does neither.

## 7. What is not modelled

- Contents: frame formats, CRCs, hashes and ciphers are taken to tell different data apart; function
  codes, register values other than outputs and address, JSON texts and directory listings are left out.
- SPI, CAN and socket calls of the modelled parts succeed unless the model says otherwise.
- Arithmetic of sizes near 2^32: a size is a number of chunks.
- *FwUpgrade*: the keyhash frames of CAN (CanTransfer has them). *HandlerRadio*: the shell's calls,
  the signal quality and the STOP mode of the processor. *W5500Toe*: options, `poll()` events, the
  chip's start and register access. *ApolloWeb*: the base64 text frames, which no client sends.
  *ApolloStart*: file page, sensors, CAN, USB, the clock. *GwNet*: the MAC, a change of the
  DHCP setting while the device runs.
- `not_modelled` components: the Python host over CAN and UDP repeats the C host; Modbus RTU has no
  state of its own; boards, device trees, the PHY driver and plain examples are configuration. Vendored
  and generated code (CANopenNode, `OD.c`) and data (`apollo_cjk_16.c`) stay out for good.

## 8. The plan

What would add most from here:

1. An abstract recorder (a bounded sequence of samples that loses its oldest) that History implements
   while nothing fails.
2. The remaining registers of io-edge-hub and their JSON view.
