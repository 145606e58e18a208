---------------------------- MODULE CanTransfer ----------------------------
(***************************************************************************)
(* A firmware upgrade over CAN from end to end: the host tool              *)
(* (tools/firmware_upgrade.c), run after run, the RX thread of             *)
(* libs/can_fw_upgrade/can_fw_upgrade.c, which the application and the     *)
(* boot loader share, and boot_go_hook of can_fw_boot.c, which probes for  *)
(* a host at every start and waits for it.  The lock between the channels  *)
(* is in CanFwUpgrade, the flash cells are in FlashImg; here a slot holds  *)
(* the frames written to it, a RAM block at a time.                        *)
(***************************************************************************)
EXTENDS Naturals, Sequences, FiniteSets, SequencesExt

CONSTANTS
  Plans,        \* bound: the runs of the tool that follow each other
  KeyFrames,    \* CAN_KEYHASH_FRAMES
  Interval,     \* CAN_OFFSET_REPLY_INTERVAL
  BlockFrames,  \* the frames that fill the RAM block of the flash writer
  QueueLen,     \* the length of can_fw_rx_msgq
  MaxTrouble    \* bound: frames lost, kills, hangs, power cuts, flash failures

ASSUME CanTransferAssumption ==
  /\ KeyFrames \in Nat \ {0} /\ Interval \in Nat \ {0} /\ QueueLen \in Nat \ {0} /\ MaxTrouble \in Nat
  /\ BlockFrames \in Nat \ {0, 1}
  /\ \A plan \in Plans : \A r \in DOMAIN plan :
        plan[r] \in [boot : BOOLEAN, key : {"good", "bad", "none"}, size : Nat \ {0}]

VARIABLES
  plan,         \* options and image size of each run
  host,         \* the run, where it is, the frames it has sent
  inbox,        \* what its socket holds
  exits,        \* what each run answered
  mode,         \* "app", or how far the boot loader is
  queue,        \* can_fw_rx_msgq
  rx,           \* what keeps the RX thread: the erase of a START
  keys,         \* rx_keybuf with key_chunk_mask: <<seq, run>>
  session,      \* fw_img_initialized, fw_total_size, fw_written, the RAM block
  acked,        \* can_fw_boot_ack_sem
  can_fw_confirmed,
  slots,        \* what is in slot0 and slot1
  armed,        \* the swap of slot1 is requested
  spoiled,      \* history: slot0 was written with a swap requested, a run was
                \* answered for the START of another, or an erase failed unnoticed
  unflushed,    \* history: the last flush of the session failed unnoticed
  trouble

hostVars == <<plan, host, inbox, exits>>
ramVars == <<queue, rx, keys, session, acked, can_fw_confirmed>>
flashVars == <<slots, armed>>
notes == <<spoiled, unflushed>>
ctVars == <<hostVars, mode, ramVars, flashVars, notes, trouble>>

None == "none"
Old == <<<<0, 0>>>>    \* an image that was there before all runs
HalfErased == <<<<0, 1>>>>   \* an erase that failed half way
Idle == [at |-> "idle", run |-> 0]
NoSession == [open |-> FALSE, total |-> 0, written |-> 0, buf |-> <<>>]
Closed(r) == [run |-> r, pc |-> "closed", sent |-> 0]
ImageOf(r) == [i \in 1..plan[r].size |-> <<r, i>>]

CtInit ==
  /\ plan \in Plans
  /\ host = Closed(0) /\ inbox = <<>> /\ exits = [r \in DOMAIN plan |-> None]
  /\ mode = "app" /\ queue = <<>> /\ rx = Idle /\ keys = {} /\ session = NoSession
  /\ acked = FALSE /\ can_fw_confirmed = FALSE
  /\ slots = [slot0 |-> Old, slot1 |-> <<>>] /\ armed = FALSE
  /\ trouble = 0 /\ spoiled = FALSE /\ unflushed = FALSE

-----------------------------------------------------------------------------
(* The bus.  After can_stop() nothing passes; a frame that finds the queue *)
(* full is lost, another one may be.                                       *)

CanOn == mode \notin {"boot", "dead"}
Trouble == trouble < MaxTrouble /\ trouble' = trouble + 1
Lost == Trouble /\ UNCHANGED queue
ToDevice(f) ==
  \/ queue' = (IF CanOn /\ Len(queue) < QueueLen THEN Append(queue, f) ELSE queue) /\ UNCHANGED trouble
  \/ Lost
Arrived(x) == IF CanOn /\ host.pc # "closed" THEN Append(inbox, x) ELSE inbox
ToHost(x) ==
  \/ inbox' = Arrived(x) /\ UNCHANGED trouble
  \/ Trouble /\ UNCHANGED inbox
Reply(code, arg) == ToHost(<<code, arg>>)
(* An answer after something went wrong in the device.                     *)
TroubledReply(code) == Trouble /\ inbox' \in {inbox, Arrived(<<code, 0>>)}
Probe == <<"probe", 0>>

-----------------------------------------------------------------------------
(* The host tool *)

Me == plan[host.run]
HostOnly == UNCHANGED <<plan, mode, rx, keys, session, acked, can_fw_confirmed, flashVars, notes>>
Frame(t, i) == [t |-> t, run |-> host.run, i |-> i]
Goes(pc) == host' = [host EXCEPT !.pc = pc, !.sent = IF pc \in {"key", "data"} THEN 0 ELSE @]
Exit(code) ==
  /\ exits' = [exits EXCEPT ![host.run] = code]
  /\ host' = Closed(host.run) /\ inbox' = <<>>

AfterBoot(p) == IF p.key = "none" THEN "start" ELSE "key"

(* can_open; with -b the socket is drained and REBOOT sent.                *)
HostOpens ==
  /\ host.pc = "closed" /\ host.run < Len(plan)
  /\ LET r == host.run + 1 IN
     IF plan[r].boot
     THEN /\ host' = [Closed(r) EXCEPT !.pc = "probe"]
          /\ ToDevice([t |-> "reboot", run |-> r, i |-> 0])
     ELSE host' = [Closed(r) EXCEPT !.pc = AfterBoot(plan[r])] /\ UNCHANGED <<queue, trouble>>
  /\ UNCHANGED <<inbox, exits>> /\ HostOnly

(* can_recv with an id: frames with another are read and dropped.          *)
Wanted(isProbe) == SelectInSeq(inbox, LAMBDA x : (x = Probe) <=> isProbe)
ReadOff(n) == inbox' = SubSeq(inbox, n + 1, Len(inbox))

HostProbed ==
  /\ host.pc = "probe" /\ Wanted(TRUE) # 0
  /\ ReadOff(Wanted(TRUE)) /\ Goes(AfterBoot(Me)) /\ ToDevice(Frame("ack", 0))
  /\ UNCHANGED exits /\ HostOnly

HostKey ==
  /\ host.pc = "key"
  /\ ToDevice(Frame("key", host.sent + 1))
  /\ host' = [host EXCEPT !.sent = @ + 1, !.pc = IF host.sent + 1 = KeyFrames THEN "start" ELSE @]
  /\ UNCHANGED <<inbox, exits>> /\ HostOnly

HostStart ==
  /\ host.pc = "start" /\ ToDevice(Frame("start", 0)) /\ Goes("started")
  /\ UNCHANGED <<inbox, exits>> /\ HostOnly

Answered(pc) == host.pc = pc /\ Wanted(FALSE) # 0
Answer == inbox[Wanted(FALSE)]
HostAsked == UNCHANGED <<queue, trouble>> /\ HostOnly

HostStarted ==
  /\ Answered("started")
  /\ CASE Answer = <<"OFFSET", 0>> -> Goes("data") /\ ReadOff(Wanted(FALSE)) /\ UNCHANGED exits
       [] Answer[1] = "KEYHASH_ERROR" -> Exit("reject")
       [] OTHER -> Exit("comm")
  /\ HostAsked

HostData ==
  /\ host.pc = "data"
  /\ ToDevice(Frame("data", host.sent + 1))
  /\ host' = [host EXCEPT !.sent = @ + 1,
                          !.pc = IF (host.sent + 1) % Interval = 0 \/ host.sent + 1 = Me.size THEN "flow" ELSE @]
  /\ UNCHANGED <<inbox, exits>> /\ HostOnly

(* The offset in the answer is not compared.                               *)
HostFlow ==
  /\ Answered("flow")
  /\ CASE Answer[1] = "UPDATE_SUCCESS" \/ (Answer[1] = "OFFSET" /\ host.sent = Me.size) ->
             Goes("confirm") /\ ReadOff(Wanted(FALSE)) /\ UNCHANGED exits
       [] Answer[1] = "OFFSET" /\ host.sent < Me.size ->
             host' = [host EXCEPT !.pc = "data"] /\ ReadOff(Wanted(FALSE)) /\ UNCHANGED exits
       [] OTHER -> Exit("comm")
  /\ HostAsked

HostConfirm ==
  /\ host.pc = "confirm" /\ ToDevice(Frame("confirm", 0)) /\ Goes("confirming")
  /\ UNCHANGED <<inbox, exits>> /\ HostOnly

HostConfirmed ==
  /\ Answered("confirming")
  /\ IF Answer[1] # "CONFIRM" THEN Exit("comm") /\ UNCHANGED <<queue, trouble>>
     ELSE /\ Exit("ok")
          /\ IF Me.boot THEN UNCHANGED <<queue, trouble>> ELSE ToDevice(Frame("reboot", 0))
  /\ HostOnly

(* The time limits are long for the device: one passes only when no answer *)
(* is on its way.                                                          *)
HostTimeout ==
  /\ \/ host.pc \in {"started", "flow", "confirming"} /\ Wanted(FALSE) = 0
     \/ host.pc = "probe" /\ Wanted(TRUE) = 0 /\ mode # "probe"
  /\ queue = <<>> /\ rx.at # "erase" /\ mode \notin {"proceed", "idle", "boot"}
  /\ Exit("comm") /\ HostAsked

HostKilled ==
  /\ host.pc # "closed" /\ Trouble /\ Exit("killed")
  /\ UNCHANGED queue /\ HostOnly

HostNext ==
  \/ HostOpens \/ HostProbed \/ HostKey \/ HostStart \/ HostStarted \/ HostData
  \/ HostFlow \/ HostConfirm \/ HostConfirmed \/ HostTimeout \/ HostKilled

-----------------------------------------------------------------------------
(* can_fw_rx_thread, in the application and in the boot loader.  It goes   *)
(* on with what is in the queue after can_stop().                          *)

InBoot == mode # "app"
Target == IF InBoot THEN "slot0" ELSE "slot1"
HookKeeps == UNCHANGED <<plan, host, exits, mode>>
RxOnly == HookKeeps /\ UNCHANGED notes
Next1(t) == rx = Idle /\ mode # "dead" /\ queue # <<>> /\ Head(queue).t = t
Dequeue == queue' = Tail(queue)

RxKey ==
  /\ Next1("key") /\ Dequeue
  /\ keys' = {k \in keys : k[1] # Head(queue).i} \cup {<<Head(queue).i, Head(queue).run>>}
  /\ UNCHANGED <<inbox, trouble, rx, session, acked, can_fw_confirmed, flashVars>> /\ RxOnly

(* START: the key decides if it is complete; the partition is opened, or   *)
(* not; then the erase, of which the result is not looked at.              *)
KeysComplete == Cardinality(keys) = KeyFrames
KeysWrong == \E k \in keys : plan[k[2]].key = "bad"
RxStart ==
  /\ Next1("start") /\ Dequeue
  /\ keys' = IF KeysComplete THEN {} ELSE keys
  /\ IF KeysComplete /\ KeysWrong
     THEN Reply("KEYHASH_ERROR", 0) /\ UNCHANGED <<rx, session, slots, spoiled>>
     ELSE \/ /\ TroubledReply("FLASH_ERROR") /\ session' = [session EXCEPT !.total = plan[Head(queue).run].size]
             /\ UNCHANGED <<rx, slots, spoiled>>
          \/ /\ rx' = [at |-> "erase", run |-> Head(queue).run] /\ UNCHANGED <<inbox, session>>
             /\ \/ /\ slots' = [slots EXCEPT ![Target] = <<>>] /\ UNCHANGED trouble
                   /\ spoiled' = (spoiled \/ (InBoot /\ armed))
                \/ /\ slots' \in {slots, [slots EXCEPT ![Target] = HalfErased]} /\ Trouble
                   /\ spoiled' = TRUE
  /\ UNCHANGED <<acked, can_fw_confirmed, armed, unflushed>> /\ HookKeeps

(* flash_img_init_id may fail.  Otherwise what came while the flash was    *)
(* erased is dropped.  The erase takes longer than the window of the probe *)
(* and the way to can_stop().                                              *)
RxErased ==
  /\ rx.at = "erase" /\ mode \in {"app", "wait", "boot"} /\ rx' = Idle
  /\ spoiled' = (spoiled \/ (host.pc # "closed" /\ rx.run # host.run)) /\ unflushed' = FALSE
  /\ \/ /\ queue' = <<>> /\ Reply("OFFSET", 0)
        /\ session' = [NoSession EXCEPT !.open = TRUE, !.total = plan[rx.run].size]
     \/ UNCHANGED queue /\ TroubledReply("FLASH_ERROR") /\ session' = NoSession
  /\ UNCHANGED <<keys, acked, can_fw_confirmed, flashVars>> /\ HookKeeps

RxHangs ==
  /\ rx.at = "erase" /\ InBoot /\ rx' = [rx EXCEPT !.at = "hung"] /\ Trouble
  /\ UNCHANGED <<inbox, queue, keys, session, acked, can_fw_confirmed, flashVars>> /\ RxOnly

(* flash_img_buffered_write: the block is programmed when a frame fills    *)
(* it; one left full by a failure is programmed before the frame is taken. *)
Burned(block) == [slots EXCEPT ![Target] = @ \o block]
RxData ==
  /\ Next1("data") /\ Dequeue
  /\ LET frame == <<Head(queue).run, Head(queue).i>>
         full == Len(session.buf) = BlockFrames
         block == IF full THEN session.buf ELSE Append(session.buf, frame)
         due == Len(block) = BlockFrames
         count == session.written + 1
     IN
     \/ ~session.open /\ Reply("TRANSFER_ERROR", 0) /\ UNCHANGED <<slots, session>>
     \/ /\ session.open
        /\ session' = [session EXCEPT !.written = count,
                                       !.buf = IF full THEN <<frame>> ELSE IF due THEN <<>> ELSE block]
        /\ slots' = IF due THEN Burned(block) ELSE slots
        /\ IF count = session.total THEN Reply("UPDATE_SUCCESS", count)
           ELSE IF count % Interval = 0 THEN Reply("OFFSET", count)
           ELSE UNCHANGED <<inbox, trouble>>
     \/ /\ session.open /\ due /\ TroubledReply("FLASH_ERROR")
        /\ session' = [session EXCEPT !.buf = block] /\ UNCHANGED slots
  /\ UNCHANGED <<rx, keys, acked, can_fw_confirmed, armed>> /\ RxOnly

(* A mutant: the byte count is not compared.                               *)
RxConfirmAny ==
  /\ Next1("confirm") /\ Dequeue
  /\ session' = NoSession /\ Reply("CONFIRM", 0)
  /\ slots' = Burned(session.buf)
  /\ can_fw_confirmed' = InBoot /\ armed' = ~InBoot
  /\ UNCHANGED <<rx, keys, acked>> /\ RxOnly

(* CONFIRM: the last flush, of which the result is not looked at; then, if *)
(* the count of what was taken is right, the hook is told in the boot      *)
(* loader, and in the application the swap requested, which may fail.      *)
RxConfirm ==
  /\ Next1("confirm") /\ Dequeue
  /\ session' = NoSession
  /\ LET complete == session.open /\ session.written = session.total IN
     \E flushed, requested \in BOOLEAN :
       /\ flushed \/ session.buf # <<>>
       /\ requested \/ (complete /\ ~InBoot)
       /\ slots' = IF flushed THEN Burned(session.buf) ELSE slots
       /\ unflushed' = ~flushed
       /\ LET code == IF complete /\ requested THEN "CONFIRM" ELSE "TRANSFER_ERROR" IN
          /\ IF flushed /\ requested THEN Reply(code, 0) ELSE TroubledReply(code)
          /\ can_fw_confirmed' = (can_fw_confirmed \/ (code = "CONFIRM" /\ InBoot))
          /\ armed' = (armed \/ (code = "CONFIRM" /\ ~InBoot))
  /\ UNCHANGED <<rx, keys, acked, spoiled>> /\ HookKeeps

RamLost ==
  /\ queue' = <<>> /\ rx' = Idle /\ keys' = {} /\ session' = NoSession
  /\ acked' = FALSE /\ can_fw_confirmed' = FALSE
Restart == RamLost /\ mode' = "probe" /\ UNCHANGED <<hostVars, flashVars, notes>>

RxReboot ==
  /\ Next1("reboot")
  /\ IF InBoot
     THEN /\ Dequeue /\ can_fw_confirmed' = TRUE
          /\ UNCHANGED <<inbox, rx, keys, session, acked, flashVars>> /\ RxOnly
     ELSE Restart
  /\ UNCHANGED trouble

RxAck ==
  /\ Next1("ack") /\ Dequeue
  /\ acked' = InBoot
  /\ UNCHANGED <<inbox, trouble, rx, keys, session, can_fw_confirmed, flashVars>> /\ RxOnly

RxNext ==
  RxKey \/ RxStart \/ RxErased \/ RxHangs \/ RxData \/ RxConfirm \/ RxReboot \/ RxAck

-----------------------------------------------------------------------------
(* boot_go_hook, then MCUboot *)

BootOnly == UNCHANGED <<plan, host, exits, rx, keys, session, flashVars, notes>>
HookGoes(m) == mode' = m

HookProbe ==
  /\ mode = "probe" /\ ~acked /\ Probe \notin ToSet(inbox) /\ host.pc # "closed"
  /\ ToHost(Probe)
  /\ UNCHANGED <<queue, acked, can_fw_confirmed, mode>> /\ BootOnly

HookAcked ==
  /\ mode = "probe" /\ acked /\ HookGoes("wait")
  /\ queue' = <<>> /\ acked' = FALSE /\ can_fw_confirmed' = FALSE
  /\ UNCHANGED <<inbox, trouble>> /\ BootOnly

(* The window for an answer; a host that is there uses it, or is late, and *)
(* an erase outlasts it.                                                   *)
HookNoHost ==
  /\ mode = "probe" /\ ~acked /\ HookGoes("proceed")
  /\ IF rx = Idle /\ (host.pc = "probe" \/ \E i \in DOMAIN queue : queue[i].t = "ack") THEN Trouble ELSE UNCHANGED trouble
  /\ UNCHANGED <<inbox, queue, acked, can_fw_confirmed>> /\ BootOnly

HookWaits == UNCHANGED <<inbox, queue, acked, can_fw_confirmed, trouble>> /\ BootOnly
HookConfirmed == mode = "wait" /\ can_fw_confirmed /\ HookGoes("proceed") /\ HookWaits

(* The idle limit is longer than any of the tool's, so that it passes      *)
(* between two runs; the RX thread must not be in a command.               *)
HookIdle ==
  /\ mode = "wait" /\ ~can_fw_confirmed /\ host.pc = "closed" /\ queue = <<>> /\ rx = Idle
  /\ HookGoes("idle") /\ HookWaits

(* A mutant: a hung command is waited for.                                 *)
HookTrusts == mode = "wait" /\ can_fw_confirmed /\ rx.at = "hung" /\ HookGoes("proceed") /\ HookWaits

HookGivesUp == mode = "wait" /\ ~can_fw_confirmed /\ rx.at = "hung" /\ HookGoes("proceed") /\ HookWaits

(* The last trace frame (100 ms at most) and can_stop().                   *)
HookStops == mode \in {"proceed", "idle"} /\ HookGoes("boot") /\ HookWaits

Bootable(img) == img = Old \/ \E r \in DOMAIN plan : img = ImageOf(r)
McuBoot ==
  /\ mode = "boot"
  /\ LET booted == IF armed /\ Bootable(slots.slot1)
                   THEN [slot0 |-> slots.slot1, slot1 |-> slots.slot0] ELSE slots IN
     /\ slots' = booted /\ armed' = FALSE
     /\ IF Bootable(booted.slot0) THEN mode' = "app" /\ RamLost ELSE mode' = "dead" /\ UNCHANGED ramVars
  /\ UNCHANGED <<hostVars, notes, trouble>>

PowerCycle == (IF mode = "dead" THEN UNCHANGED trouble ELSE Trouble) /\ Restart

BootNext ==
  \/ HookProbe \/ HookAcked \/ HookNoHost \/ HookConfirmed \/ HookIdle
  \/ HookGivesUp \/ HookStops \/ McuBoot \/ PowerCycle

CtNext == HostNext \/ RxNext \/ BootNext

(* Threads run and the time limits pass; power comes back by itself if at  *)
(* all.                                                                    *)
CtFairness ==
  /\ WF_ctVars(HostNext /\ trouble' = trouble) /\ WF_ctVars(RxNext /\ trouble' = trouble)
  /\ WF_ctVars(HookProbe \/ HookAcked \/ HookNoHost \/ HookConfirmed \/ HookIdle \/ HookGivesUp \/ HookStops \/ McuBoot)
CtSpec == CtInit /\ [][CtNext]_ctVars
CtFairSpec == CtSpec /\ CtFairness

-----------------------------------------------------------------------------
(* Properties *)

CtTypeOK ==
  /\ host.run \in 0..Len(plan) /\ Len(queue) <= QueueLen
  /\ mode \in {"app", "probe", "wait", "proceed", "idle", "boot", "dead"}
  /\ session.open \in BOOLEAN /\ Len(session.buf) <= BlockFrames /\ trouble \in 0..MaxTrouble

(* upgrade_can answers 0 only when the image of this run is the one that   *)
(* will be booted, whatever the runs before it left behind; or, when the   *)
(* last flush failed (can_fw_upgrade.c:276 does not look), when a slot     *)
(* holds its whole blocks without the tail.                                *)
Installed(r) == slots.slot0 = ImageOf(r) \/ (armed /\ slots.slot1 = ImageOf(r))
WholeBlocks(r) == SubSeq(ImageOf(r), 1, plan[r].size - (plan[r].size % BlockFrames))
Short(r) == WholeBlocks(r) \in {slots.slot0, slots.slot1}
Succeeds(r) == exits[r] # "ok" /\ exits'[r] = "ok"
OkIsInstalled ==
  [][~spoiled => \A r \in DOMAIN plan : Succeeds(r) => IF unflushed THEN Short(r) ELSE Installed(r)]_ctVars

(* can_fw_upgrade.c:277: without the exception it is refuted: what CONFIRM *)
(* compares is the count of the bytes taken, not of those in the flash.    *)
OkIsInstalledAlways == [][~spoiled => \A r \in DOMAIN plan : Succeeds(r) => Installed(r)]_ctVars

(* can_fw_boot.c:9: so it is in the boot loader, where MCUboot boots what  *)
(* was confirmed, without a swap.                                          *)
BootOkIsInstalled == [][\A r \in DOMAIN plan : Succeeds(r) => Installed(r)]_ctVars

(* can_fw_boot.c:129: the wait for an upgrade ends, whatever the host and  *)
(* the flash do, and the device goes on to boot.                           *)
WaitEnds == mode \notin {"app", "dead"} ~> mode \in {"app", "dead"}

(* can_fw_boot.c:122: the wait is not given up for being idle while the RX *)
(* thread is in a command, whose answer can_stop() would cut off.          *)
StopsQuiet == [][(mode = "idle" /\ mode' = "boot") => rx.at # "erase"]_ctVars

(* firmware_upgrade.c:931: -b reaches the boot loader, also that of a      *)
(* device which waits in it already.                                       *)
ProbeSeen == [][(host.pc = "probe" /\ host'.pc = "closed") => trouble' > 0]_ctVars
=============================================================================
