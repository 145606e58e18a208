----------------------------- MODULE CoDownload -----------------------------
(***************************************************************************)
(* Firmware over CANopen (CiA 302-2) in canopen-io: fw_download.c behind   *)
(* the SDO server, the lock it shares with the UDP and web channels, the   *)
(* delayed restart into MCUboot, and the tool canopen_fw_upgrade.py, run   *)
(* after run.  A chunk is what one call of the 0x1F50 handler brings, one  *)
(* flash block.  Nothing here erases the slot: fw_ctrl_write erases the    *)
(* trailer only, and no prj.conf sets IMG_ERASE_PROGRESSIVELY.             *)
(***************************************************************************)
EXTENDS Naturals, Sequences, FiniteSets

CONSTANTS
  Sdo,          \* bound: the runs of the tool, [good, size]: MCUboot accepts
                \* the image or not
  SlotLen,      \* bound: the chunks slot1 has room for
  MaxMishap     \* bound: lost frames, kills, flash failures, power cuts,
                \* sessions of another channel, foreign writes, NMT resets

ASSUME SdoAssumption ==
  /\ MaxMishap \in Nat /\ SlotLen \in Nat \ {0}
  /\ \A runs \in Sdo : runs \in Seq([good : BOOLEAN, size : Nat \ {0}]) /\ runs # <<>>

VARIABLES
  sdo,            \* the runs
  tool,           \* the run, where it is, chunks sent, old_version, saw_offline
  tool_exit,      \* what each run answered
  fw_state, sdo_lock_held,
  sdo_written,    \* fw_written, in chunks
  lock,           \* upgrade_active and current_channel of fw_upgrade_state.c
  fw_reboot_work, \* "idle" or "scheduled"
  slot1, swap,    \* the cells of the slot; the request to MCUboot
  up, running,    \* the application runs, and which image it is
  other,          \* chunks written by a session of another channel
  mishaps,
  clean,          \* history: nothing happened to the present run
  blank           \* history: its image fits into the slot, erased when it began

devVars == <<fw_state, sdo_written, sdo_lock_held, lock, fw_reboot_work>>
toolVars == <<sdo, tool, tool_exit>>
sdoVars == <<toolVars, devVars, slot1, swap, up, running, other, mishaps, clean, blank>>

Factory == 0
Blank == <<Factory, 0>>   \* erased
Junk == <<Factory, 1>>    \* what no run of the tool sent
All(x) == [i \in 1..SlotLen |-> x]
RoomFor(r) == \A i \in 1..sdo[r].size : i <= SlotLen /\ slot1[i] = Blank
Started(r) == [run |-> r, pc |-> "start", sent |-> 0, old |-> Factory, offline |-> FALSE]

SdoInit ==
  /\ sdo \in Sdo
  /\ tool = Started(1) /\ tool_exit = [r \in DOMAIN sdo |-> "none"]
  /\ fw_state = "IDLE" /\ sdo_written = 0 /\ sdo_lock_held = FALSE /\ lock = "none"
  /\ fw_reboot_work = "idle" /\ slot1 \in {All(Blank), All(Junk)} /\ swap = FALSE
  /\ up = TRUE /\ running = Factory
  /\ other = 0 /\ mishaps = 0 /\ clean = TRUE /\ blank = RoomFor(1)

Mishap == mishaps < MaxMishap /\ mishaps' = mishaps + 1 /\ clean' = FALSE /\ UNCHANGED blank
Smooth == UNCHANGED <<mishaps, clean, blank>>

-----------------------------------------------------------------------------
(* fw_upgrade_state.c *)

TryLock(c) == lock = "none" /\ lock' = c
Unlock(c) == lock' = IF lock = c THEN "none" ELSE lock
(* fw_ctrl_write's way out of a failure.                                   *)
GivesUp == fw_state' = "ERROR" /\ (IF sdo_lock_held THEN Unlock("SDO") ELSE UNCHANGED lock) /\ sdo_lock_held' = FALSE

-----------------------------------------------------------------------------
(* fw_download.c.  Each handler gives its answer: TRUE or an abort.        *)

(* A mutant: flash_img goes on where the transfer before it stopped.       *)
CtrlResetKeeps(ok) ==
  \/ /\ ~sdo_lock_held /\ lock # "none" /\ ~ok
     /\ UNCHANGED <<devVars, slot1, swap>> /\ Smooth
  \/ /\ (sdo_lock_held /\ UNCHANGED lock) \/ (~sdo_lock_held /\ TryLock("SDO"))
     /\ ok /\ sdo_lock_held' = TRUE /\ fw_state' = "READY" /\ swap' = FALSE
     /\ UNCHANGED <<sdo_written, fw_reboot_work, slot1>> /\ Smooth

(* 0x1F51 = 0: the lock, the erase of the trailer, a new context.          *)
CtrlReset(ok) ==
  \/ /\ ~sdo_lock_held /\ lock # "none" /\ ~ok
     /\ UNCHANGED <<devVars, slot1, swap>> /\ Smooth
  \/ /\ (sdo_lock_held /\ UNCHANGED lock) \/ (~sdo_lock_held /\ TryLock("SDO"))
     /\ ok /\ sdo_lock_held' = TRUE /\ sdo_written' = 0 /\ fw_state' = "READY" /\ swap' = FALSE
     /\ UNCHANGED <<fw_reboot_work, slot1>> /\ Smooth
  \/ /\ sdo_lock_held \/ lock = "none"
     /\ ~ok /\ Mishap /\ lock' = "none" /\ sdo_lock_held' = FALSE /\ fw_state' = "ERROR"
     /\ swap' \in {swap, FALSE} /\ UNCHANGED <<sdo_written, fw_reboot_work, slot1>>

(* NOR flash: chunk x over an erased cell, or over itself, is x; over      *)
(* anything else the two mix.                                              *)
Programmed(s, n, x) == [s EXCEPT ![n + 1] = IF @ \in {Blank, x} THEN x ELSE Junk]

(* The driver takes chunk number n + 1 without fail.                       *)
Accepts(n) == n < SlotLen /\ slot1[n + 1] = Blank

(* What a write that failed may leave there.                               *)
TornCell(s, n) == [i \in 1..SlotLen |-> IF i = n + 1 THEN Junk ELSE s[i]]

(* 0x1F50.                                                                 *)
DataWrite(x, ok) ==
  \/ /\ fw_state \notin {"READY", "STREAMING"} /\ ~ok
     /\ UNCHANGED <<devVars, slot1, swap>> /\ Smooth
  \/ /\ fw_state \in {"READY", "STREAMING"} /\ sdo_written < SlotLen /\ ok
     /\ sdo_written' = sdo_written + 1 /\ fw_state' = "STREAMING"
     /\ slot1' = Programmed(slot1, sdo_written, x)
     /\ UNCHANGED <<sdo_lock_held, lock, fw_reboot_work, swap>> /\ Smooth
  \/ /\ fw_state \in {"READY", "STREAMING"} /\ ~ok
     /\ Mishap \/ (~Accepts(sdo_written) /\ Smooth)
     /\ fw_state' = "ERROR" /\ slot1' \in {slot1, TornCell(slot1, sdo_written)}
     /\ UNCHANGED <<sdo_written, sdo_lock_held, lock, fw_reboot_work, swap>>

(* A mutant: the lock is given back and believed to be held.               *)
CtrlConfirmForgets(ok) ==
  \/ /\ fw_state # "STREAMING" /\ ~ok
     /\ fw_state' = "ERROR" /\ Unlock("SDO")
     /\ UNCHANGED <<sdo_written, sdo_lock_held, fw_reboot_work, slot1, swap>> /\ Smooth
  \/ /\ fw_state = "STREAMING" /\ ok
     /\ swap' = TRUE /\ fw_state' = "CONFIRMED"
     /\ fw_reboot_work' = (IF fw_reboot_work = "idle" THEN "scheduled" ELSE fw_reboot_work)
     /\ UNCHANGED <<sdo_written, sdo_lock_held, lock, slot1>> /\ Smooth

(* 0x1F51 = 1: flush, boot_request_upgrade, the restart in 500 ms.         *)
CtrlConfirm(ok) ==
  \/ /\ fw_state # "STREAMING" /\ ~ok
     /\ GivesUp /\ UNCHANGED <<sdo_written, fw_reboot_work, slot1, swap>> /\ Smooth
  \/ /\ fw_state = "STREAMING" /\ ok
     /\ swap' = TRUE /\ fw_state' = "CONFIRMED"
     /\ fw_reboot_work' = (IF fw_reboot_work = "idle" THEN "scheduled" ELSE fw_reboot_work)
     /\ UNCHANGED <<sdo_written, sdo_lock_held, lock, slot1>> /\ Smooth
  \/ /\ fw_state = "STREAMING" /\ ~ok
     /\ Mishap \/ (slot1[sdo_written] = Junk /\ Smooth)
     /\ GivesUp /\ UNCHANGED <<sdo_written, fw_reboot_work, slot1, swap>>

(* The main loop after an NMT reset: fw_download_init initialises the work *)
(* item again, scheduled or not.                                           *)
NmtReset ==
  /\ up /\ Mishap
  /\ fw_reboot_work' \in (IF fw_reboot_work = "scheduled" THEN {"scheduled", "idle"} ELSE {fw_reboot_work})
  /\ UNCHANGED <<toolVars, fw_state, sdo_written, sdo_lock_held, lock, slot1, swap, up, running, other>>

-----------------------------------------------------------------------------
(* Restarts *)

RamGone ==
  /\ fw_state' = "IDLE" /\ sdo_written' = 0 /\ sdo_lock_held' = FALSE /\ lock' = "none"
  /\ fw_reboot_work' = "idle" /\ other' = 0 /\ up' = FALSE

(* fw_reboot_handler; the host of the other channel asks after its END.    *)
Reboots ==
  /\ up /\ (fw_reboot_work = "scheduled" \/ (lock = "UDP" /\ other = 0))
  /\ RamGone /\ UNCHANGED <<toolVars, slot1, swap, running>> /\ Smooth

PowerCut == up /\ Mishap /\ RamGone /\ UNCHANGED <<toolVars, slot1, swap, running>>

(* MCUboot: a whole good image is swapped with the one that ran, which     *)
(* then fills slot1; one it refuses it may erase.                          *)
Whole(r) == sdo[r].size <= SlotLen /\ \A i \in 1..sdo[r].size : slot1[i] = <<r, i>>
McuBoots ==
  /\ ~up /\ up' = TRUE /\ swap' = FALSE
  /\ LET valid == {r \in DOMAIN sdo : swap /\ sdo[r].good /\ Whole(r)} IN
     IF valid = {} THEN UNCHANGED running /\ slot1' \in (IF swap THEN {slot1, All(Blank)} ELSE {slot1})
     ELSE running' \in valid /\ slot1' = All(Junk)
  /\ UNCHANGED <<toolVars, devVars, other>> /\ Smooth

-----------------------------------------------------------------------------
(* Another channel: the lock for its session, the erase of as much as its  *)
(* image needs, chunks, and its end: a failure gives the lock back,        *)
(* success keeps it for its restart.                                       *)

OtherOnly == UNCHANGED <<toolVars, fw_state, sdo_written, sdo_lock_held, up, running>>
OtherStarts ==
  /\ up /\ Mishap /\ TryLock("UDP") /\ other' = 1
  /\ \E n \in 0..SlotLen : slot1' = [i \in 1..SlotLen |-> IF i <= n THEN Blank ELSE slot1[i]]
  /\ swap' \in {swap, FALSE}
  /\ UNCHANGED fw_reboot_work /\ OtherOnly
OtherWrites ==
  /\ up /\ other = 1 /\ other' = 2 /\ slot1' = [slot1 EXCEPT ![1] = Junk]
  /\ UNCHANGED <<lock, fw_reboot_work, swap>> /\ OtherOnly /\ Smooth
OtherEnds ==
  /\ up /\ other > 0 /\ other' = 0
  /\ \/ Unlock("UDP") /\ UNCHANGED swap
     \/ other = 2 /\ UNCHANGED lock /\ swap' = TRUE
  /\ UNCHANGED <<fw_reboot_work, slot1>> /\ OtherOnly /\ Smooth

(* Somebody else on the bus writes 0x1F51.                                 *)
Meddles ==
  /\ up /\ mishaps < MaxMishap /\ mishaps' = mishaps + 1 /\ clean' = FALSE /\ UNCHANGED blank
  /\ \/ /\ fw_state # "STREAMING" /\ GivesUp /\ UNCHANGED <<sdo_written, swap>>
     \/ /\ sdo_lock_held /\ sdo_written' = 0 /\ fw_state' = "READY" /\ swap' = FALSE
        /\ UNCHANGED <<sdo_lock_held, lock>>
  /\ UNCHANGED <<toolVars, fw_reboot_work, slot1, up, running, other>>

-----------------------------------------------------------------------------
(* canopen_fw_upgrade.py *)

DevOnly == UNCHANGED <<sdo, up, running, other>>
Exits(code) ==
  /\ tool_exit' = [tool_exit EXCEPT ![tool.run] = code]
  /\ tool' = [tool EXCEPT !.pc = "exited"]
GoesTo(pc) == tool' = [tool EXCEPT !.pc = pc] /\ UNCHANGED tool_exit
Untouched == UNCHANGED <<sdo, devVars, slot1, swap, up, running, other>>

(* No answer: the frame or the answer is lost, or the device is down.      *)
Silence == (~up /\ Smooth) \/ (up /\ Mishap)

ReadOld ==
  /\ tool.pc = "start"
  /\ \/ up /\ tool' = [tool EXCEPT !.pc = "reset", !.old = running] /\ UNCHANGED tool_exit /\ Smooth
     \/ Silence /\ Exits("comm")
  /\ Untouched

SdoAnswer(ok, pc) == IF ok THEN GoesTo(pc) ELSE Exits("reject")

ToolResets ==
  /\ tool.pc = "reset"
  /\ \/ up /\ DevOnly /\ \E ok \in BOOLEAN : CtrlReset(ok) /\ SdoAnswer(ok, "data")
     \/ Silence /\ Exits("reject") /\ Untouched

ToolData ==
  /\ tool.pc = "data" /\ tool.sent < sdo[tool.run].size
  /\ \/ /\ up /\ DevOnly
        /\ \E ok \in BOOLEAN :
             /\ DataWrite(<<tool.run, tool.sent + 1>>, ok)
             /\ IF ok THEN tool' = [tool EXCEPT !.sent = @ + 1] /\ UNCHANGED tool_exit ELSE Exits("reject")
     \/ Silence /\ Exits("reject") /\ Untouched

ToolConfirms ==
  /\ tool.pc = "data" /\ tool.sent = sdo[tool.run].size
  /\ \/ up /\ DevOnly /\ \E ok \in BOOLEAN : CtrlConfirm(ok) /\ SdoAnswer(ok, "poll")
     \/ Silence /\ Exits("reject") /\ Untouched

(* read_version every two seconds.                                         *)
Poll ==
  /\ tool.pc = "poll"
  /\ \/ /\ up /\ Smooth
        /\ IF tool.offline \/ running # tool.old THEN Exits("ok") ELSE UNCHANGED <<tool, tool_exit>>
     \/ Silence /\ tool' = [tool EXCEPT !.offline = TRUE] /\ UNCHANGED tool_exit
  /\ Untouched

(* --wait is longer than the restart takes.                                *)
Deadline ==
  /\ tool.pc = "poll" /\ Exits("comm")
  /\ (up /\ fw_reboot_work # "scheduled" /\ ~tool.offline /\ running = tool.old /\ Smooth) \/ Mishap
  /\ Untouched

Killed == tool.pc # "exited" /\ Mishap /\ Exits("killed") /\ Untouched

NextRun ==
  /\ tool.pc = "exited" /\ tool.run < Len(sdo)
  /\ tool' = Started(tool.run + 1)
  /\ clean' = (up /\ fw_reboot_work = "idle" /\ lock # "UDP") /\ blank' = RoomFor(tool.run + 1)
  /\ UNCHANGED <<tool_exit, mishaps>> /\ Untouched

ToolNext == ReadOld \/ ToolResets \/ ToolData \/ ToolConfirms \/ Poll \/ Deadline \/ Killed \/ NextRun

SdoNext ==
  \/ ToolNext \/ NmtReset \/ Reboots \/ PowerCut \/ McuBoots
  \/ OtherStarts \/ OtherWrites \/ OtherEnds \/ Meddles

SdoSpec == SdoInit /\ [][SdoNext]_sdoVars
-----------------------------------------------------------------------------
(* Properties *)

SdoTypeOK ==
  /\ sdo \in Sdo
  /\ tool \in [run : 1..Len(sdo), pc : {"start", "reset", "data", "poll", "exited"}, sent : Nat,
              old : 0..Len(sdo), offline : BOOLEAN]
  /\ tool_exit \in [1..Len(sdo) -> {"none", "ok", "comm", "reject", "killed"}]
  /\ fw_state \in {"IDLE", "READY", "STREAMING", "CONFIRMED", "ERROR"}
  /\ lock \in {"none", "SDO", "UDP"} /\ fw_reboot_work \in {"idle", "scheduled"}
  /\ sdo_written \in Nat
  /\ sdo_lock_held \in BOOLEAN /\ up \in BOOLEAN /\ swap \in BOOLEAN /\ clean \in BOOLEAN
  /\ blank \in BOOLEAN
  /\ slot1 \in [1..SlotLen -> Nat \X Nat] /\ running \in 0..Len(sdo) /\ other \in 0..2

(* fw_download.c:15: through failures, resets and repeated confirmations,  *)
(* slot1 is never open for an SDO download while another channel's session *)
(* is.                                                                     *)
SlotOfOne == ~(fw_state \in {"READY", "STREAMING"} /\ other > 0)

(* fw_download.c:12: whatever lock, context and swap request were left     *)
(* behind, by a killed tool, a failure or another channel, a run of the    *)
(* tool that nothing disturbs, with the lock free or its own, installs its *)
(* image -- provided slot1 was blank where the image goes.                 *)
CleanRunSucceeds ==
  tool.pc = "exited" /\ clean /\ blank /\ sdo[tool.run].good => tool_exit[tool.run] = "ok" /\ running = tool.run

(* fw_download.c:10, :13: the slot is erased on demand and a rewritten     *)
(* 0x1F51 = 0 starts all over.  Refuted: over what slot1 holds since the   *)
(* last swap or attempt the writes fail or mix, and MCUboot refuses it.    *)
CleanRunAlways ==
  tool.pc = "exited" /\ clean /\ sdo[tool.run].good /\ sdo[tool.run].size <= SlotLen =>
    tool_exit[tool.run] = "ok" /\ running = tool.run

(* canopen_fw_upgrade.py:131: having seen the device offline, what answers *)
(* is not the old firmware.                                                *)
OkIsNew == [][\A r \in DOMAIN sdo : tool_exit'[r] = "ok" /\ tool_exit[r] # "ok" => running = r]_sdoVars

(* fw_download.c:162: after a confirmed download the other channels stay   *)
(* shut out until the restart.                                             *)
HeldUntilReboot == [][fw_state = "CONFIRMED" /\ up' => lock' = "SDO"]_sdoVars
=============================================================================
