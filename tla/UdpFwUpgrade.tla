---------------------------- MODULE UdpFwUpgrade ----------------------------
(***************************************************************************)
(* libs/udp_fw_upgrade: the upgrade commands as the RX thread executes     *)
(* them, with the hooks fw_upgrade_state.c registers.  A command that the  *)
(* code answers without changing state (START of an open session or while  *)
(* the lock is taken, DATA or END before START, GET_VERSION) is a          *)
(* stuttering step and has no action.  The RX thread can be preempted      *)
(* between taking the lock, working on the flash and requesting the swap:  *)
(* udp_pc names where it stands.                                           *)
(***************************************************************************)
EXTENDS FwUpgradeState

CONSTANT Image    \* the images whose CRC a host may announce

VARIABLES
  udp_pc,        \* "idle", "start" (lock taken, slot not erased yet), "request"
  fw_started,    \* a session is open
  fw_received,   \* the offset DATA and DATA_V2 answer
  udp_ctx,       \* flash_img_ctx
  udp_crc        \* the CRC of the END command being executed

udpVars == <<udp_pc, fw_started, fw_received, udp_ctx, udp_crc>>

UdpTypeOK ==
  /\ udp_pc \in {"idle", "start", "request"}
  /\ fw_started \in BOOLEAN
  /\ fw_received \in Nat
  /\ udp_ctx \in Writer
  /\ udp_crc \in Image \cup {<<>>}

UdpInit ==
  /\ udp_pc = "idle"
  /\ fw_started = FALSE
  /\ fw_received = 0
  /\ udp_ctx = FreshCtx
  /\ udp_crc = <<>>

(* The session is over: nothing reads its offset, writer or CRC any more,  *)
(* and the model forgets them.                                             *)
UdpClose ==
  /\ udp_pc' = "idle"
  /\ fw_started' = FALSE
  /\ fw_received' = 0
  /\ udp_ctx' = FreshCtx
  /\ udp_crc' = <<>>

(* fw_session_fail: the fail hook returns the lock. *)
FwSessionFail == UdpClose /\ Unlock("UDP")

(* FW_CMD_START up to the pre_start hook. *)
UdpStart ==
  /\ udp_pc = "idle"
  /\ ~fw_started
  /\ TryLock("UDP", "UDP")
  /\ udp_pc' = "start"
  /\ UNCHANGED <<fw_started, fw_received, udp_ctx, udp_crc, slot1, armed>>

(* FW_CMD_START, flash_area_open failed. *)
UdpStartOpenFails ==
  /\ udp_pc = "start"
  /\ FwSessionFail
  /\ UNCHANGED <<slot1, armed>>

(* FW_CMD_START, the rest: the result of the erase is ignored. *)
UdpStartErase(size) ==
  /\ udp_pc = "start"
  /\ \E o \in Erase(slot1, size) : slot1' = o.slot
  /\ \/ FwSessionFail                   \* flash_img_init failed
     \/ /\ udp_pc' = "idle"
        /\ fw_started' = TRUE
        /\ fw_received' = 0
        /\ udp_ctx' = FreshCtx
        /\ UNCHANGED <<udp_crc, lockVars>>
  /\ UNCHANGED armed

(* Mutant: the offset advances before the result of the write is known. *)
UdpWriteCountsFirst(c) ==
  \E o \in BufferedWrite(slot1, udp_ctx, c) :
     /\ slot1' = o.slot
     /\ fw_received' = fw_received + 1
     /\ udp_ctx' = o.ctx
     /\ UNCHANGED <<udp_pc, fw_started, udp_crc, lockVars, armed>>

UdpWrite(c) ==
  \E o \in BufferedWrite(slot1, udp_ctx, c) :
     /\ slot1' = o.slot
     /\ UNCHANGED armed
     /\ IF o.ok
        THEN /\ fw_received' = fw_received + 1
             /\ udp_ctx' = o.ctx
             /\ UNCHANGED <<udp_pc, fw_started, udp_crc, lockVars>>
        ELSE FwSessionFail

(* FW_CMD_DATA: stop and wait, no offset in the frame. *)
UdpData(c) ==
  /\ udp_pc = "idle"
  /\ fw_started
  /\ UdpWrite(c)

(* FW_CMD_DATA_V2: a frame at another offset is answered, not written. *)
UdpDataV2(off, c) ==
  /\ udp_pc = "idle"
  /\ fw_started
  /\ off = fw_received
  /\ UdpWrite(c)

(* Mutant: END trusts the host and does not read the slot back. *)
UdpEndUnverified(crc) ==
  /\ udp_pc = "idle"
  /\ fw_started
  /\ \E o \in Flush(slot1, udp_ctx) : slot1' = o.slot /\ udp_ctx' = o.ctx
  /\ udp_pc' = "request"
  /\ udp_crc' = crc
  /\ UNCHANGED <<fw_started, fw_received, lockVars, armed>>

(* FW_CMD_END: flush (its result is ignored) and CRC of what was written. *)
UdpEnd(crc) ==
  /\ udp_pc = "idle"
  /\ fw_started
  /\ \E o \in Flush(slot1, udp_ctx) :
        /\ slot1' = o.slot
        /\ IF ReadBack(o.slot, o.ctx.written) = crc
           THEN /\ udp_pc' = "request"
                /\ udp_ctx' = o.ctx
                /\ udp_crc' = crc
                /\ UNCHANGED <<fw_started, fw_received, lockVars>>
           ELSE FwSessionFail
  /\ UNCHANGED armed

(* FW_CMD_END: flash_area_open or flash_area_read failed. *)
UdpEndReadFails ==
  /\ udp_pc = "idle"
  /\ fw_started
  /\ \E o \in Flush(slot1, udp_ctx) : slot1' = o.slot
  /\ FwSessionFail
  /\ UNCHANGED armed

(* Mutant: the end of the session returns the lock on success as well. *)
UdpRequestUnlocks ==
  /\ udp_pc = "request"
  /\ UNCHANGED slot1
  /\ FwSessionFail
  /\ Arm("UDP", udp_crc) \/ UNCHANGED armed

(* FW_CMD_END: boot_request_upgrade.  On success the lock is kept. *)
UdpRequest ==
  /\ udp_pc = "request"
  /\ UNCHANGED slot1
  /\ \/ Arm("UDP", udp_crc) /\ UdpClose /\ UNCHANGED lockVars
     \/ FwSessionFail /\ UNCHANGED armed

UdpNext ==
  \/ UdpStart
  \/ UdpStartOpenFails
  \/ \E size \in 0..(SlotLen + 1) : UdpStartErase(size)
  \/ \E c \in Chunk : UdpData(c)
  \/ \E c \in Chunk, off \in 0..SlotLen : UdpDataV2(off, c)
  \/ \E crc \in Image : UdpEnd(crc)
  \/ UdpEndReadFails
  \/ UdpRequest

UdpUpgrading == fw_started \/ udp_pc # "idle"
=============================================================================
