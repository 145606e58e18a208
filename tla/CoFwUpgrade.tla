----------------------------- MODULE CoFwUpgrade -----------------------------
(***************************************************************************)
(* Firmware upgrade in canopen-io: the UDP library and the web server are  *)
(* those of io-edge-hub, the third channel is the SDO download             *)
(* (fw_download.c), which takes the lock under a label of its own, here    *)
(* "CAN".  It erases the trailer of the slot and nothing else: the writer  *)
(* would erase the pages it reaches (fw_download.c:10) only in a build     *)
(* with IMG_ERASE_PROGRESSIVELY, and no configuration sets it.  What the   *)
(* flash was not erased for does not take the image, and the answers do    *)
(* not tell.  CoDownload has the tool at the other end and MCUboot; here   *)
(* the three threads are cut where the lock has to hold.                   *)
(***************************************************************************)
EXTENDS FwUpgrade

VARIABLES
  sdo_pc,          \* "idle", "start" (lock taken), "request" (flushed)
  fw_state,        \* fw_dl_state
  sdo_lock_held,
  sdo_ctx,         \* fw_img
  sdo_data,        \* history: the chunks answered since 0x1F51 = 0; fw_written is its length
  sdo_blank        \* history: the cells that were erased when 0x1F51 = 0 was answered

sdoVars == <<sdo_pc, fw_state, sdo_lock_held, sdo_ctx, sdo_data, sdo_blank>>

SdoInit ==
  /\ sdo_pc = "idle" /\ fw_state = "IDLE" /\ sdo_lock_held = FALSE
  /\ sdo_ctx = FreshCtx /\ sdo_data = <<>> /\ sdo_blank = {}

(* Nothing reads the context before the next 0x1F51 = 0. *)
Forgotten == sdo_ctx' = FreshCtx /\ sdo_data' = <<>>

(* The error exits of fw_ctrl_write. *)
SdoGivesUp ==
  /\ fw_state' = "ERROR" /\ Forgotten /\ sdo_blank' = {}
  /\ IF sdo_lock_held THEN Unlock("CAN") ELSE UNCHANGED lockVars
  /\ sdo_lock_held' = FALSE

(* 0x1F51 = 0: the lock, unless it is already this module's. *)
SdoStart ==
  /\ sdo_pc = "idle" /\ sdo_pc' = "start"
  /\ IF sdo_lock_held THEN UNCHANGED lockVars ELSE TryLock("CAN", "CAN")
  /\ sdo_lock_held' = TRUE
  /\ UNCHANGED <<fw_state, sdo_ctx, sdo_data, sdo_blank, slot1, armed>>

(* 0x1F51 = 0: the erase of the trailer, swap request included, and a new  *)
(* context; either may fail.  The slot itself is left as it is.            *)
SdoReset ==
  /\ sdo_pc = "start" /\ sdo_pc' = "idle"
  /\ UNCHANGED slot1
  /\ \/ /\ armed' = Disarmed /\ fw_state' = "READY" /\ Forgotten
        /\ sdo_blank' = {p \in 1..SlotLen : slot1[p] = Erased}
        /\ UNCHANGED <<sdo_lock_held, lockVars>>
     \/ armed' \in {armed, Disarmed} /\ SdoGivesUp

(* 0x1F50.  A failed write keeps the lock. *)
SdoData(c) ==
  /\ sdo_pc = "idle" /\ fw_state \in {"READY", "STREAMING"}
  /\ \E o \in BufferedWrite(slot1, sdo_ctx, c) :
       /\ slot1' = o.slot
       /\ IF o.ok
          THEN /\ fw_state' = "STREAMING" /\ sdo_ctx' = o.ctx
               /\ sdo_data' = Append(sdo_data, c) /\ UNCHANGED sdo_blank
          ELSE fw_state' = "ERROR" /\ Forgotten /\ sdo_blank' = {}
  /\ UNCHANGED <<sdo_pc, sdo_lock_held, lockVars, armed>>

(* Mutant: what the flush answers is not looked at. *)
SdoConfirmUnflushed ==
  /\ sdo_pc = "idle" /\ UNCHANGED armed
  /\ \/ /\ fw_state # "STREAMING" /\ SdoGivesUp
        /\ UNCHANGED <<sdo_pc, slot1>>
     \/ /\ fw_state = "STREAMING"
        /\ \E o \in Flush(slot1, sdo_ctx) :
             slot1' = o.slot /\ sdo_ctx' = o.ctx
        /\ sdo_pc' = "request" /\ UNCHANGED <<fw_state, sdo_data, sdo_blank, sdo_lock_held, lockVars>>

(* 0x1F51 = 1: only after data, and the flush has to succeed. *)
SdoConfirm ==
  /\ sdo_pc = "idle" /\ UNCHANGED armed
  /\ \/ /\ fw_state # "STREAMING" /\ SdoGivesUp
        /\ UNCHANGED <<sdo_pc, slot1>>
     \/ /\ fw_state = "STREAMING"
        /\ \E o \in Flush(slot1, sdo_ctx) :
             /\ slot1' = o.slot
             /\ \/ /\ o.ok /\ sdo_pc' = "request" /\ sdo_ctx' = o.ctx
                   /\ UNCHANGED <<fw_state, sdo_data, sdo_blank, sdo_lock_held, lockVars>>
                \/ ~o.ok /\ SdoGivesUp /\ UNCHANGED sdo_pc

(* 0x1F51 = 1: boot_request_upgrade; the lock is kept until the restart. *)
SdoRequest ==
  /\ sdo_pc = "request" /\ sdo_pc' = "idle"
  /\ UNCHANGED slot1
  /\ \/ /\ Arm("CAN", sdo_data) /\ fw_state' = "CONFIRMED" /\ Forgotten
        /\ UNCHANGED <<sdo_blank, sdo_lock_held, lockVars>>
     \/ SdoGivesUp /\ UNCHANGED armed

SdoNext == SdoStart \/ SdoReset \/ (\E c \in Chunk : SdoData(c)) \/ SdoConfirm \/ SdoRequest

-----------------------------------------------------------------------------
(* The web channel of canopen-io, function by function: ws_io.c has the    *)
(* control flow of io-edge-hub's.                                          *)
co_fw_start == WsStart \/ \E size \in 1..(SlotLen + 1) : WsStartErase(size)
co_fw_upg_verify_client_keyhash == WsStartRefused
co_fw_data == \E c \in Chunk : WsBinary(c)
co_fw_end == WsEnd \/ WsRequest
co_fw_upg_verify == WsVerify

CoWsNext ==
  co_fw_start \/ co_fw_upg_verify_client_keyhash \/ co_fw_data \/ co_fw_end \/ co_fw_upg_verify

(* fw_upgrade_state.c: the hooks of the UDP library, and the lock the two  *)
(* other channels ask for themselves.                                      *)
CoUdpStep == "UDP" \in Enabled /\ UdpNext /\ UNCHANGED <<canVars, wsVars, sdoVars>>
CoWsStep  == "WS" \in Enabled /\ CoWsNext /\ UNCHANGED <<udpVars, canVars, sdoVars>>
SdoStep   == SdoNext /\ UNCHANGED <<udpVars, canVars, wsVars>>
CoReboot ==
  /\ Reboot
  /\ sdo_pc' = "idle" /\ fw_state' = "IDLE" /\ sdo_lock_held' = FALSE
  /\ sdo_ctx' = FreshCtx /\ sdo_data' = <<>> /\ sdo_blank' = {}

CoInit == Init /\ SdoInit
CoNext == CoUdpStep \/ CoWsStep \/ SdoStep \/ CoReboot
CoSpec == CoInit /\ [][CoNext]_<<vars, sdoVars>>

-----------------------------------------------------------------------------
SdoOpen == fw_state \in {"READY", "STREAMING"} \/ sdo_pc # "idle"

(* What n chunks of data leave in the slot, and the rest in the writer: a  *)
(* cell that was not erased is not what was written to it.                 *)
Landed(data, n) == [p \in DOMAIN data |-> IF p \in (1..n) \ sdo_blank THEN Junk ELSE data[p]]

(* fw_download.c:15: from the answer to 0x1F51 = 0 to the confirmation no  *)
(* other channel is in a session, whatever failed before; what was         *)
(* answered is in the slot, as far as the flash took it, or in the writer; *)
(* and when the confirmation is answered, the slot holds all of it as far  *)
(* as the flash took it, until the restart.                                *)
SdoImageKept ==
  /\ SdoOpen => holder = "CAN" /\ \A c \in Channel : ~Upgrading(c)
  /\ fw_state \in {"READY", "STREAMING"} =>
       ReadBack(slot1, sdo_ctx.written) \o sdo_ctx.buf = Landed(sdo_data, sdo_ctx.written)
  /\ fw_state = "CONFIRMED" =>
       /\ armed.by = "CAN"
       /\ ReadBack(slot1, Len(armed.image)) = Landed(armed.image, Len(armed.image))

(* fw_download.c:10 and :13, read as a promise: what was confirmed is in   *)
(* the slot.  It holds only if the slot was erased before.                 *)
DownloadStored == fw_state = "CONFIRMED" => Holds(armed.image)
=============================================================================
