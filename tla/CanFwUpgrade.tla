---------------------------- MODULE CanFwUpgrade ----------------------------
(***************************************************************************)
(* libs/can_fw_upgrade as the application uses it (no BOOT_WAIT): START,   *)
(* data and CONFIRM frames as the RX thread executes them.  The hook       *)
(* fw_upgrade_state.c registers takes the lock under the label "UDP", and  *)
(* the library has no fail hook: nothing here ever returns the lock.       *)
(* The keyhash frames, which only decide whether START is refused before   *)
(* the hook, and the answers are left out.                                 *)
(***************************************************************************)
EXTENDS FwUpgradeState

VARIABLES
  can_pc,              \* "idle", "start" (lock taken), "request" (image confirmed)
  fw_img_initialized,  \* data frames are accepted
  fw_total_size,       \* the size START announced
  can_data,            \* the chunks counted by fw_written, in order
  can_ctx              \* flash_img_ctx

canVars == <<can_pc, fw_img_initialized, fw_total_size, can_data, can_ctx>>

fw_written == Len(can_data)

CanTypeOK ==
  /\ can_pc \in {"idle", "start", "request"}
  /\ fw_img_initialized \in BOOLEAN
  /\ fw_total_size \in Nat
  /\ can_data \in Seq(Chunk)
  /\ can_ctx \in Writer

CanInit ==
  /\ can_pc = "idle"
  /\ fw_img_initialized = FALSE
  /\ fw_total_size = 0
  /\ can_data = <<>>
  /\ can_ctx = FreshCtx

(* Without a session nothing reads size, count and writer: forgotten. *)
CanClose ==
  /\ can_pc' = "idle"
  /\ fw_img_initialized' = FALSE
  /\ fw_total_size' = 0
  /\ can_data' = <<>>
  /\ can_ctx' = FreshCtx

(* Mutant: START goes on when the hook refuses the lock. *)
CanStartUnlocked ==
  /\ can_pc = "idle"
  /\ TryLock("CAN", "UDP") \/ UNCHANGED lockVars
  /\ can_pc' = "start"
  /\ UNCHANGED <<fw_img_initialized, fw_total_size, can_data, can_ctx, slot1, armed>>

(* FW_CMD_START_UPDATE up to the pre_start hook. *)
CanStart ==
  /\ can_pc = "idle"
  /\ TryLock("CAN", "UDP")
  /\ can_pc' = "start"
  /\ UNCHANGED <<fw_img_initialized, fw_total_size, can_data, can_ctx, slot1, armed>>

(* flash_area_open failed: FLASH_ERROR, the lock stays taken. *)
CanStartOpenFails ==
  /\ can_pc = "start"
  /\ can_pc' = "idle"
  /\ UNCHANGED <<fw_img_initialized, fw_total_size, can_data, can_ctx>>
  /\ UNCHANGED stateVars

(* Erase (its result is ignored) and flash_img_init_id. *)
CanStartErase(size) ==
  /\ can_pc = "start"
  /\ \E o \in Erase(slot1, size) : slot1' = o.slot
  /\ \/ CanClose                        \* flash_img_init_id failed
     \/ /\ can_pc' = "idle"
        /\ fw_img_initialized' = TRUE
        /\ fw_total_size' = size
        /\ can_data' = <<>>
        /\ can_ctx' = FreshCtx
  /\ UNCHANGED <<lockVars, armed>>

(* A failed write answers FLASH_ERROR and leaves the session open. *)
CanData(c) ==
  /\ can_pc = "idle"
  /\ fw_img_initialized
  /\ \E o \in BufferedWrite(slot1, can_ctx, c) :
        /\ slot1' = o.slot
        /\ can_ctx' = o.ctx
        /\ can_data' = IF o.ok THEN Append(can_data, c) ELSE can_data
  /\ UNCHANGED <<can_pc, fw_img_initialized, fw_total_size, lockVars, armed>>

(* FW_CMD_CONFIRM: the flush's result is ignored, the session closed, and  *)
(* the count compared with the announced size.                             *)
CanConfirm ==
  /\ can_pc = "idle"
  /\ fw_img_initialized
  /\ \E o \in Flush(slot1, can_ctx) : slot1' = o.slot
  /\ IF fw_written # fw_total_size
     THEN CanClose
     ELSE /\ fw_img_initialized' = FALSE
          /\ can_pc' = "request"
          /\ can_ctx' = FreshCtx
          /\ UNCHANGED <<fw_total_size, can_data>>
  /\ UNCHANGED <<lockVars, armed>>

(* FW_CMD_CONFIRM: boot_request_upgrade. *)
CanRequest ==
  /\ can_pc = "request"
  /\ \/ Arm("CAN", can_data)
     \/ UNCHANGED armed
  /\ CanClose
  /\ UNCHANGED <<lockVars, slot1>>

CanNext ==
  \/ CanStart
  \/ CanStartOpenFails
  \/ \E size \in 0..(SlotLen + 1) : CanStartErase(size)
  \/ \E c \in Chunk : CanData(c)
  \/ CanConfirm
  \/ CanRequest

CanUpgrading == fw_img_initialized \/ can_pc # "idle"
=============================================================================
