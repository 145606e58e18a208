----------------------------- MODULE WsFwUpgrade -----------------------------
(***************************************************************************)
(* web/ws_io.c: firmware upgrade over the WebSocket connection, with the   *)
(* one connection thread CONFIG_IO_WEB_WS_HANDLERS = 1 allows.  fw_upg is  *)
(* static: it outlives the connection, and only a failed fw_end clears it. *)
(* Closing and opening a connection changes none of this state.            *)
(***************************************************************************)
EXTENDS FwUpgradeState

VARIABLES
  ws_pc,           \* "idle", "start" (lock taken), "verify", "request"
  fw_upg,          \* [active, failed, total, data]: data is what received and crc cover
  ws_ctx,          \* fw_upg.fic
  reboot_pending   \* set_reboot_status(true), main's delayed reboot

wsVars == <<ws_pc, fw_upg, ws_ctx, reboot_pending>>

WsTypeOK ==
  /\ ws_pc \in {"idle", "start", "verify", "request"}
  /\ fw_upg \in [active : BOOLEAN, failed : BOOLEAN, total : Nat, data : Seq(Chunk)]
  /\ ws_ctx \in Writer
  /\ reboot_pending \in BOOLEAN

NoUpgrade == [active |-> FALSE, failed |-> FALSE, total |-> 0, data |-> <<>>]

WsInit ==
  /\ ws_pc = "idle"
  /\ fw_upg = NoUpgrade
  /\ ws_ctx = FreshCtx
  /\ reboot_pending = FALSE

(* fw_upg_reset: the channel's state is cleared and its lock returned. *)
FwUpgReset ==
  /\ ws_pc' = "idle"
  /\ fw_upg' = NoUpgrade
  /\ ws_ctx' = FreshCtx
  /\ Unlock("WS")

(* fw_start: not active, a positive size, and the lock. *)
WsStart ==
  /\ ws_pc = "idle"
  /\ ~fw_upg.active
  /\ TryLock("WS", "WS")
  /\ ws_pc' = "start"
  /\ UNCHANGED <<fw_upg, ws_ctx, reboot_pending, slot1, armed>>

(* Mutant: an early return of fw_start that does not give the lock back. *)
WsStartRefusedKeepsLock ==
  /\ ws_pc = "start"
  /\ ws_pc' = "idle"
  /\ UNCHANGED <<lockVars, fw_upg, ws_ctx, reboot_pending, slot1, armed>>

(* fw_start: keyhash mismatch or flash_area_open failed. *)
WsStartRefused ==
  /\ ws_pc = "start"
  /\ ws_pc' = "idle"
  /\ Unlock("WS")
  /\ UNCHANGED <<fw_upg, ws_ctx, reboot_pending, slot1, armed>>

(* fw_start: erase and flash_img_init; received, crc and failed are not    *)
(* touched.                                                                *)
WsStartErase(size) ==
  /\ ws_pc = "start"
  /\ ws_pc' = "idle"
  /\ \E o \in Erase(slot1, size) :
        /\ slot1' = o.slot
        /\ \/ /\ o.ok
              /\ fw_upg' = [fw_upg EXCEPT !.active = TRUE, !.total = size]
              /\ ws_ctx' = FreshCtx
              /\ UNCHANGED lockVars
           \/ Unlock("WS") /\ UNCHANGED <<fw_upg, ws_ctx>>
  /\ UNCHANGED <<reboot_pending, armed>>

(* A binary frame.  A failed write only sets failed, and later frames are  *)
(* dropped until fw_end.                                                   *)
WsBinary(c) ==
  /\ ws_pc = "idle"
  /\ fw_upg.active
  /\ ~fw_upg.failed
  /\ \E o \in BufferedWrite(slot1, ws_ctx, c) :
        /\ slot1' = o.slot
        /\ ws_ctx' = o.ctx
        /\ fw_upg' = IF o.ok THEN [fw_upg EXCEPT !.data = Append(@, c)]
                             ELSE [fw_upg EXCEPT !.failed = TRUE]
  /\ UNCHANGED <<ws_pc, reboot_pending, lockVars, armed>>

(* fw_end: flush (its result is ignored) and the size check. *)
WsEnd ==
  /\ ws_pc = "idle"
  /\ fw_upg.active
  /\ \E o \in Flush(slot1, ws_ctx) :
        /\ slot1' = o.slot
        /\ IF fw_upg.data # <<>> /\ Len(fw_upg.data) = fw_upg.total
           THEN /\ ws_pc' = "verify"
                /\ ws_ctx' = o.ctx
                /\ UNCHANGED <<fw_upg, lockVars>>
           ELSE FwUpgReset
  /\ UNCHANGED <<reboot_pending, armed>>

(* fw_end: CRC of what was written against that of what was received, and  *)
(* the keyhash found in the written image.                                 *)
WsVerify ==
  /\ ws_pc = "verify"
  /\ \/ /\ ReadBack(slot1, ws_ctx.written) = fw_upg.data
        /\ ws_pc' = "request"
        /\ UNCHANGED <<fw_upg, ws_ctx, lockVars>>
     \/ FwUpgReset                      \* mismatch, or the flash could not be read
  /\ UNCHANGED <<reboot_pending, slot1, armed>>

(* fw_end: boot_request_upgrade.  On success fw_upg stays active and the   *)
(* lock taken, until main's delayed reboot.                                *)
WsRequest ==
  /\ ws_pc = "request"
  /\ \/ /\ Arm("WS", fw_upg.data)
        /\ ws_pc' = "idle"
        /\ reboot_pending' = TRUE
        /\ UNCHANGED <<fw_upg, ws_ctx, lockVars>>
     \/ /\ FwUpgReset
        /\ UNCHANGED <<reboot_pending, armed>>
  /\ UNCHANGED slot1

WsNext ==
  \/ WsStart
  \/ WsStartRefused
  \/ \E size \in 1..(SlotLen + 1) : WsStartErase(size)
  \/ \E c \in Chunk : WsBinary(c)
  \/ WsEnd
  \/ WsVerify
  \/ WsRequest

WsUpgrading == fw_upg.active \/ ws_pc # "idle"
=============================================================================
