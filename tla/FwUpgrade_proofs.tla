--------------------------- MODULE FwUpgrade_proofs ---------------------------
(***************************************************************************)
(* Theorems about FwUpgrade, for every set of images, every geometry of    *)
(* the slot and every set of enabled channels; about the SDO download of   *)
(* canopen-io beside two of them (CoFwUpgrade); about the starts of        *)
(* apollo-v2 and n2e-gw, for every set of leases, faults and presses; and  *)
(* about what apollo-v2's web page sends, for every set of files.          *)
(***************************************************************************)
EXTENDS MCFwUpgrade, SequenceTheorems, TLAPS

(* The outcomes of an erase are slots. *)
LEMMA EraseType ==
  ASSUME NEW s \in Slot, NEW size \in Nat, NEW o \in Erase(s, size)
  PROVE  o.slot \in Slot
<1>1. ASSUME NEW n PROVE Wipe(s, n) \in Slot
  BY DEF Wipe, Slot, Cell
<1>2. QED
  BY <1>1 DEF Erase

(* Programming the block leaves a slot, and adds what was in RAM to what   *)
(* was written.                                                            *)
LEMMA SyncType ==
  ASSUME NEW s \in Slot, NEW ctx \in Ctx, Taken(ctx) <= SlotLen,
         NEW o \in Sync(s, ctx)
  PROVE  /\ o.slot \in Slot
         /\ o.ctx \in Ctx
         /\ Taken(o.ctx) = Taken(ctx)
<1> USE FlashAssumption DEF FlashAssumption
<1>1. /\ ctx.written \in 0..SlotLen
      /\ ctx.buf \in Seq(Chunk)
      /\ Len(ctx.buf) \in Nat
      /\ Taken(ctx) \in 0..SlotLen
  BY DEF Ctx, Taken
<1>2. Program(s, ctx) \in Slot
  <2> SUFFICES ASSUME NEW p \in 1..SlotLen,
                      p \in (ctx.written + 1)..Taken(ctx)
               PROVE  ctx.buf[p - ctx.written] \in Chunk
    BY DEF Program, Slot, Cell
  <2>1. p - ctx.written \in 1..Len(ctx.buf)
    BY <1>1 DEF Taken
  <2>2. QED
    BY <1>1, <2>1
<1>3. /\ <<>> \in Seq(Chunk)
      /\ Len(<<>>) = 0
  OBVIOUS
<1>4. CASE o = [ok |-> TRUE, ctx |-> [written |-> Taken(ctx), buf |-> <<>>],
                slot |-> Program(s, ctx)]
  <2>1. /\ o.ctx = [written |-> Taken(ctx), buf |-> <<>>]
        /\ o.slot = Program(s, ctx)
    BY <1>4
  <2>2. Taken(o.ctx) = Taken(ctx) + 0
    BY <2>1, <1>3 DEF Taken
  <2>3. [written |-> Taken(ctx), buf |-> <<>>] \in Ctx
    BY <1>1, <1>3 DEF Ctx
  <2>4. QED
    BY <1>1, <1>2, <2>1, <2>2, <2>3
<1>5. CASE o = [ok |-> FALSE, ctx |-> ctx, slot |-> s]
  BY <1>5
<1>6. QED
  BY <1>4, <1>5 DEF Sync

LEMMA FlushType ==
  ASSUME NEW s \in Slot, NEW ctx \in Writer, NEW o \in Flush(s, ctx)
  PROVE  /\ o.slot \in Slot
         /\ o.ctx \in Writer
         /\ Taken(o.ctx) = Taken(ctx)
<1>1. CASE ctx.buf = <<>>
  BY <1>1 DEF Flush, Writer
<1>2. CASE ctx.buf # <<>>
  <2>1. o \in Sync(s, ctx)
    BY <1>2 DEF Flush
  <2>2. QED
    BY <2>1, SyncType DEF Writer
<1>3. QED
  BY <1>1, <1>2

(* Putting a chunk in the block. *)
LEMMA PutType ==
  ASSUME NEW ctx \in Ctx, NEW c \in Chunk
  PROVE  /\ Put(ctx, c) \in Ctx
         /\ Taken(Put(ctx, c)) = Taken(ctx) + 1
<1> USE FlashAssumption DEF FlashAssumption
<1>1. ctx.buf \in Seq(Chunk) /\ ctx.written \in 0..SlotLen /\ Len(ctx.buf) \in Nat
  BY DEF Ctx
<1>2. /\ Append(ctx.buf, c) \in Seq(Chunk)
      /\ Len(Append(ctx.buf, c)) = Len(ctx.buf) + 1
  BY <1>1
<1>3. QED
  BY <1>1, <1>2 DEF Put, Ctx, Taken

(* A buffered write leaves a slot and a writer within the slot; when it    *)
(* answers OK the writer has taken exactly one chunk more.                 *)
LEMMA BufferedWriteType ==
  ASSUME NEW s \in Slot, NEW ctx \in Writer, NEW c \in Chunk,
         NEW o \in BufferedWrite(s, ctx, c)
  PROVE  /\ o.slot \in Slot
         /\ o.ctx \in Writer
         /\ o.ok => Taken(o.ctx) = Taken(ctx) + 1
<1> USE FlashAssumption DEF FlashAssumption, Writer
<1>0. Taken(ctx) \in Nat /\ Put(ctx, c) \in Ctx /\ Taken(Put(ctx, c)) = Taken(ctx) + 1
  <2>1. ctx.written \in Nat /\ Len(ctx.buf) \in Nat
    BY DEF Ctx
  <2>2. QED
    BY <2>1, PutType DEF Taken
<1>1. CASE Taken(ctx) >= SlotLen
  BY <1>1 DEF BufferedWrite
<1>2. CASE Taken(ctx) < SlotLen /\ Len(ctx.buf) = BlockLen
  <2>1. PICK q \in Sync(s, ctx) : o = IF q.ok THEN [q EXCEPT !.ctx = Put(@, c)] ELSE q
    BY <1>0, <1>2 DEF BufferedWrite
  <2>2. /\ q.slot \in Slot
        /\ q.ctx \in Ctx
        /\ Taken(q.ctx) = Taken(ctx)
    BY SyncType
  <2>3. CASE q.ok
    <3>1. o.slot = q.slot /\ o.ctx = Put(q.ctx, c) /\ o.ok = q.ok
      BY <2>1, <2>3 DEF Sync
    <3>2. QED
      BY <3>1, <2>2, <1>0, <1>2, PutType
  <2>4. CASE ~q.ok
    BY <2>1, <2>2, <2>4
  <2>5. QED
    BY <2>3, <2>4
<1>3. CASE Taken(ctx) < SlotLen /\ Len(ctx.buf) # BlockLen /\ Len(ctx.buf) + 1 = BlockLen
  <2>1. o \in Sync(s, Put(ctx, c))
    BY <1>0, <1>3 DEF BufferedWrite
  <2>2. Taken(Put(ctx, c)) <= SlotLen
    BY <1>0, <1>3
  <2>3. QED
    BY <1>0, <2>1, <2>2, SyncType
<1>4. CASE Taken(ctx) < SlotLen /\ Len(ctx.buf) # BlockLen /\ Len(ctx.buf) + 1 # BlockLen
  <2>1. o = [ok |-> TRUE, ctx |-> Put(ctx, c), slot |-> s]
    BY <1>0, <1>4 DEF BufferedWrite
  <2>2. QED
    BY <2>1, <1>0, <1>4
<1>5. QED
  BY <1>0, <1>1, <1>2, <1>3, <1>4

LEMMA EmptyChunks == <<>> \in Seq(Chunk) /\ Len(<<>>) = 0
  OBVIOUS

LEMMA FreshCtxType == FreshCtx \in Writer /\ Taken(FreshCtx) = 0
  BY EmptyChunks, FlashAssumption DEF FlashAssumption, FreshCtx, Writer, Ctx, Taken

-----------------------------------------------------------------------------
(* Type correctness, one lemma per channel. *)
LEMMA InitType == Init => TypeOK
<1> SUFFICES ASSUME Init PROVE TypeOK
  OBVIOUS
<1> USE EmptyChunks, FreshCtxType DEF Init
<1>1. StateTypeOK
  BY DEF StateInit, StateTypeOK, Slot, Cell, Disarmed, Channel, NoChannel
<1>2. UdpTypeOK
  BY DEF UdpInit, UdpTypeOK
<1>3. CanTypeOK
  BY DEF CanInit, CanTypeOK
<1>4. WsTypeOK
  BY DEF WsInit, WsTypeOK, NoUpgrade
<1>5. QED
  BY <1>1, <1>2, <1>3, <1>4 DEF TypeOK

(* What a release of the lock leaves, whatever label it is called with. *)
LEMMA UnlockType ==
  ASSUME StateTypeOK, NEW label, Unlock(label)
  PROVE  /\ upgrade_active' \in BOOLEAN
         /\ current_channel' \in Channel
         /\ holder' \in Channel \cup {NoChannel}
  BY DEF StateTypeOK, Unlock

LEMMA UdpCloseType ==
  ASSUME UdpClose
  PROVE  UdpTypeOK'
<1>1. udp_crc' \in Image \cup {<<>>}
  BY DEF UdpClose
<1>2. udp_ctx' \in Writer
  BY FreshCtxType DEF UdpClose
<1>3. QED
  BY <1>1, <1>2 DEF UdpClose, UdpTypeOK

LEMMA UdpType ==
  ASSUME TypeOK, UdpNext
  PROVE  StateTypeOK' /\ UdpTypeOK'
<1> USE DEF TypeOK, StateTypeOK, UdpTypeOK, lockVars
<1>f. ASSUME FwSessionFail, UNCHANGED armed, slot1' \in Slot
      PROVE  StateTypeOK' /\ UdpTypeOK'
  BY <1>f, UdpCloseType, UnlockType DEF FwSessionFail
<1>w. ASSUME NEW c \in Chunk, UdpWrite(c)
      PROVE  StateTypeOK' /\ UdpTypeOK'
  <2>1. PICK o \in BufferedWrite(slot1, udp_ctx, c) :
           /\ slot1' = o.slot
           /\ UNCHANGED armed
           /\ IF o.ok
              THEN /\ fw_received' = fw_received + 1
                   /\ udp_ctx' = o.ctx
                   /\ UNCHANGED <<udp_pc, fw_started, udp_crc, lockVars>>
              ELSE FwSessionFail
    BY <1>w DEF UdpWrite
  <2>2. o.slot \in Slot /\ o.ctx \in Writer
    BY BufferedWriteType
  <2>3. CASE o.ok
    BY <2>1, <2>2, <2>3
  <2>4. CASE ~o.ok
    BY <2>1, <2>2, <2>4, <1>f
  <2>5. QED
    BY <2>3, <2>4
<1>1. CASE UdpStart
  BY <1>1 DEF UdpStart, TryLock, Channel
<1>2. CASE UdpStartOpenFails
  BY <1>2, <1>f DEF UdpStartOpenFails
<1>3. ASSUME NEW size \in 0..(SlotLen + 1), UdpStartErase(size)
      PROVE  StateTypeOK' /\ UdpTypeOK'
  <2>1. slot1' \in Slot /\ UNCHANGED armed
    BY <1>3, EraseType, FlashAssumption DEF UdpStartErase, FlashAssumption
  <2>2. CASE FwSessionFail
    BY <1>f, <2>1, <2>2
  <2>3. CASE /\ udp_pc' = "idle"
             /\ fw_started' = TRUE
             /\ fw_received' = 0
             /\ udp_ctx' = FreshCtx
             /\ UNCHANGED <<udp_crc, lockVars>>
    BY <2>1, <2>3, FreshCtxType
  <2>4. QED
    BY <1>3, <2>2, <2>3 DEF UdpStartErase
<1>4. ASSUME NEW c \in Chunk, UdpData(c) PROVE StateTypeOK' /\ UdpTypeOK'
  BY <1>4, <1>w DEF UdpData
<1>5. ASSUME NEW c \in Chunk, NEW off \in 0..SlotLen, UdpDataV2(off, c)
      PROVE StateTypeOK' /\ UdpTypeOK'
  BY <1>5, <1>w DEF UdpDataV2
<1>6. ASSUME NEW crc \in Image, UdpEnd(crc) PROVE StateTypeOK' /\ UdpTypeOK'
  <2>1. PICK o \in Flush(slot1, udp_ctx) :
          /\ slot1' = o.slot
          /\ \/ /\ udp_pc' = "request"
                /\ udp_ctx' = o.ctx
                /\ udp_crc' = crc
                /\ UNCHANGED <<fw_started, fw_received, lockVars>>
             \/ FwSessionFail
    BY <1>6 DEF UdpEnd
  <2>2. o.slot \in Slot /\ o.ctx \in Writer
    BY FlushType
  <2>3. UNCHANGED armed
    BY <1>6 DEF UdpEnd
  <2>4. CASE FwSessionFail
    BY <2>1, <2>2, <2>3, <2>4, <1>f
  <2>5. CASE /\ udp_pc' = "request"
             /\ udp_ctx' = o.ctx
             /\ udp_crc' = crc
             /\ UNCHANGED <<fw_started, fw_received, lockVars>>
    BY <2>1, <2>2, <2>3, <2>5
  <2>6. QED
    BY <2>1, <2>4, <2>5
<1>7. CASE UdpEndReadFails
  BY <1>7, <1>f, FlushType DEF UdpEndReadFails
<1>8. CASE UdpRequest
  <2>1. CASE FwSessionFail /\ UNCHANGED armed
    BY <1>8, <2>1, <1>f DEF UdpRequest
  <2>2. CASE Arm("UDP", udp_crc) /\ UdpClose /\ UNCHANGED lockVars
    <3>1. udp_crc \in Seq(Chunk)
      BY EmptyChunks, ImageAssumption DEF ImageAssumption
    <3>2. QED
      BY <1>8, <2>2, <3>1, UdpCloseType DEF UdpRequest, Arm, Channel
  <2>3. QED
    BY <1>8, <2>1, <2>2 DEF UdpRequest
<1>9. QED
  BY <1>1, <1>2, <1>3, <1>4, <1>5, <1>6, <1>7, <1>8 DEF UdpNext

LEMMA CanCloseType ==
  ASSUME CanClose
  PROVE  CanTypeOK'
<1>1. can_data' \in Seq(Chunk)
  BY EmptyChunks DEF CanClose
<1>2. can_ctx' \in Writer
  BY FreshCtxType DEF CanClose
<1>3. QED
  BY <1>1, <1>2 DEF CanClose, CanTypeOK

LEMMA CanType ==
  ASSUME TypeOK, CanNext
  PROVE  StateTypeOK' /\ CanTypeOK'
<1> USE DEF TypeOK, StateTypeOK, CanTypeOK, lockVars
<1>1. CASE CanStart
  BY <1>1 DEF CanStart, TryLock, Channel
<1>2. CASE CanStartOpenFails
  BY <1>2 DEF CanStartOpenFails, stateVars
<1>3. ASSUME NEW size \in 0..(SlotLen + 1), CanStartErase(size)
      PROVE  StateTypeOK' /\ CanTypeOK'
  <2>1. slot1' \in Slot /\ UNCHANGED <<lockVars, armed>>
    BY <1>3, EraseType, FlashAssumption DEF CanStartErase, FlashAssumption
  <2>2. CASE CanClose
    BY <2>1, <2>2, CanCloseType
  <2>3. CASE /\ can_pc' = "idle"
             /\ fw_img_initialized' = TRUE
             /\ fw_total_size' = size
             /\ can_data' = <<>>
             /\ can_ctx' = FreshCtx
    <3>1. can_data' \in Seq(Chunk)
      BY <2>3, EmptyChunks
    <3>2. QED
      BY <2>1, <2>3, <3>1, FreshCtxType, FlashAssumption DEF FlashAssumption
  <2>4. QED
    BY <1>3, <2>2, <2>3 DEF CanStartErase
<1>4. ASSUME NEW c \in Chunk, CanData(c) PROVE StateTypeOK' /\ CanTypeOK'
  <2>1. PICK o \in BufferedWrite(slot1, can_ctx, c) :
          /\ slot1' = o.slot
          /\ can_ctx' = o.ctx
          /\ can_data' = IF o.ok THEN Append(can_data, c) ELSE can_data
    BY <1>4 DEF CanData
  <2>2. o.slot \in Slot /\ o.ctx \in Writer
    BY BufferedWriteType
  <2>3. can_data' \in Seq(Chunk)
    BY <2>1
  <2>4. QED
    BY <1>4, <2>1, <2>2, <2>3 DEF CanData
<1>5. CASE CanConfirm
  <2>1. slot1' \in Slot /\ UNCHANGED <<lockVars, armed>>
    BY <1>5, FlushType DEF CanConfirm
  <2>2. CASE CanClose
    BY <2>1, <2>2, CanCloseType
  <2>3. CASE ~CanClose
    BY <1>5, <2>1, <2>3, FreshCtxType DEF CanConfirm
  <2>4. QED
    BY <2>2, <2>3
<1>6. CASE CanRequest
  BY <1>6, CanCloseType DEF CanRequest, Arm, Channel
<1>7. QED
  BY <1>1, <1>2, <1>3, <1>4, <1>5, <1>6 DEF CanNext

LEMMA NoUpgradeType ==
  NoUpgrade \in [active : BOOLEAN, failed : BOOLEAN, total : Nat, data : Seq(Chunk)]
  BY EmptyChunks DEF NoUpgrade

LEMMA FwUpgResetType ==
  ASSUME StateTypeOK, FwUpgReset, UNCHANGED <<armed, reboot_pending>>,
         reboot_pending \in BOOLEAN, slot1' \in Slot
  PROVE  StateTypeOK' /\ WsTypeOK'
<1>1. StateTypeOK'
  BY UnlockType DEF FwUpgReset, StateTypeOK
<1>2. WsTypeOK'
  <2>1. ws_ctx' \in Writer
    BY FreshCtxType DEF FwUpgReset
  <2>2. QED
    BY <2>1, NoUpgradeType DEF FwUpgReset, WsTypeOK
<1>3. QED
  BY <1>1, <1>2

LEMMA WsType ==
  ASSUME TypeOK, WsNext
  PROVE  StateTypeOK' /\ WsTypeOK'
<1> USE DEF TypeOK, StateTypeOK, WsTypeOK, lockVars
<1>1. CASE WsStart
  BY <1>1 DEF WsStart, TryLock, Channel
<1>2. CASE WsStartRefused
  BY <1>2, UnlockType DEF WsStartRefused
<1>3. ASSUME NEW size \in 1..(SlotLen + 1), WsStartErase(size)
      PROVE  StateTypeOK' /\ WsTypeOK'
  <2>1. slot1' \in Slot /\ UNCHANGED <<reboot_pending, armed>>
    BY <1>3, EraseType, FlashAssumption DEF WsStartErase, FlashAssumption
  <2>2. CASE Unlock("WS") /\ UNCHANGED <<fw_upg, ws_ctx>>
    BY <1>3, <2>1, <2>2, UnlockType DEF WsStartErase
  <2>3. CASE /\ fw_upg' = [fw_upg EXCEPT !.active = TRUE, !.total = size]
             /\ ws_ctx' = FreshCtx
             /\ UNCHANGED lockVars
    <3>1. size \in Nat
      BY FlashAssumption DEF FlashAssumption
    <3>2. QED
      BY <1>3, <2>1, <2>3, <3>1, FreshCtxType DEF WsStartErase
  <2>4. QED
    BY <1>3, <2>2, <2>3 DEF WsStartErase
<1>4. ASSUME NEW c \in Chunk, WsBinary(c) PROVE StateTypeOK' /\ WsTypeOK'
  <2>1. PICK o \in BufferedWrite(slot1, ws_ctx, c) :
          /\ slot1' = o.slot
          /\ ws_ctx' = o.ctx
          /\ fw_upg' = IF o.ok THEN [fw_upg EXCEPT !.data = Append(@, c)]
                               ELSE [fw_upg EXCEPT !.failed = TRUE]
    BY <1>4 DEF WsBinary
  <2>2. o.slot \in Slot /\ o.ctx \in Writer
    BY BufferedWriteType
  <2>3. fw_upg' \in [active : BOOLEAN, failed : BOOLEAN, total : Nat, data : Seq(Chunk)]
    <3>1. Append(fw_upg.data, c) \in Seq(Chunk)
      OBVIOUS
    <3>2. QED
      BY <2>1, <3>1
  <2>4. QED
    BY <1>4, <2>1, <2>2, <2>3 DEF WsBinary
<1>5. CASE WsEnd
  <2>1. PICK o \in Flush(slot1, ws_ctx) :
          /\ slot1' = o.slot
          /\ \/ ws_pc' = "verify" /\ ws_ctx' = o.ctx /\ UNCHANGED <<fw_upg, lockVars>>
             \/ FwUpgReset
    BY <1>5 DEF WsEnd
  <2>2. o.slot \in Slot /\ o.ctx \in Writer
    BY FlushType
  <2>3. QED
    BY <1>5, <2>1, <2>2, FwUpgResetType DEF WsEnd
<1>6. CASE WsVerify
  BY <1>6, FwUpgResetType DEF WsVerify
<1>7. CASE WsRequest
  <2>1. CASE FwUpgReset /\ UNCHANGED <<reboot_pending, armed>>
    BY <1>7, <2>1, FwUpgResetType DEF WsRequest
  <2>2. CASE /\ Arm("WS", fw_upg.data)
             /\ ws_pc' = "idle"
             /\ reboot_pending' = TRUE
             /\ UNCHANGED <<fw_upg, ws_ctx, lockVars>>
    BY <1>7, <2>2 DEF WsRequest, Arm, Channel
  <2>3. QED
    BY <1>7, <2>1, <2>2 DEF WsRequest
<1>8. QED
  BY <1>1, <1>2, <1>3, <1>4, <1>5, <1>6, <1>7 DEF WsNext

LEMMA RebootType ==
  ASSUME TypeOK, Reboot
  PROVE  TypeOK'
<1>1. StateTypeOK'
  <2>1. [p \in 1..SlotLen |-> Junk] \in Slot
    BY DEF Slot, Cell
  <2>2. Disarmed \in [by : Channel \cup {NoChannel}, image : Seq(Chunk)]
    BY EmptyChunks DEF Disarmed
  <2>3. QED
    BY <2>1, <2>2 DEF TypeOK, Reboot, StateReboot, StateTypeOK, Channel
<1>2. UdpTypeOK' /\ CanTypeOK'
  BY UdpCloseType, CanCloseType DEF Reboot
<1>3. WsTypeOK'
  <2>1. ws_ctx' \in Writer
    BY FreshCtxType DEF Reboot
  <2>2. QED
    BY <2>1, NoUpgradeType DEF Reboot, WsTypeOK
<1>4. QED
  BY <1>1, <1>2, <1>3 DEF TypeOK

LEMMA StutterType ==
  ASSUME TypeOK, UNCHANGED vars
  PROVE  TypeOK'
  BY DEF TypeOK, StateTypeOK, UdpTypeOK, CanTypeOK, WsTypeOK, vars, stateVars,
         udpVars, canVars, wsVars

LEMMA NextType ==
  ASSUME TypeOK, [Next]_vars
  PROVE  TypeOK'
<1>1. CASE UdpStep
  <2>1. CanTypeOK' /\ WsTypeOK'
    BY <1>1 DEF UdpStep, TypeOK, CanTypeOK, WsTypeOK, canVars, wsVars
  <2>2. QED
    BY <1>1, <2>1, UdpType DEF UdpStep, TypeOK
<1>2. CASE CanStep
  <2>1. UdpTypeOK' /\ WsTypeOK'
    BY <1>2 DEF CanStep, TypeOK, UdpTypeOK, WsTypeOK, udpVars, wsVars
  <2>2. QED
    BY <1>2, <2>1, CanType DEF CanStep, TypeOK
<1>3. CASE WsStep
  <2>1. UdpTypeOK' /\ CanTypeOK'
    BY <1>3 DEF WsStep, TypeOK, UdpTypeOK, CanTypeOK, udpVars, canVars
  <2>2. QED
    BY <1>3, <2>1, WsType DEF WsStep, TypeOK
<1>4. CASE Reboot
  BY <1>4, RebootType
<1>5. CASE UNCHANGED vars
  BY <1>5, StutterType
<1>6. QED
  BY <1>1, <1>2, <1>3, <1>4, <1>5 DEF Next

(* Every variable keeps its type: the slot stays a slot, and no writer     *)
(* ever holds more than the slot can.                                      *)
THEOREM TypeCorrect == Spec => []TypeOK
<1>1. QED
  BY InitType, NextType, PTL DEF Spec

-----------------------------------------------------------------------------
(* What a step of a channel does to what the channels share: it takes the  *)
(* free lock, or it works under the lock it holds and then keeps it,       *)
(* returns it, or requests the swap of its image.                          *)
Work(c) ==
  /\ upgrade_active
  /\ holder = c
  /\ \/ UNCHANGED <<lockVars, armed>>
     \/ /\ upgrade_active' = FALSE
        /\ holder' = NoChannel
        /\ UNCHANGED <<current_channel, armed>>
     \/ /\ UNCHANGED <<lockVars, slot1>>
        /\ armed'.by = c

Effect(c) ==
  \/ TryLock(c, Label(c)) /\ UNCHANGED <<slot1, armed>>
  \/ Work(c)

(* A channel that holds the lock took it under its own label.              *)
Fits(c) == holder = c => upgrade_active /\ current_channel = Label(c)

LEMMA LockFits ==
  ASSUME LockInv
  PROVE  \A c \in Channel : Fits(c)
BY DEF LockInv, Fits, Channel, NoChannel

LEMMA UdpEffect ==
  ASSUME TypeOK, Fits("UDP"), UdpSession, UdpNext
  PROVE  Effect("UDP") /\ UdpSession'
<1> USE DEF Fits, UdpSession, UdpUpgrading, Label, lockVars, NoChannel
<1>f. ASSUME FwSessionFail, UNCHANGED armed, UdpUpgrading
      PROVE  Work("UDP") /\ UdpSession'
  BY <1>f DEF FwSessionFail, UdpClose, Unlock, Work
<1>w. ASSUME NEW c \in Chunk, UdpWrite(c), fw_started, udp_pc = "idle"
      PROVE  Work("UDP") /\ UdpSession'
  <2>1. UNCHANGED armed
    BY <1>w DEF UdpWrite
  <2>2. CASE FwSessionFail
    BY <1>w, <1>f, <2>1, <2>2
  <2>3. CASE UNCHANGED <<udp_pc, fw_started, udp_crc, lockVars>>
    BY <1>w, <2>1, <2>3 DEF Work
  <2>4. QED
    BY <1>w, <2>2, <2>3 DEF UdpWrite
<1>1. CASE UdpStart
  BY <1>1 DEF UdpStart, TryLock, Effect
<1>2. CASE UdpStartOpenFails
  BY <1>2, <1>f DEF UdpStartOpenFails, Effect
<1>3. ASSUME NEW size \in 0..(SlotLen + 1), UdpStartErase(size)
      PROVE  Effect("UDP") /\ UdpSession'
  <2>1. CASE FwSessionFail
    BY <1>3, <2>1, <1>f DEF UdpStartErase, Effect
  <2>2. CASE udp_pc' = "idle" /\ fw_started' = TRUE /\ UNCHANGED lockVars
    BY <1>3, <2>2 DEF UdpStartErase, Effect, Work
  <2>3. QED
    BY <1>3, <2>1, <2>2 DEF UdpStartErase
<1>4. ASSUME NEW c \in Chunk, UdpData(c) PROVE Effect("UDP") /\ UdpSession'
  BY <1>4, <1>w DEF UdpData, Effect
<1>5. ASSUME NEW c \in Chunk, NEW off \in 0..SlotLen, UdpDataV2(off, c)
      PROVE Effect("UDP") /\ UdpSession'
  BY <1>5, <1>w DEF UdpDataV2, Effect
<1>6. ASSUME NEW crc \in Image, UdpEnd(crc) PROVE Effect("UDP") /\ UdpSession'
  <2>1. CASE FwSessionFail
    BY <1>6, <2>1, <1>f DEF UdpEnd, Effect
  <2>2. CASE udp_pc' = "request" /\ UNCHANGED <<fw_started, fw_received, lockVars>>
    BY <1>6, <2>2 DEF UdpEnd, Effect, Work
  <2>3. QED
    BY <1>6, <2>1, <2>2 DEF UdpEnd
<1>7. CASE UdpEndReadFails
  BY <1>7, <1>f DEF UdpEndReadFails, Effect
<1>8. CASE UdpRequest
  <2>1. CASE FwSessionFail /\ UNCHANGED armed
    BY <1>8, <2>1, <1>f DEF UdpRequest, Effect
  <2>2. CASE Arm("UDP", udp_crc) /\ UdpClose /\ UNCHANGED lockVars
    BY <1>8, <2>2 DEF UdpRequest, Arm, UdpClose, Effect, Work
  <2>3. QED
    BY <1>8, <2>1, <2>2 DEF UdpRequest
<1>9. QED
  BY <1>1, <1>2, <1>3, <1>4, <1>5, <1>6, <1>7, <1>8 DEF UdpNext

LEMMA CanEffect ==
  ASSUME TypeOK, LockInv, CanSession, CanNext
  PROVE  Effect("CAN") /\ CanSession'
<1> USE DEF LockInv, CanSession, CanUpgrading, Label, lockVars, NoChannel, Effect
<1>1. CASE CanStart
  BY <1>1 DEF CanStart, TryLock
<1>2. CASE CanStartOpenFails
  BY <1>2 DEF CanStartOpenFails, stateVars, Work
<1>3. ASSUME NEW size \in 0..(SlotLen + 1), CanStartErase(size)
      PROVE  Effect("CAN") /\ CanSession'
  BY <1>3 DEF CanStartErase, CanClose, Work
<1>4. ASSUME NEW c \in Chunk, CanData(c) PROVE Effect("CAN") /\ CanSession'
  BY <1>4 DEF CanData, Work
<1>5. CASE CanConfirm
  BY <1>5 DEF CanConfirm, CanClose, Work
<1>6. CASE CanRequest
  BY <1>6 DEF CanRequest, CanClose, Arm, Work
<1>7. QED
  BY <1>1, <1>2, <1>3, <1>4, <1>5, <1>6 DEF CanNext

LEMMA WsEffect ==
  ASSUME TypeOK, Fits("WS"), WsSession, WsNext
  PROVE  Effect("WS") /\ WsSession'
<1> USE DEF TypeOK, WsTypeOK, Fits, WsSession, WsUpgrading, Label, lockVars,
            NoChannel, Effect
<1>r. ASSUME FwUpgReset, UNCHANGED armed, WsUpgrading
      PROVE  Work("WS") /\ WsSession'
  BY <1>r DEF FwUpgReset, NoUpgrade, Unlock, Work
<1>1. CASE WsStart
  BY <1>1 DEF WsStart, TryLock
<1>2. CASE WsStartRefused
  BY <1>2 DEF WsStartRefused, Unlock, Work
<1>3. ASSUME NEW size \in 1..(SlotLen + 1), WsStartErase(size)
      PROVE  Effect("WS") /\ WsSession'
  BY <1>3 DEF WsStartErase, Unlock, Work
<1>4. ASSUME NEW c \in Chunk, WsBinary(c) PROVE Effect("WS") /\ WsSession'
  <2>1. fw_upg'.active = fw_upg.active
    BY <1>4 DEF WsBinary
  <2>2. QED
    BY <1>4, <2>1 DEF WsBinary, Work
<1>5. CASE WsEnd
  <2>1. CASE FwUpgReset
    BY <1>5, <2>1, <1>r DEF WsEnd
  <2>2. CASE ws_pc' = "verify" /\ UNCHANGED <<fw_upg, lockVars>>
    BY <1>5, <2>2 DEF WsEnd, Work
  <2>3. QED
    BY <1>5, <2>1, <2>2 DEF WsEnd
<1>6. CASE WsVerify
  BY <1>6, <1>r DEF WsVerify, Work
<1>7. CASE WsRequest
  <2>1. CASE FwUpgReset /\ UNCHANGED armed
    BY <1>7, <2>1, <1>r DEF WsRequest
  <2>2. CASE Arm("WS", fw_upg.data) /\ ws_pc' = "idle" /\ UNCHANGED <<fw_upg, lockVars>>
    BY <1>7, <2>2 DEF WsRequest, Arm, Work
  <2>3. QED
    BY <1>7, <2>1, <2>2 DEF WsRequest
<1>8. QED
  BY <1>1, <1>2, <1>3, <1>4, <1>5, <1>6, <1>7 DEF WsNext

(* Only the channel that holds the lock touches slot1 and the request, and *)
(* the lock's bookkeeping survives every step.                             *)
LEMMA EffectLock ==
  ASSUME LockInv, NEW c \in Channel, Effect(c)
  PROVE  /\ LockInv'
         /\ holder \in {c, NoChannel}
         /\ holder' \in {c, NoChannel}
  BY DEF LockInv, Effect, Work, TryLock, Channel, NoChannel, lockVars, Label

-----------------------------------------------------------------------------
LEMMA InitInd == Init => IndInv
  BY DEF Init, StateInit, UdpInit, CanInit, WsInit, IndInv, LockInv, UdpSession,
         CanSession, WsSession, UdpUpgrading, CanUpgrading, WsUpgrading, NoLeak,
         OffsetCountsStored, VerifiedInv, Disarmed, NoUpgrade, NoChannel

(* Reading back an image: the cells it was read from hold it. *)
LEMMA ReadBackHolds ==
  ASSUME NEW s \in Slot, NEW n \in 0..SlotLen, NEW image \in Seq(Chunk),
         ReadBack(s, n) = image
  PROVE  \A p \in 1..Len(image) : s[p] = image[p]
<1>1. DOMAIN image = 1..n /\ DOMAIN image = 1..Len(image)
  BY DEF ReadBack
<1>2. QED
  BY <1>1 DEF ReadBack

(* A failed session leaves neither a request nor an offset behind. *)
LEMMA UdpFailed ==
  ASSUME VerifiedInv, FwSessionFail, UdpUpgrading, UNCHANGED armed
  PROVE  VerifiedInv' /\ OffsetCountsStored'
  BY DEF VerifiedInv, OffsetCountsStored, FwSessionFail, UdpClose

(* The steps of UDP itself keep its verified image and its offset. *)
LEMMA UdpVerified ==
  ASSUME TypeOK, Fits("UDP"), UdpSession, VerifiedInv, OffsetCountsStored, UdpNext
  PROVE  VerifiedInv' /\ OffsetCountsStored'
<1> USE DEF Fits, UdpSession, VerifiedInv, OffsetCountsStored,
            UdpUpgrading, lockVars, NoChannel
<1>t. udp_ctx \in Writer /\ slot1 \in Slot /\ udp_crc \in Seq(Chunk)
  BY EmptyChunks, ImageAssumption DEF ImageAssumption, TypeOK, StateTypeOK, UdpTypeOK
<1>w. ASSUME NEW c \in Chunk, UdpWrite(c), fw_started, udp_pc = "idle"
      PROVE  VerifiedInv' /\ OffsetCountsStored'
  <2>1. PICK o \in BufferedWrite(slot1, udp_ctx, c) :
           /\ UNCHANGED armed
           /\ IF o.ok
              THEN /\ fw_received' = fw_received + 1
                   /\ udp_ctx' = o.ctx
                   /\ UNCHANGED <<udp_pc, fw_started, udp_crc, lockVars>>
              ELSE FwSessionFail
    BY <1>w DEF UdpWrite
  <2>2. CASE o.ok
    <3>1. Taken(udp_ctx') = Taken(udp_ctx) + 1
      BY <1>t, <2>1, <2>2, BufferedWriteType
    <3>2. QED
      BY <1>w, <2>1, <2>2, <3>1
  <2>3. CASE ~o.ok
    BY <1>w, <2>1, <2>3, UdpFailed
  <2>4. QED
    BY <2>2, <2>3
<1>1. CASE UdpStart
  BY <1>1 DEF UdpStart, TryLock
<1>2. CASE UdpStartOpenFails
  BY <1>2, UdpFailed DEF UdpStartOpenFails
<1>3. ASSUME NEW size \in 0..(SlotLen + 1), UdpStartErase(size)
      PROVE  VerifiedInv' /\ OffsetCountsStored'
  <2>1. CASE FwSessionFail
    BY <1>3, <2>1, UdpFailed DEF UdpStartErase
  <2>2. CASE /\ udp_pc' = "idle"
             /\ fw_started' = TRUE
             /\ fw_received' = 0
             /\ udp_ctx' = FreshCtx
             /\ UNCHANGED <<udp_crc, lockVars>>
    BY <1>3, <2>2, FreshCtxType DEF UdpStartErase
  <2>3. QED
    BY <1>3, <2>1, <2>2 DEF UdpStartErase
<1>4. ASSUME NEW c \in Chunk, UdpData(c) PROVE VerifiedInv' /\ OffsetCountsStored'
  BY <1>4, <1>w DEF UdpData
<1>5. ASSUME NEW c \in Chunk, NEW off \in 0..SlotLen, UdpDataV2(off, c)
      PROVE VerifiedInv' /\ OffsetCountsStored'
  BY <1>5, <1>w DEF UdpDataV2
<1>6. ASSUME NEW crc \in Image, UdpEnd(crc) PROVE VerifiedInv' /\ OffsetCountsStored'
  <2>1. PICK o \in Flush(slot1, udp_ctx) :
          /\ slot1' = o.slot
          /\ IF ReadBack(o.slot, o.ctx.written) = crc
             THEN /\ udp_pc' = "request"
                  /\ udp_ctx' = o.ctx
                  /\ udp_crc' = crc
                  /\ UNCHANGED <<fw_started, fw_received, lockVars>>
             ELSE FwSessionFail
    BY <1>6 DEF UdpEnd
  <2>2. UNCHANGED armed /\ UdpUpgrading
    BY <1>6 DEF UdpEnd
  <2>3. CASE ReadBack(o.slot, o.ctx.written) = crc
    <3>1. o.slot \in Slot /\ o.ctx \in Writer /\ Taken(o.ctx) = Taken(udp_ctx)
      BY <1>t, FlushType
    <3>2. o.ctx.written \in 0..SlotLen
      BY <3>1 DEF Writer, Ctx
    <3>3. Holds(udp_crc)'
      <4>1. crc \in Seq(Chunk)
        BY ImageAssumption DEF ImageAssumption
      <4>2. QED
        BY <2>1, <2>3, <3>1, <3>2, <4>1, ReadBackHolds DEF Holds
    <3>4. QED
      BY <2>1, <2>2, <2>3, <3>1, <3>3
  <2>4. CASE ReadBack(o.slot, o.ctx.written) # crc
    BY <2>1, <2>2, <2>4, UdpFailed
  <2>5. QED
    BY <2>3, <2>4
<1>7. CASE UdpEndReadFails
  BY <1>7, UdpFailed DEF UdpEndReadFails
<1>8. CASE UdpRequest
  <2>1. CASE FwSessionFail /\ UNCHANGED armed
    BY <1>8, <2>1, UdpFailed DEF UdpRequest
  <2>2. CASE Arm("UDP", udp_crc) /\ UdpClose /\ UNCHANGED lockVars
    BY <1>8, <2>2 DEF UdpRequest, Arm, UdpClose, Holds
  <2>3. QED
    BY <1>8, <2>1, <2>2 DEF UdpRequest
<1>9. QED
  BY <1>1, <1>2, <1>3, <1>4, <1>5, <1>6, <1>7, <1>8 DEF UdpNext

(* A step of another channel finds UDP outside any session, and changes    *)
(* nothing UDP verified: its request is either not there or not for UDP.   *)
LEMMA OthersKeep ==
  ASSUME UdpSession, VerifiedInv, OffsetCountsStored, UNCHANGED udpVars,
         \/ holder' # "UDP" /\ UNCHANGED <<slot1, armed>> /\ (armed.by # "UDP" \/ UNCHANGED holder)
         \/ holder # "UDP" /\ armed'.by # "UDP"
  PROVE  VerifiedInv' /\ OffsetCountsStored'
<1>1. OffsetCountsStored'
  BY DEF OffsetCountsStored, udpVars
<1>2. VerifiedInv'
  BY DEF UdpSession, VerifiedInv, UdpUpgrading, Holds, udpVars
<1> QED
  BY <1>1, <1>2

LEMMA EffectOthers ==
  ASSUME LockInv, UdpSession, VerifiedInv, OffsetCountsStored, NEW c \in {"CAN", "WS"}, Effect(c),
         UNCHANGED udpVars
  PROVE  VerifiedInv' /\ OffsetCountsStored'
<1>1. CASE TryLock(c, Label(c)) /\ UNCHANGED <<slot1, armed>>
  <2>1. holder' # "UDP" /\ armed.by # "UDP"
    BY <1>1 DEF TryLock, LockInv, VerifiedInv, NoChannel
  <2> QED
    BY <1>1, <2>1, OthersKeep
<1>2. CASE Work(c)
  <2>1. holder # "UDP" /\ armed.by # "UDP"
    BY <1>2 DEF Work, VerifiedInv
  <2>2. armed'.by # "UDP"
    BY <1>2, <2>1 DEF Work
  <2> QED
    BY <2>1, <2>2, OthersKeep
<1> QED
  BY <1>1, <1>2 DEF Effect

(* A step after which UDP or WebSocket has the lock leaves it with a       *)
(* session or a request.                                                   *)
LEMMA UdpNoLeak ==
  ASSUME Fits("UDP"), UdpSession, UdpNext, holder' = "UDP"
  PROVE  UdpUpgrading' \/ Armed'
<1> USE DEF Fits, UdpSession, UdpUpgrading, Label, lockVars, NoChannel
<1>f. ASSUME FwSessionFail, UdpUpgrading PROVE FALSE
  BY <1>f DEF FwSessionFail, Unlock
<1>w. ASSUME NEW c \in Chunk, UdpWrite(c), fw_started, udp_pc = "idle"
      PROVE  UdpUpgrading'
  BY <1>w, <1>f DEF UdpWrite
<1>1. CASE UdpStart
  BY <1>1 DEF UdpStart
<1>2. CASE UdpStartOpenFails
  BY <1>2, <1>f DEF UdpStartOpenFails
<1>3. ASSUME NEW size \in 0..(SlotLen + 1), UdpStartErase(size) PROVE UdpUpgrading'
  BY <1>3, <1>f DEF UdpStartErase
<1>4. ASSUME NEW c \in Chunk, UdpData(c) PROVE UdpUpgrading'
  BY <1>4, <1>w DEF UdpData
<1>5. ASSUME NEW c \in Chunk, NEW off \in 0..SlotLen, UdpDataV2(off, c)
      PROVE UdpUpgrading'
  BY <1>5, <1>w DEF UdpDataV2
<1>6. ASSUME NEW crc \in Image, UdpEnd(crc) PROVE UdpUpgrading'
  BY <1>6, <1>f DEF UdpEnd
<1>7. CASE UdpEndReadFails
  BY <1>7, <1>f DEF UdpEndReadFails
<1>8. CASE UdpRequest
  <2>1. CASE FwSessionFail
    BY <1>8, <2>1, <1>f DEF UdpRequest
  <2>2. CASE Arm("UDP", udp_crc)
    BY <2>2 DEF Arm, Armed
  <2>3. QED
    BY <1>8, <2>1, <2>2 DEF UdpRequest
<1>9. QED
  BY <1>1, <1>2, <1>3, <1>4, <1>5, <1>6, <1>7, <1>8 DEF UdpNext

LEMMA WsNoLeak ==
  ASSUME TypeOK, Fits("WS"), WsSession, WsNext, holder' = "WS"
  PROVE  WsUpgrading'
<1> USE DEF TypeOK, WsTypeOK, Fits, WsSession, WsUpgrading, Label,
            lockVars, NoChannel
<1>r. ASSUME Unlock("WS"), WsUpgrading PROVE FALSE
  BY <1>r DEF Unlock
<1>1. CASE WsStart
  BY <1>1 DEF WsStart
<1>2. CASE WsStartRefused
  BY <1>2, <1>r DEF WsStartRefused
<1>3. ASSUME NEW size \in 1..(SlotLen + 1), WsStartErase(size) PROVE WsUpgrading'
  BY <1>3, <1>r DEF WsStartErase
<1>4. ASSUME NEW c \in Chunk, WsBinary(c) PROVE WsUpgrading'
  <2>1. fw_upg'.active = fw_upg.active
    BY <1>4 DEF WsBinary
  <2>2. QED
    BY <1>4, <2>1 DEF WsBinary
<1>5. CASE WsEnd
  BY <1>5, <1>r DEF WsEnd, FwUpgReset
<1>6. CASE WsVerify
  BY <1>6, <1>r DEF WsVerify, FwUpgReset
<1>7. CASE WsRequest
  BY <1>7, <1>r DEF WsRequest, FwUpgReset
<1>8. QED
  BY <1>1, <1>2, <1>3, <1>4, <1>5, <1>6, <1>7 DEF WsNext

(* The step of the inductive invariant, one channel at a time. *)
LEMMA UdpInd ==
  ASSUME TypeOK, IndInv, UdpStep
  PROVE  IndInv'
<1> USE DEF UdpStep
<1>1. Effect("UDP") /\ UdpSession' /\ VerifiedInv' /\ OffsetCountsStored'
  BY LockFits, UdpEffect, UdpVerified DEF IndInv, Channel
<1>2. LockInv' /\ holder \in {"UDP", NoChannel} /\ holder' \in {"UDP", NoChannel}
  BY <1>1, EffectLock DEF IndInv, Channel
<1>3. CanSession' /\ WsSession'
  BY <1>2 DEF IndInv, CanSession, WsSession, CanUpgrading, WsUpgrading, canVars,
              wsVars, NoChannel
<1>4. NoLeak'
  <2>1. ASSUME holder' = "UDP" PROVE UdpUpgrading' \/ Armed'
    BY <2>1, LockFits, UdpNoLeak DEF IndInv, Channel
  <2>2. QED
    BY <1>2, <2>1 DEF NoLeak, Upgrading, NoChannel
<1>5. QED
  BY <1>1, <1>2, <1>3, <1>4 DEF IndInv

LEMMA CanInd ==
  ASSUME TypeOK, IndInv, CanStep
  PROVE  IndInv'
<1> USE DEF CanStep
<1>1. Effect("CAN") /\ CanSession' /\ UNCHANGED udpVars
  BY CanEffect DEF IndInv
<1>2. LockInv' /\ holder \in {"CAN", NoChannel} /\ holder' \in {"CAN", NoChannel}
  BY <1>1, EffectLock DEF IndInv, Channel
<1>3. UdpSession' /\ WsSession'
  BY <1>2 DEF IndInv, UdpSession, WsSession, UdpUpgrading, WsUpgrading, udpVars,
              wsVars, NoChannel
<1>4. NoLeak'
  BY <1>2 DEF NoLeak, NoChannel
<1>5. VerifiedInv' /\ OffsetCountsStored'
  BY <1>1, EffectOthers DEF IndInv
<1>6. QED
  BY <1>1, <1>2, <1>3, <1>4, <1>5 DEF IndInv

LEMMA WsInd ==
  ASSUME TypeOK, IndInv, WsStep
  PROVE  IndInv'
<1> USE DEF WsStep
<1>1. Effect("WS") /\ WsSession' /\ UNCHANGED udpVars
  BY LockFits, WsEffect DEF IndInv, Channel
<1>2. LockInv' /\ holder \in {"WS", NoChannel} /\ holder' \in {"WS", NoChannel}
  BY <1>1, EffectLock DEF IndInv, Channel
<1>3. UdpSession' /\ CanSession'
  BY <1>2 DEF IndInv, UdpSession, CanSession, UdpUpgrading, CanUpgrading, udpVars,
              canVars, NoChannel
<1>4. NoLeak'
  <2>1. ASSUME holder' = "WS" PROVE WsUpgrading'
    BY <2>1, LockFits, WsNoLeak DEF IndInv, Channel
  <2>2. QED
    BY <1>2, <2>1 DEF NoLeak, Upgrading, NoChannel
<1>5. VerifiedInv' /\ OffsetCountsStored'
  BY <1>1, EffectOthers DEF IndInv
<1>6. QED
  BY <1>1, <1>2, <1>3, <1>4, <1>5 DEF IndInv

LEMMA RebootInd == Reboot => IndInv'
  BY DEF Reboot, StateReboot, UdpClose, CanClose, IndInv, LockInv, UdpSession,
         CanSession, WsSession, UdpUpgrading, CanUpgrading, WsUpgrading, NoLeak,
         OffsetCountsStored, VerifiedInv, Disarmed, NoUpgrade, NoChannel

LEMMA StutterInd ==
  ASSUME IndInv, UNCHANGED vars
  PROVE  IndInv'
<1>1. LockInv' /\ UdpSession' /\ CanSession' /\ WsSession'
  BY DEF IndInv, LockInv, UdpSession, CanSession, WsSession, UdpUpgrading,
         CanUpgrading, WsUpgrading, vars, stateVars, udpVars, canVars, wsVars
<1>2. NoLeak' /\ OffsetCountsStored' /\ VerifiedInv'
  BY DEF IndInv, NoLeak, Upgrading, UdpUpgrading, WsUpgrading, CanUpgrading, Armed,
         OffsetCountsStored, VerifiedInv, Holds, vars, stateVars, udpVars, canVars,
         wsVars
<1>3. QED
  BY <1>1, <1>2 DEF IndInv

(* The inductive invariant holds: the lock, the sessions and the image UDP *)
(* verified stay consistent, whatever the channels do at the same time.    *)
THEOREM Inductive == Spec => []IndInv
<1>1. TypeOK /\ IndInv /\ [Next]_vars => IndInv'
  BY UdpInd, CanInd, WsInd, RebootInd, StutterInd DEF Next
<1>2. QED
  BY <1>1, InitInd, TypeCorrect, PTL DEF Spec

(* fw_upgrade_state.h:6: no two channels upgrade at once. *)
THEOREM MutuallyExclusive == Spec => []MutualExclusion
<1>1. IndInv => MutualExclusion
  BY DEF IndInv, UdpSession, CanSession, WsSession, MutualExclusion, Upgrading, Channel
<1>2. QED
  BY <1>1, Inductive, PTL

(* udp_fw_upgrade.c:129: UDP and WebSocket never keep the lock for nothing. *)
THEOREM LockNotLeaked == Spec => []NoLeak
<1>1. IndInv => NoLeak
  BY DEF IndInv
<1>2. QED
  BY <1>1, Inductive, PTL

(* udp_fw_upgrade.c:356: the offset answered to DATA_V2 is the number of   *)
(* chunks stored.                                                          *)
THEOREM OffsetCounts == Spec => []OffsetCountsStored
<1>1. IndInv => OffsetCountsStored
  BY DEF IndInv
<1>2. QED
  BY <1>1, Inductive, PTL

(* udp_fw_upgrade.c:370-391: what MCUboot is asked to swap in is the image *)
(* whose CRC the END command announced, still in the slot.                 *)
THEOREM UdpImageIntact == Spec => []UdpArmedImage
<1>1. IndInv => UdpArmedImage
  BY DEF IndInv, VerifiedInv, UdpArmedImage
<1>2. QED
  BY <1>1, Inductive, PTL

-----------------------------------------------------------------------------
(* Without the web server the lock keeps its promise to the end.           *)

(* A request is pending only for the channel that holds the lock, and its  *)
(* session is over; the WebSocket never holds it.                          *)
NoWebInv ==
  /\ holder # "WS"
  /\ Armed => /\ armed.by = holder
              /\ ~UdpUpgrading
              /\ ~CanUpgrading

LEMMA CanRequestEnds ==
  ASSUME TypeOK, IndInv, NoWebInv, CanNext
  PROVE  UNCHANGED armed \/ (armed'.by = "CAN" /\ ~CanUpgrading')
<1>1. CASE CanRequest
  BY <1>1 DEF CanRequest, Arm, CanClose, CanUpgrading
<1>2. CASE ~CanRequest
  BY <1>2 DEF CanNext, CanStart, CanStartOpenFails, CanStartErase, CanData, CanConfirm,
              stateVars
<1>3. QED
  BY <1>1, <1>2

LEMMA UdpRequestEnds ==
  ASSUME TypeOK, IndInv, NoWebInv, UdpNext
  PROVE  UNCHANGED armed \/ (armed'.by = "UDP" /\ ~UdpUpgrading')
<1>1. CASE UdpRequest
  BY <1>1 DEF UdpRequest, Arm, UdpClose, UdpUpgrading
<1>2. CASE ~UdpRequest
  BY <1>2 DEF UdpNext, UdpStart, UdpStartOpenFails, UdpStartErase, UdpData, UdpDataV2,
              UdpWrite, UdpEnd, UdpEndReadFails
<1>3. QED
  BY <1>1, <1>2

(* A channel works only in its session, hence before any request.          *)
LEMMA WorksBeforeRequest ==
  ASSUME IndInv, NoWebInv,
         \/ UdpNext /\ Work("UDP")
         \/ CanNext /\ Work("CAN")
  PROVE  armed.by = NoChannel
<1>1. CASE UdpNext /\ Work("UDP")
  <2>1. UdpUpgrading
    BY <1>1 DEF Work, UdpNext, UdpStart, TryLock, UdpStartOpenFails, UdpStartErase,
                UdpData, UdpDataV2, UdpEnd, UdpEndReadFails, UdpRequest, UdpUpgrading
  <2>2. QED
    BY <2>1 DEF NoWebInv, Armed
<1>2. CASE CanNext /\ Work("CAN")
  <2>1. CanUpgrading
    BY <1>2 DEF Work, CanNext, CanStart, TryLock, CanStartOpenFails, CanStartErase,
                CanData, CanConfirm, CanRequest, CanUpgrading
  <2>2. QED
    BY <2>1 DEF NoWebInv, Armed
<1>3. QED
  BY <1>1, <1>2

LEMMA FreeIsDisarmed ==
  ASSUME IndInv, NoWebInv, ~upgrade_active
  PROVE  holder = NoChannel /\ armed.by = NoChannel
  BY DEF IndInv, LockInv, NoWebInv, Armed

LEMMA NoWebStep ==
  ASSUME "WS" \notin Enabled, TypeOK, IndInv, NoWebInv, [Next]_vars
  PROVE  NoWebInv'
<1> USE DEF Armed, NoChannel, lockVars
<1>1. CASE UdpStep
  <2>1. UdpNext /\ Effect("UDP") /\ UNCHANGED canVars
    BY <1>1, LockFits, UdpEffect DEF UdpStep, IndInv, Channel
  <2>2. CASE TryLock("UDP", Label("UDP")) /\ UNCHANGED armed
    BY <2>2, FreeIsDisarmed DEF TryLock, NoWebInv
  <2>3. CASE Work("UDP")
    <3>1. ~CanUpgrading'
      BY <2>1, <2>3 DEF Work, IndInv, CanSession, CanUpgrading, canVars
    <3>2. QED
      BY <2>1, <2>3, <3>1, WorksBeforeRequest, UdpRequestEnds DEF Work, NoWebInv
  <2>4. QED
    BY <2>1, <2>2, <2>3 DEF Effect
<1>2. CASE CanStep
  <2>1. CanNext /\ Effect("CAN") /\ UNCHANGED udpVars
    BY <1>2, CanEffect DEF CanStep, IndInv
  <2>2. CASE TryLock("CAN", Label("CAN")) /\ UNCHANGED armed
    BY <2>2, FreeIsDisarmed DEF TryLock, NoWebInv
  <2>3. CASE Work("CAN")
    <3>1. ~UdpUpgrading'
      BY <2>1, <2>3 DEF Work, IndInv, UdpSession, UdpUpgrading, udpVars
    <3>2. QED
      BY <2>1, <2>3, <3>1, WorksBeforeRequest, CanRequestEnds DEF Work, NoWebInv
  <2>4. QED
    BY <2>1, <2>2, <2>3 DEF Effect
<1>3. CASE Reboot
  BY <1>3 DEF Reboot, StateReboot, Disarmed, NoWebInv
<1>4. CASE UNCHANGED vars
  BY <1>4 DEF vars, stateVars, udpVars, canVars, NoWebInv, UdpUpgrading, CanUpgrading
<1>5. QED
  BY <1>1, <1>2, <1>3, <1>4 DEF Next, WsStep

THEOREM NoWebInductive ==
  ASSUME "WS" \notin Enabled
  PROVE  Spec => []NoWebInv
<1>1. Init => NoWebInv
  BY DEF Init, StateInit, NoWebInv, Armed, Disarmed, NoChannel
<1>2. TypeOK /\ IndInv /\ NoWebInv /\ [Next]_vars => NoWebInv'
  BY NoWebStep
<1>3. QED
  BY <1>1, <1>2, TypeCorrect, Inductive, PTL DEF Spec

(* ws_io.c:415, fw_upgrade_state.c:22: from the request to the restart the *)
(* lock stays taken.                                                       *)
THEOREM LockHeldWhileArmed ==
  ASSUME "WS" \notin Enabled
  PROVE  Spec => []ArmedHeld
<1>1. IndInv /\ NoWebInv => ArmedHeld
  BY DEF IndInv, LockInv, NoWebInv, ArmedHeld, Armed, NoChannel
<1>2. QED
  BY <1>1, Inductive, NoWebInductive, PTL

(* What a channel does under the lock is what the abstract slot allows.    *)
LEMMA EffectRefines ==
  ASSUME TypeOK, TypeOK', IndInv, NoWebInv, NEW c \in {"UDP", "CAN"}, Effect(c),
         Work(c) => armed.by = NoChannel
  PROVE  Exclusive!Next
<1> USE DEF NoChannel, lockVars
<1>1. CASE TryLock(c, Label(c)) /\ UNCHANGED <<slot1, armed>>
  <2>1. Exclusive!Acquire(c)
    BY <1>1, FreeIsDisarmed DEF TryLock, Exclusive!Acquire
  <2>2. QED
    BY <2>1 DEF Exclusive!Next, Channel
<1>2. CASE Work(c)
  <2>1. holder = c /\ armed.by = NoChannel /\ slot1' \in Slot
    BY <1>2 DEF Work, TypeOK, StateTypeOK
  <2>2. CASE holder' \in {c, NoChannel} /\ UNCHANGED armed
    <3>1. Exclusive!Work(c)
      BY <2>1, <2>2 DEF Exclusive!Work
    <3>2. QED
      BY <3>1 DEF Exclusive!Next, Channel
  <2>3. CASE UNCHANGED <<lockVars, slot1>> /\ armed'.by = c
    <3>1. Exclusive!Request(c)
      BY <2>1, <2>3 DEF Exclusive!Request
    <3>2. QED
      BY <3>1 DEF Exclusive!Next, Channel
  <2>4. QED
    BY <1>2, <2>1, <2>2, <2>3 DEF Work
<1>3. QED
  BY <1>1, <1>2 DEF Effect

LEMMA StepRefines ==
  ASSUME "WS" \notin Enabled, TypeOK, TypeOK', IndInv, NoWebInv, [Next]_vars
  PROVE  [Exclusive!Next]_(Exclusive!vars)
<1>1. CASE UdpStep
  <2>1. UdpNext /\ Effect("UDP")
    BY <1>1, LockFits, UdpEffect DEF UdpStep, IndInv, Channel
  <2>2. QED
    BY <2>1, EffectRefines, WorksBeforeRequest
<1>2. CASE CanStep
  <2>1. CanNext /\ Effect("CAN")
    BY <1>2, CanEffect DEF CanStep, IndInv
  <2>2. QED
    BY <2>1, EffectRefines, WorksBeforeRequest
<1>3. CASE Reboot
  <2>1. slot1' \in Slot
    BY DEF TypeOK, StateTypeOK
  <2>2. Exclusive!Restart
    BY <1>3, <2>1 DEF Reboot, StateReboot, Disarmed, Armed, Exclusive!Restart
  <2>3. QED
    BY <2>2 DEF Exclusive!Next
<1>4. CASE UNCHANGED vars
  BY <1>4 DEF vars, stateVars, Exclusive!vars
<1>5. QED
  BY <1>1, <1>2, <1>3, <1>4 DEF Next, WsStep

(* Without the web server the upgrade lock gives a channel the slot for    *)
(* itself, from the START command to the restart.                          *)
THEOREM Refinement ==
  ASSUME "WS" \notin Enabled
  PROVE  Spec => ImplementsExclusiveSlot
<1>1. Init => Exclusive!Init
  BY InitType DEF Init, StateInit, Disarmed, Exclusive!Init, TypeOK, StateTypeOK
<1>2. TypeOK /\ TypeOK' /\ IndInv /\ NoWebInv /\ [Next]_vars
        => [Exclusive!Next]_(Exclusive!vars)
  BY StepRefines
<1>3. QED
  BY <1>1, <1>2, TypeCorrect, Inductive, NoWebInductive, PTL
     DEF Spec, ImplementsExclusiveSlot, Exclusive!Spec

-----------------------------------------------------------------------------
(* canopen-io: the SDO download beside UDP and the web server.             *)

(* What the writer took is data: in the slot what is programmed, as far as *)
(* the flash was blank there, and in RAM the rest; behind it the slot is   *)
(* erased where it was blank.                                              *)
Stuck(data, blank, p) == IF p \in blank THEN data[p] ELSE Junk

Streamed(s, ctx, data, blank) ==
  /\ Len(data) = Taken(ctx)
  /\ \A p \in 1..ctx.written : s[p] = Stuck(data, blank, p)
  /\ \A i \in 1..Len(ctx.buf) : ctx.buf[i] = data[ctx.written + i]
  /\ \A p \in 1..SlotLen : ctx.written < p => (s[p] = Erased <=> p \in blank)

(* Programming the block of RAM adds it to what is in the slot.            *)
LEMMA ProgramStreams ==
  ASSUME NEW s \in Slot, NEW ctx \in Writer, NEW data \in Seq(Chunk), NEW blank,
         Streamed(s, ctx, data, blank)
  PROVE  Streamed(Program(s, ctx), [written |-> Taken(ctx), buf |-> <<>>], data, blank)
<1>1. /\ ctx.written \in 0..SlotLen /\ Len(ctx.buf) \in Nat /\ SlotLen \in Nat
      /\ Taken(ctx) = ctx.written + Len(ctx.buf) /\ Taken(ctx) \in 0..SlotLen
  BY FlashAssumption DEF Writer, Ctx, Taken
<1>2. /\ Len(data) = Taken(ctx)
      /\ \A p \in 1..ctx.written : s[p] = Stuck(data, blank, p)
      /\ \A i \in 1..Len(ctx.buf) : ctx.buf[i] = data[ctx.written + i]
      /\ \A p \in 1..SlotLen : ctx.written < p => (s[p] = Erased <=> p \in blank)
  BY DEF Streamed
<1>3. \A p \in 1..SlotLen :
        Program(s, ctx)[p] = IF ctx.written < p /\ p <= Taken(ctx)
                             THEN IF s[p] = Erased THEN ctx.buf[p - ctx.written] ELSE Junk
                             ELSE s[p]
  BY <1>1 DEF Program
<1>4. \A p \in 1..Taken(ctx) : Program(s, ctx)[p] = Stuck(data, blank, p)
  <2> SUFFICES ASSUME NEW p \in 1..Taken(ctx) PROVE Program(s, ctx)[p] = Stuck(data, blank, p)
    OBVIOUS
  <2>1. p \in 1..SlotLen
    BY <1>1
  <2>2. CASE p <= ctx.written
    BY <1>1, <1>2, <1>3, <2>1, <2>2
  <2>3. CASE ctx.written < p
    <3>1. p - ctx.written \in 1..Len(ctx.buf) /\ ctx.written + (p - ctx.written) = p
      BY <1>1, <2>3
    <3>2. ctx.buf[p - ctx.written] = data[p]
      BY <1>2, <3>1
    <3>3. s[p] = Erased <=> p \in blank
      BY <1>2, <2>1, <2>3
    <3> QED
      BY <1>3, <2>1, <2>3, <3>2, <3>3 DEF Stuck
  <2> QED
    BY <1>1, <2>2, <2>3
<1>5. \A p \in 1..SlotLen : Taken(ctx) < p => (Program(s, ctx)[p] = Erased <=> p \in blank)
  BY <1>1, <1>2, <1>3
<1> DEFINE n == [written |-> Taken(ctx), buf |-> <<>>]
<1>6. n.written = Taken(ctx) /\ Len(n.buf) = 0 /\ Taken(n) = Taken(ctx)
  BY <1>1, EmptyChunks DEF Taken
<1>7. \A i \in 1..Len(n.buf) : n.buf[i] = data[n.written + i]
  BY <1>6
<1> HIDE DEF n
<1>8. Streamed(Program(s, ctx), n, data, blank)
  BY <1>2, <1>4, <1>5, <1>6, <1>7 DEF Streamed
<1> QED
  BY <1>8 DEF n

LEMMA TailGrows ==
  ASSUME NEW u \in Seq(Chunk), NEW data \in Seq(Chunk), NEW w \in Nat, NEW c \in Chunk,
         Len(data) = w + Len(u), \A i \in 1..Len(u) : u[i] = data[w + i]
  PROVE  \A i \in 1..Len(Append(u, c)) : Append(u, c)[i] = Append(data, c)[w + i]
<1> SUFFICES ASSUME NEW i \in 1..(Len(u) + 1)
             PROVE  Append(u, c)[i] = Append(data, c)[w + i]
  <2>1. Len(Append(u, c)) = Len(u) + 1
    OBVIOUS
  <2> QED
    BY <2>1
<1>1. Len(u) \in Nat /\ Len(data) \in Nat
  OBVIOUS
<1>2. CASE i <= Len(u)
  <2>1. w + i \in 1..Len(data)
    BY <1>1, <1>2
  <2> QED
    BY <1>1, <1>2, <2>1
<1>3. CASE i = Len(u) + 1
  <2>1. w + i = Len(data) + 1
    BY <1>1, <1>3
  <2> QED
    BY <1>1, <1>3, <2>1
<1> QED
  BY <1>1, <1>2, <1>3

LEMMA PutStreams ==
  ASSUME NEW s \in Slot, NEW ctx \in Writer, NEW data \in Seq(Chunk), NEW blank, NEW c \in Chunk,
         Streamed(s, ctx, data, blank)
  PROVE  Streamed(s, Put(ctx, c), Append(data, c), blank)
<1>1. /\ ctx.written \in 0..SlotLen /\ ctx.buf \in Seq(Chunk) /\ Len(ctx.buf) \in Nat
      /\ Taken(ctx) = ctx.written + Len(ctx.buf) /\ Taken(ctx) \in 0..SlotLen /\ SlotLen \in Nat
  BY FlashAssumption DEF Writer, Ctx, Taken
<1>2. /\ Put(ctx, c).written = ctx.written /\ Put(ctx, c).buf = Append(ctx.buf, c)
      /\ Taken(Put(ctx, c)) = Taken(ctx) + 1
  BY <1>1, PutType DEF Put, Writer
<1>3. Len(data) = Taken(ctx) /\ Len(Append(data, c)) = Taken(ctx) + 1
  BY DEF Streamed
<1>4. \A p \in 1..ctx.written : s[p] = Stuck(Append(data, c), blank, p)
  <2>1. \A p \in 1..ctx.written : s[p] = Stuck(data, blank, p)
    BY DEF Streamed
  <2>2. \A p \in 1..ctx.written : Append(data, c)[p] = data[p]
    BY <1>1, <1>3
  <2> QED
    BY <2>1, <2>2 DEF Stuck
<1>5. \A i \in 1..Len(Append(ctx.buf, c)) : Append(ctx.buf, c)[i] = Append(data, c)[ctx.written + i]
  <2>1. Len(data) = ctx.written + Len(ctx.buf) /\ ctx.written \in Nat
    BY <1>1, <1>3
  <2>2. \A i \in 1..Len(ctx.buf) : ctx.buf[i] = data[ctx.written + i]
    BY DEF Streamed
  <2> QED
    BY <1>1, <2>1, <2>2, TailGrows
<1>6. \A p \in 1..SlotLen : ctx.written < p => (s[p] = Erased <=> p \in blank)
  BY DEF Streamed
<1> QED
  BY <1>2, <1>3, <1>4, <1>5, <1>6 DEF Streamed

(* A chunk that was answered: in RAM, or in the slot with its block.       *)
LEMMA WriteStreams ==
  ASSUME NEW s \in Slot, NEW ctx \in Writer, NEW data \in Seq(Chunk), NEW blank, NEW c \in Chunk,
         Streamed(s, ctx, data, blank), Len(ctx.buf) < BlockLen,
         NEW o \in BufferedWrite(s, ctx, c)
  PROVE  /\ o.slot \in Slot
         /\ o.ok => /\ o.ctx \in Writer /\ Len(o.ctx.buf) < BlockLen
                    /\ Streamed(o.slot, o.ctx, Append(data, c), blank)
<1>1. /\ ctx.written \in 0..SlotLen /\ ctx.buf \in Seq(Chunk) /\ Len(ctx.buf) \in Nat
      /\ Taken(ctx) = ctx.written + Len(ctx.buf) /\ Taken(ctx) \in 0..SlotLen
      /\ SlotLen \in Nat /\ BlockLen \in Nat /\ BlockLen > 1
  BY FlashAssumption DEF Writer, Ctx, Taken
<1>2. o.slot \in Slot /\ o.ctx \in Writer
  BY BufferedWriteType
<1>3. /\ Put(ctx, c).written = ctx.written /\ Len(Put(ctx, c).buf) = Len(ctx.buf) + 1
      /\ Taken(Put(ctx, c)) = Taken(ctx) + 1 /\ Put(ctx, c) \in Ctx
  BY <1>1, PutType DEF Put, Writer
<1>4. Streamed(s, Put(ctx, c), Append(data, c), blank)
  BY PutStreams
<1>5. CASE Taken(ctx) >= SlotLen
  <2>1. o = [ok |-> FALSE, ctx |-> ctx, slot |-> s]
    BY <1>5 DEF BufferedWrite
  <2> QED
    BY <2>1
<1>6. CASE Taken(ctx) < SlotLen /\ Len(ctx.buf) + 1 = BlockLen
  <2> DEFINE w == Put(ctx, c)
             done == [written |-> Taken(w), buf |-> <<>>]
  <2>1. o \in Sync(s, w)
    BY <1>1, <1>6 DEF BufferedWrite
  <2>2. CASE o = [ok |-> FALSE, ctx |-> w, slot |-> s]
    BY <2>2
  <2>3. CASE o = [ok |-> TRUE, ctx |-> done, slot |-> Program(s, w)]
    <3>1. w \in Writer
      BY <1>1, <1>3, <1>6 DEF Writer
    <3>2. Append(data, c) \in Seq(Chunk)
      OBVIOUS
    <3>3. Streamed(s, w, Append(data, c), blank)
      BY <1>4
    <3>4. Streamed(Program(s, w), done, Append(data, c), blank)
      <4> HIDE DEF w
      <4> QED
        BY <3>1, <3>2, <3>3, ProgramStreams
    <3>5. o.ctx = done /\ o.slot = Program(s, w)
      BY <2>3
    <3>6. Len(done.buf) < BlockLen
      BY <1>1, EmptyChunks
    <3> HIDE DEF done, w
    <3> QED
      BY <1>2, <3>4, <3>5, <3>6
  <2> QED
    BY <2>1, <2>2, <2>3 DEF Sync
<1>7. CASE Taken(ctx) < SlotLen /\ Len(ctx.buf) + 1 # BlockLen
  <2>1. o = [ok |-> TRUE, ctx |-> Put(ctx, c), slot |-> s]
    BY <1>1, <1>7 DEF BufferedWrite
  <2>2. o.ctx = Put(ctx, c) /\ o.slot = s
    BY <2>1
  <2> QED
    BY <1>1, <1>2, <1>3, <1>4, <1>7, <2>2
<1> QED
  BY <1>1, <1>5, <1>6, <1>7

LEMMA FlushStreams ==
  ASSUME NEW s \in Slot, NEW ctx \in Writer, NEW data \in Seq(Chunk), NEW blank,
         Streamed(s, ctx, data, blank), NEW o \in Flush(s, ctx)
  PROVE  /\ o.slot \in Slot
         /\ o.ok => o.ctx \in Writer /\ o.ctx.buf = <<>> /\ Streamed(o.slot, o.ctx, data, blank)
<1>1. o.slot \in Slot /\ o.ctx \in Writer
  BY FlushType
<1>2. CASE ctx.buf = <<>>
  BY <1>1, <1>2 DEF Flush
<1>3. CASE ctx.buf # <<>> /\ o = [ok |-> FALSE, ctx |-> ctx, slot |-> s]
  BY <1>1, <1>3
<1>4. CASE ctx.buf # <<>> /\ o = [ok |-> TRUE, ctx |-> [written |-> Taken(ctx), buf |-> <<>>],
                                  slot |-> Program(s, ctx)]
  <2> DEFINE done == [written |-> Taken(ctx), buf |-> <<>>]
  <2>1. Streamed(Program(s, ctx), done, data, blank)
    BY ProgramStreams
  <2>2. o.ctx = done /\ o.slot = Program(s, ctx) /\ done.buf = <<>>
    BY <1>4
  <2> HIDE DEF done
  <2> QED
    BY <1>1, <2>1, <2>2
<1> QED
  BY <1>2, <1>3, <1>4 DEF Flush, Sync

SdoTypeOK ==
  /\ sdo_pc \in {"idle", "start", "request"}
  /\ fw_state \in {"IDLE", "READY", "STREAMING", "CONFIRMED", "ERROR"}
  /\ sdo_lock_held \in BOOLEAN
  /\ sdo_ctx \in Writer
  /\ sdo_data \in Seq(Chunk)
  /\ sdo_blank \subseteq 1..SlotLen

CoLockInv ==
  /\ upgrade_active <=> holder # NoChannel
  /\ upgrade_active => current_channel = holder
  /\ sdo_lock_held <=> holder = "CAN"
  /\ ~CanUpgrading

(* The slot holds the image as far as the flash took it.                   *)
Took(image) == \A p \in 1..Len(image) : slot1[p] = Stuck(image, sdo_blank, p)

SdoInv ==
  /\ SdoOpen \/ fw_state = "CONFIRMED" => sdo_lock_held
  /\ fw_state \in {"READY", "STREAMING"} =>
       Streamed(slot1, sdo_ctx, sdo_data, sdo_blank) /\ Len(sdo_ctx.buf) < BlockLen
  /\ sdo_pc = "request" => fw_state = "STREAMING" /\ sdo_ctx.buf = <<>>
  /\ fw_state = "CONFIRMED" => armed.by = "CAN" /\ Took(armed.image)

CoInv ==
  /\ TypeOK /\ SdoTypeOK
  /\ CoLockInv /\ SdoInv
  /\ UdpSession /\ WsSession
  /\ NoLeak /\ OffsetCountsStored /\ VerifiedInv

LEMMA CoInitInv == CoInit => CoInv
<1> SUFFICES ASSUME CoInit PROVE CoInv
  OBVIOUS
<1>1. TypeOK /\ UdpSession /\ WsSession /\ NoLeak /\ OffsetCountsStored /\ VerifiedInv
  BY InitType, InitInd DEF CoInit, IndInv
<1>2. SdoTypeOK
  BY EmptyChunks, FreshCtxType DEF CoInit, SdoInit, SdoTypeOK
<1>3. CoLockInv /\ SdoInv
  BY DEF CoInit, SdoInit, Init, StateInit, CanInit, CoLockInv, SdoInv, SdoOpen, CanUpgrading, NoChannel
<1> QED
  BY <1>1, <1>2, <1>3 DEF CoInv

(* What the SDO download does to the lock and to the request of a swap.    *)
SdoWork ==
  \/ ~upgrade_active /\ upgrade_active' /\ holder' = "CAN" /\ current_channel' = "CAN"
     /\ UNCHANGED <<slot1, armed>>
  \/ holder = "CAN" /\ armed' \in {armed, Disarmed, [by |-> "CAN", image |-> sdo_data]}
     /\ \/ UNCHANGED lockVars
        \/ ~upgrade_active' /\ holder' = NoChannel
  \/ UNCHANGED stateVars

LEMMA GivesUp ==
  ASSUME SdoTypeOK, CoLockInv, SdoGivesUp
  PROVE  /\ fw_state' = "ERROR" /\ sdo_lock_held' = FALSE
         /\ sdo_ctx' \in Writer /\ sdo_data' \in Seq(Chunk) /\ sdo_blank' = {}
         /\ current_channel' = current_channel
         /\ \/ sdo_lock_held /\ holder = "CAN" /\ ~upgrade_active' /\ upgrade_active' \in BOOLEAN
               /\ holder' = NoChannel
            \/ ~sdo_lock_held /\ holder # "CAN" /\ UNCHANGED lockVars
<1>1. sdo_ctx' \in Writer /\ sdo_data' \in Seq(Chunk) /\ sdo_blank' = {}
  BY EmptyChunks, FreshCtxType DEF SdoGivesUp, Forgotten
<1>2. CASE sdo_lock_held
  BY <1>1, <1>2 DEF SdoGivesUp, CoLockInv, Unlock, NoChannel
<1>3. CASE ~sdo_lock_held
  BY <1>1, <1>3 DEF SdoGivesUp, CoLockInv, SdoTypeOK, lockVars
<1> QED
  BY <1>2, <1>3

LEMMA SdoStepInv ==
  ASSUME CoInv, SdoStep
  PROVE  StateTypeOK' /\ SdoTypeOK' /\ CoLockInv' /\ SdoInv' /\ SdoWork
<1> USE DEF lockVars, NoChannel
<1>1. StateTypeOK /\ SdoTypeOK /\ CoLockInv /\ SdoInv
  BY DEF CoInv, TypeOK
<1>2. ~CanUpgrading'
  BY <1>1 DEF SdoStep, CoLockInv, CanUpgrading, canVars
<1>3. CASE SdoStart
  <2>1. StateTypeOK' /\ SdoTypeOK'
    BY <1>1, <1>3 DEF SdoStart, TryLock, StateTypeOK, SdoTypeOK, Channel
  <2>2. CoLockInv'
    BY <1>1, <1>2, <1>3 DEF SdoStart, TryLock, CoLockInv
  <2>3. SdoInv'
    BY <1>1, <1>3 DEF SdoStart, SdoInv, SdoOpen, Took
  <2>4. SdoWork
    BY <1>1, <1>3 DEF SdoStart, TryLock, SdoWork, stateVars
  <2> QED
    BY <2>1, <2>2, <2>3, <2>4
<1>4. CASE SdoReset
  <2>0. Disarmed \in [by : Channel \cup {NoChannel}, image : Seq(Chunk)]
    BY EmptyChunks DEF Disarmed
  <2>1. CASE /\ armed' = Disarmed /\ fw_state' = "READY" /\ Forgotten
             /\ sdo_blank' = {p \in 1..SlotLen : slot1[p] = Erased}
             /\ UNCHANGED <<sdo_lock_held, lockVars>>
    <3>1. sdo_ctx' \in Writer /\ sdo_data' \in Seq(Chunk) /\ sdo_ctx'.written = 0
          /\ sdo_ctx'.buf = <<>> /\ sdo_data' = <<>>
      BY <2>1, EmptyChunks, FreshCtxType DEF Forgotten, FreshCtx
    <3>0. sdo_blank' = {p \in 1..SlotLen : slot1[p] = Erased} /\ UNCHANGED slot1
      BY <1>4, <2>1 DEF SdoReset
    <3>2. StateTypeOK' /\ SdoTypeOK'
      BY <1>1, <1>4, <2>0, <2>1, <3>0, <3>1 DEF SdoReset, StateTypeOK, SdoTypeOK
    <3>3. CoLockInv'
      BY <1>1, <1>2, <2>1 DEF CoLockInv
    <3>4. Len(sdo_ctx'.buf) = 0 /\ Len(sdo_data') = 0
      BY <3>1
    <3>5. Streamed(slot1', sdo_ctx', sdo_data', sdo_blank')
      <4>1. Len(sdo_data') = Taken(sdo_ctx')
        BY <3>1, <3>4 DEF Taken
      <4>2. \A p \in 1..SlotLen : slot1'[p] = Erased <=> p \in sdo_blank'
        BY <3>0
      <4> QED
        BY <3>1, <3>4, <4>1, <4>2 DEF Streamed
    <3>6. sdo_lock_held' /\ sdo_pc' = "idle" /\ 0 < BlockLen
      BY <1>1, <1>4, <2>1, FlashAssumption DEF SdoReset, SdoInv, SdoOpen
    <3>7. SdoInv'
      BY <2>1, <3>4, <3>5, <3>6 DEF SdoInv
    <3>8. SdoWork
      BY <1>1, <1>4, <2>1 DEF SdoReset, SdoWork, SdoInv, SdoOpen, CoLockInv
    <3> QED
      BY <3>2, <3>3, <3>7, <3>8
  <2>2. CASE armed' \in {armed, Disarmed} /\ SdoGivesUp
    <3>1. /\ fw_state' = "ERROR" /\ sdo_lock_held' = FALSE /\ sdo_pc' = "idle"
          /\ sdo_ctx' \in Writer /\ sdo_data' \in Seq(Chunk) /\ sdo_blank' = {}
          /\ current_channel' = current_channel /\ UNCHANGED slot1
          /\ holder = "CAN" /\ ~upgrade_active' /\ upgrade_active' \in BOOLEAN /\ holder' = NoChannel
      BY <1>1, <1>4, <2>2, GivesUp DEF SdoReset, SdoInv, SdoOpen
    <3>2. StateTypeOK' /\ SdoTypeOK'
      BY <1>1, <2>0, <2>2, <3>1 DEF StateTypeOK, SdoTypeOK
    <3>3. CoLockInv'
      BY <1>2, <3>1 DEF CoLockInv
    <3>4. SdoInv' /\ SdoWork
      BY <2>2, <3>1 DEF SdoInv, SdoOpen, SdoWork
    <3> QED
      BY <3>2, <3>3, <3>4
  <2> QED
    BY <1>4, <2>1, <2>2 DEF SdoReset
<1>5. ASSUME NEW c \in Chunk, SdoData(c)
      PROVE  StateTypeOK' /\ SdoTypeOK' /\ CoLockInv' /\ SdoInv' /\ SdoWork
  <2>1. PICK o \in BufferedWrite(slot1, sdo_ctx, c) :
          /\ slot1' = o.slot
          /\ IF o.ok
             THEN /\ fw_state' = "STREAMING" /\ sdo_ctx' = o.ctx
                  /\ sdo_data' = Append(sdo_data, c) /\ UNCHANGED sdo_blank
             ELSE fw_state' = "ERROR" /\ Forgotten /\ sdo_blank' = {}
    BY <1>5 DEF SdoData
  <2>2. fw_state \in {"READY", "STREAMING"} /\ sdo_pc = "idle" /\ sdo_pc' = "idle"
        /\ UNCHANGED <<sdo_lock_held, lockVars, armed>>
    BY <1>5 DEF SdoData
  <2>3. slot1 \in Slot /\ sdo_ctx \in Writer /\ sdo_data \in Seq(Chunk)
        /\ Streamed(slot1, sdo_ctx, sdo_data, sdo_blank) /\ Len(sdo_ctx.buf) < BlockLen /\ sdo_lock_held
    BY <1>1, <2>2 DEF StateTypeOK, SdoTypeOK, SdoInv, SdoOpen
  <2>4. /\ o.slot \in Slot
        /\ o.ok => /\ o.ctx \in Writer /\ Len(o.ctx.buf) < BlockLen
                   /\ Streamed(o.slot, o.ctx, Append(sdo_data, c), sdo_blank)
    BY <2>3, WriteStreams
  <2>5. StateTypeOK' /\ CoLockInv' /\ SdoWork
    BY <1>1, <1>2, <2>1, <2>2, <2>3, <2>4 DEF StateTypeOK, CoLockInv, SdoWork
  <2>6. CASE o.ok
    <3>1. Append(sdo_data, c) \in Seq(Chunk)
      BY <2>3
    <3>2. SdoTypeOK'
      BY <1>1, <2>1, <2>2, <2>4, <2>6, <3>1 DEF SdoTypeOK
    <3>3. SdoInv'
      BY <2>1, <2>2, <2>3, <2>4, <2>6 DEF SdoInv
    <3> QED
      BY <2>5, <3>2, <3>3
  <2>7. CASE ~o.ok
    <3>1. sdo_ctx' \in Writer /\ sdo_data' \in Seq(Chunk)
      BY <2>1, <2>7, EmptyChunks, FreshCtxType DEF Forgotten
    <3>2. SdoTypeOK'
      BY <1>1, <2>1, <2>2, <2>7, <3>1 DEF SdoTypeOK
    <3>3. SdoInv'
      BY <2>1, <2>2, <2>3, <2>7 DEF SdoInv, SdoOpen
    <3> QED
      BY <2>5, <3>2, <3>3
  <2> QED
    BY <2>6, <2>7
<1>6. CASE SdoConfirm
  <2>1. ASSUME SdoGivesUp, slot1' \in Slot, UNCHANGED <<sdo_pc, armed>>, sdo_pc = "idle",
               UNCHANGED slot1 \/ sdo_lock_held
        PROVE  StateTypeOK' /\ SdoTypeOK' /\ CoLockInv' /\ SdoInv' /\ SdoWork
    <3>1. /\ fw_state' = "ERROR" /\ sdo_lock_held' = FALSE
          /\ sdo_ctx' \in Writer /\ sdo_data' \in Seq(Chunk) /\ sdo_blank' = {}
          /\ current_channel' = current_channel
          /\ \/ sdo_lock_held /\ holder = "CAN" /\ ~upgrade_active' /\ upgrade_active' \in BOOLEAN
                /\ holder' = NoChannel
             \/ ~sdo_lock_held /\ holder # "CAN" /\ UNCHANGED lockVars
      BY <1>1, <2>1, GivesUp
    <3>2. StateTypeOK'
      BY <1>1, <2>1, <3>1 DEF StateTypeOK
    <3>3. SdoTypeOK' /\ SdoInv'
      BY <1>1, <2>1, <3>1 DEF SdoTypeOK, SdoInv, SdoOpen
    <3>4. CoLockInv'
      BY <1>1, <1>2, <3>1 DEF CoLockInv
    <3>5. SdoWork
      BY <2>1, <3>1 DEF SdoWork, stateVars
    <3> QED
      BY <3>2, <3>3, <3>4, <3>5
  <2>2. CASE fw_state # "STREAMING"
    BY <1>1, <1>6, <2>1, <2>2 DEF SdoConfirm, StateTypeOK
  <2>3. CASE fw_state = "STREAMING"
    <3>1. PICK o \in Flush(slot1, sdo_ctx) :
            /\ slot1' = o.slot
            /\ \/ /\ o.ok /\ sdo_pc' = "request" /\ sdo_ctx' = o.ctx
                  /\ UNCHANGED <<fw_state, sdo_data, sdo_blank, sdo_lock_held, lockVars>>
               \/ ~o.ok /\ SdoGivesUp /\ UNCHANGED sdo_pc
      BY <1>6, <2>3 DEF SdoConfirm
    <3>2. slot1 \in Slot /\ sdo_ctx \in Writer /\ sdo_data \in Seq(Chunk)
          /\ Streamed(slot1, sdo_ctx, sdo_data, sdo_blank) /\ sdo_lock_held
      BY <1>1, <2>3 DEF StateTypeOK, SdoTypeOK, SdoInv, SdoOpen
    <3>3. /\ o.slot \in Slot
          /\ o.ok => o.ctx \in Writer /\ o.ctx.buf = <<>> /\ Streamed(o.slot, o.ctx, sdo_data, sdo_blank)
      BY <3>2, FlushStreams
    <3>4. CASE /\ o.ok /\ sdo_pc' = "request" /\ sdo_ctx' = o.ctx
               /\ UNCHANGED <<fw_state, sdo_data, sdo_blank, sdo_lock_held, lockVars>>
      <4>1. StateTypeOK' /\ SdoTypeOK'
        BY <1>1, <1>6, <3>1, <3>3, <3>4 DEF SdoConfirm, StateTypeOK, SdoTypeOK
      <4>2. CoLockInv' /\ SdoWork
        BY <1>1, <1>2, <1>6, <3>2, <3>4 DEF SdoConfirm, CoLockInv, SdoWork
      <4>3. Len(sdo_ctx'.buf) < BlockLen
        BY <3>3, <3>4, EmptyChunks, FlashAssumption
      <4>4. SdoInv'
        BY <2>3, <3>1, <3>2, <3>3, <3>4, <4>3 DEF SdoInv
      <4> QED
        BY <4>1, <4>2, <4>4
    <3>5. CASE ~o.ok /\ SdoGivesUp /\ UNCHANGED sdo_pc
      BY <1>6, <2>1, <3>1, <3>2, <3>3, <3>5 DEF SdoConfirm
    <3> QED
      BY <3>1, <3>4, <3>5
  <2> QED
    BY <2>2, <2>3
<1>7. CASE SdoRequest
  <2>0. fw_state = "STREAMING" /\ sdo_ctx.buf = <<>> /\ sdo_lock_held
        /\ Streamed(slot1, sdo_ctx, sdo_data, sdo_blank)
        /\ holder = "CAN" /\ UNCHANGED slot1 /\ sdo_pc' = "idle"
    BY <1>1, <1>7 DEF SdoRequest, SdoInv, SdoOpen, CoLockInv
  <2>1. CASE Arm("CAN", sdo_data) /\ fw_state' = "CONFIRMED" /\ Forgotten
             /\ UNCHANGED <<sdo_blank, sdo_lock_held, lockVars>>
    <3>1. sdo_ctx' \in Writer /\ sdo_data' \in Seq(Chunk)
      BY <2>1, EmptyChunks, FreshCtxType DEF Forgotten
    <3>2. StateTypeOK' /\ SdoTypeOK'
      BY <1>1, <2>0, <2>1, <3>1 DEF Arm, StateTypeOK, SdoTypeOK, Channel
    <3>3. CoLockInv' /\ SdoWork
      BY <1>1, <1>2, <2>0, <2>1 DEF Arm, CoLockInv, SdoWork
    <3>4. \A p \in 1..Len(sdo_data) : slot1[p] = Stuck(sdo_data, sdo_blank, p)
      <4>1. Len(sdo_data) = sdo_ctx.written
        <5>1. Len(sdo_ctx.buf) = 0 /\ sdo_ctx.written \in Nat
          BY <1>1, <2>0, EmptyChunks, FlashAssumption DEF SdoTypeOK, Writer, Ctx
        <5> QED
          BY <2>0, <5>1 DEF Streamed, Taken
      <4> QED
        BY <2>0, <4>1 DEF Streamed
    <3>5. armed'.by = "CAN" /\ Took(armed.image)'
      BY <2>0, <2>1, <3>4 DEF Arm, Took
    <3>6. SdoInv'
      BY <2>0, <2>1, <3>5 DEF SdoInv, SdoOpen
    <3> QED
      BY <3>2, <3>3, <3>6
  <2>2. CASE SdoGivesUp /\ UNCHANGED armed
    <3>1. /\ fw_state' = "ERROR" /\ sdo_lock_held' = FALSE
          /\ sdo_ctx' \in Writer /\ sdo_data' \in Seq(Chunk) /\ sdo_blank' = {}
          /\ current_channel' = current_channel
          /\ ~upgrade_active' /\ upgrade_active' \in BOOLEAN /\ holder' = NoChannel
      BY <1>1, <2>0, <2>2, GivesUp
    <3>2. StateTypeOK' /\ SdoTypeOK'
      BY <1>1, <2>0, <2>2, <3>1 DEF StateTypeOK, SdoTypeOK
    <3>3. CoLockInv' /\ SdoInv' /\ SdoWork
      BY <1>2, <2>0, <2>2, <3>1 DEF CoLockInv, SdoInv, SdoOpen, SdoWork
    <3> QED
      BY <3>2, <3>3
  <2> QED
    BY <1>7, <2>1, <2>2 DEF SdoRequest
<1> QED
  BY <1>3, <1>4, <1>5, <1>6, <1>7 DEF SdoStep, SdoNext

(* While UDP or the web server has the lock, or takes it, no download is   *)
(* open and none is confirmed.                                             *)
LEMMA EffectSdo ==
  ASSUME CoLockInv, SdoTypeOK, SdoInv, NEW c \in {"UDP", "WS"}, Effect(c), UNCHANGED <<canVars, sdoVars>>
  PROVE  /\ CoLockInv' /\ SdoTypeOK' /\ SdoInv'
         /\ holder \in {c, NoChannel} /\ holder' \in {c, NoChannel}
<1> USE DEF lockVars, NoChannel
<1>1. ~CanUpgrading' /\ SdoTypeOK'
  BY DEF CoLockInv, SdoTypeOK, CanUpgrading, canVars, sdoVars
<1>2. holder \in {c, NoChannel} /\ holder' \in {c, NoChannel}
  BY DEF Effect, Work, TryLock, CoLockInv
<1>3. CoLockInv'
  BY <1>1 DEF Effect, Work, TryLock, CoLockInv, Label, sdoVars
<1>4. ~sdo_lock_held
  BY <1>2 DEF CoLockInv
<1>5. SdoInv'
  BY <1>4 DEF SdoInv, SdoOpen, sdoVars
<1> QED
  BY <1>1, <1>2, <1>3, <1>5

LEMMA CoFits ==
  ASSUME CoLockInv
  PROVE  Fits("UDP") /\ Fits("WS")
BY DEF CoLockInv, Fits, Label, NoChannel

LEMMA CoUdpInv ==
  ASSUME CoInv, CoUdpStep
  PROVE  CoInv'
<1>1. UdpNext /\ UNCHANGED <<canVars, wsVars, sdoVars>> /\ Fits("UDP")
  BY CoFits DEF CoInv, CoUdpStep
<1>2. TypeOK'
  <2>1. CanTypeOK' /\ WsTypeOK'
    BY <1>1 DEF CoInv, TypeOK, CanTypeOK, WsTypeOK, canVars, wsVars
  <2> QED
    BY <1>1, <2>1, UdpType DEF CoInv, TypeOK
<1>3. Effect("UDP") /\ UdpSession' /\ VerifiedInv' /\ OffsetCountsStored'
  BY <1>1, UdpEffect, UdpVerified DEF CoInv
<1>4. CoLockInv' /\ SdoTypeOK' /\ SdoInv' /\ holder \in {"UDP", NoChannel} /\ holder' \in {"UDP", NoChannel}
  BY <1>1, <1>3, EffectSdo DEF CoInv
<1>5. WsSession'
  BY <1>1, <1>4 DEF CoInv, WsSession, WsUpgrading, wsVars, NoChannel
<1>6. NoLeak'
  <2>1. ASSUME holder' = "UDP" PROVE UdpUpgrading' \/ Armed'
    BY <2>1, <1>1, UdpNoLeak DEF CoInv
  <2> QED
    BY <1>4, <2>1 DEF NoLeak, Upgrading, NoChannel
<1> QED
  BY <1>2, <1>3, <1>4, <1>5, <1>6 DEF CoInv

LEMMA CoWsInv ==
  ASSUME CoInv, CoWsStep
  PROVE  CoInv'
<1>1. WsNext /\ UNCHANGED <<udpVars, canVars, sdoVars>> /\ Fits("WS")
  BY CoFits DEF CoInv, CoWsStep, CoWsNext, WsNext, co_fw_start, co_fw_upg_verify_client_keyhash,
                co_fw_data, co_fw_end, co_fw_upg_verify
<1>2. TypeOK'
  <2>1. UdpTypeOK' /\ CanTypeOK'
    BY <1>1 DEF CoInv, TypeOK, UdpTypeOK, CanTypeOK, udpVars, canVars
  <2> QED
    BY <1>1, <2>1, WsType DEF CoInv, TypeOK
<1>3. Effect("WS") /\ WsSession'
  BY <1>1, WsEffect DEF CoInv
<1>4. CoLockInv' /\ SdoTypeOK' /\ SdoInv' /\ holder \in {"WS", NoChannel} /\ holder' \in {"WS", NoChannel}
  BY <1>1, <1>3, EffectSdo DEF CoInv
<1>5. UdpSession'
  BY <1>1, <1>4 DEF CoInv, UdpSession, UdpUpgrading, udpVars, NoChannel
<1>6. NoLeak'
  <2>1. ASSUME holder' = "WS" PROVE WsUpgrading'
    BY <2>1, <1>1, WsNoLeak DEF CoInv
  <2> QED
    BY <1>4, <2>1 DEF NoLeak, Upgrading, NoChannel
<1>7. VerifiedInv' /\ OffsetCountsStored'
  <2>1. holder # "UDP" /\ armed.by # "UDP" /\ holder' # "UDP"
    BY <1>4 DEF CoInv, VerifiedInv, NoChannel
  <2>2. armed'.by # "UDP"
    BY <1>3, <2>1 DEF Effect, Work
  <2> QED
    BY <1>1, <2>1, <2>2, OthersKeep DEF CoInv
<1> QED
  BY <1>2, <1>3, <1>4, <1>5, <1>6, <1>7 DEF CoInv

LEMMA CoSdoInv ==
  ASSUME CoInv, SdoStep
  PROVE  CoInv'
<1>1. StateTypeOK' /\ SdoTypeOK' /\ CoLockInv' /\ SdoInv' /\ SdoWork /\ UNCHANGED <<udpVars, canVars, wsVars>>
  BY SdoStepInv DEF SdoStep
<1>2. TypeOK'
  BY <1>1 DEF CoInv, TypeOK, UdpTypeOK, CanTypeOK, WsTypeOK, udpVars, canVars, wsVars
<1>3. UNCHANGED stateVars \/ (holder \notin {"UDP", "WS"} /\ holder' \notin {"UDP", "WS"})
  <2>1. ~upgrade_active => holder = NoChannel
    BY DEF CoInv, CoLockInv
  <2>2. UNCHANGED lockVars => holder' = holder
    BY DEF lockVars
  <2>3. holder = NoChannel \/ holder = "CAN" => holder \notin {"UDP", "WS"}
    BY DEF NoChannel
  <2>4. holder' = NoChannel \/ holder' = "CAN" => holder' \notin {"UDP", "WS"}
    BY DEF NoChannel
  <2>5. CASE ~upgrade_active /\ holder' = "CAN"
    BY <2>1, <2>3, <2>4, <2>5
  <2>6. CASE holder = "CAN" /\ (UNCHANGED lockVars \/ holder' = NoChannel)
    BY <2>2, <2>3, <2>4, <2>6
  <2>7. \/ ~upgrade_active /\ holder' = "CAN"
        \/ holder = "CAN" /\ (UNCHANGED lockVars \/ holder' = NoChannel)
        \/ UNCHANGED stateVars
    BY <1>1, Zenon DEF SdoWork
  <2> QED
    BY <2>5, <2>6, <2>7, Zenon
<1>4. UdpSession' /\ WsSession'
  BY <1>1, <1>3 DEF CoInv, UdpSession, WsSession, UdpUpgrading, WsUpgrading, udpVars, wsVars, stateVars
<1>5. NoLeak'
  BY <1>1, <1>3 DEF CoInv, NoLeak, Upgrading, UdpUpgrading, WsUpgrading, Armed, udpVars, wsVars, stateVars
<1>6. VerifiedInv' /\ OffsetCountsStored'
  <2>1. CASE UNCHANGED stateVars
    BY <1>1, <2>1 DEF CoInv, VerifiedInv, OffsetCountsStored, UdpUpgrading, Holds, udpVars, stateVars
  <2>2. CASE holder \notin {"UDP", "WS"} /\ holder' \notin {"UDP", "WS"}
    <3>1. armed.by # "UDP"
      BY <2>2 DEF CoInv, VerifiedInv
    <3>2. armed'.by # "UDP"
      BY <1>1, <3>1 DEF SdoWork, Disarmed, NoChannel, stateVars
    <3> QED
      BY <1>1, <2>2, <3>2, OthersKeep DEF CoInv
  <2> QED
    BY <1>3, <2>1, <2>2
<1> QED
  BY <1>1, <1>2, <1>4, <1>5, <1>6 DEF CoInv

LEMMA CoRebootInv ==
  ASSUME CoInv, CoReboot
  PROVE  CoInv'
<1>1. TypeOK' /\ IndInv'
  BY RebootType, RebootInd DEF CoInv, CoReboot
<1>2. SdoTypeOK'
  BY EmptyChunks, FreshCtxType DEF CoReboot, SdoTypeOK
<1>3. CoLockInv' /\ SdoInv'
  BY DEF CoReboot, Reboot, StateReboot, CanClose, CoLockInv, SdoInv, SdoOpen, CanUpgrading, NoChannel
<1> QED
  BY <1>1, <1>2, <1>3 DEF CoInv, IndInv

LEMMA CoStutter ==
  ASSUME CoInv, UNCHANGED <<vars, sdoVars>>
  PROVE  CoInv'
<1>1. TypeOK'
  BY StutterType DEF CoInv
<1>2. SdoTypeOK' /\ CoLockInv' /\ SdoInv'
  BY DEF CoInv, SdoTypeOK, CoLockInv, SdoInv, SdoOpen, CanUpgrading, Took, Streamed, vars, stateVars,
         canVars, sdoVars
<1>3. UdpSession' /\ WsSession' /\ NoLeak'
  BY DEF CoInv, UdpSession, WsSession, UdpUpgrading, WsUpgrading, CanUpgrading, NoLeak, Upgrading,
         Armed, vars, stateVars, udpVars, wsVars, canVars
<1>4. OffsetCountsStored' /\ VerifiedInv'
  BY DEF CoInv, OffsetCountsStored, VerifiedInv, UdpUpgrading, Holds, vars, stateVars, udpVars
<1> QED
  BY <1>1, <1>2, <1>3, <1>4 DEF CoInv

LEMMA CoStep == CoInv /\ [CoNext]_<<vars, sdoVars>> => CoInv'
BY CoUdpInv, CoWsInv, CoSdoInv, CoRebootInv, CoStutter DEF CoNext

(* What the invariant says of a download: SdoImageKept and the properties  *)
(* of the channels it runs beside.                                         *)
LEMMA StreamedIs ==
  ASSUME NEW s \in Slot, NEW ctx \in Writer, NEW data \in Seq(Chunk), Streamed(s, ctx, data, sdo_blank)
  PROVE  ReadBack(s, ctx.written) \o ctx.buf = Landed(data, ctx.written)
<1> DEFINE n == ctx.written
           u == ctx.buf
           r == ReadBack(s, n)
           d == Landed(data, n)
<1>1. n \in 0..SlotLen /\ u \in Seq(Chunk) /\ Len(u) \in Nat /\ SlotLen \in Nat /\ Taken(ctx) = n + Len(u)
  BY FlashAssumption DEF Writer, Ctx, Taken
<1>2. /\ Len(data) = n + Len(u)
      /\ \A p \in 1..n : s[p] = Stuck(data, sdo_blank, p)
      /\ \A i \in 1..Len(u) : u[i] = data[n + i]
  BY <1>1 DEF Streamed
<1>3. d = [p \in 1..(n + Len(u)) |-> IF p \in (1..n) \ sdo_blank THEN Junk ELSE data[p]]
  BY <1>1, <1>2 DEF Landed
<1> HIDE DEF n, u, d
<1>4. r \in Seq(Cell) /\ Len(r) = n
  <2>1. \A p \in 1..n : s[p] \in Cell
    BY <1>1 DEF Slot
  <2> QED
    BY <1>1, <2>1 DEF ReadBack
<1>5. \A p \in 1..n : r[p] = Stuck(data, sdo_blank, p)
  BY <1>2 DEF ReadBack
<1> HIDE DEF r
<1>6. u \in Seq(Cell)
  BY <1>1 DEF Cell
<1>7. d \in Seq(Cell) /\ Len(d) = n + Len(u)
  <2>1. \A p \in 1..(n + Len(u)) : d[p] \in Cell
    BY <1>1, <1>2, <1>3 DEF Cell
  <2>2. d = [p \in 1..(n + Len(u)) |-> d[p]] /\ n + Len(u) \in Nat
    BY <1>1, <1>3
  <2> QED
    BY <2>1, <2>2
<1>8. r \o u \in Seq(Cell) /\ Len(r \o u) = n + Len(u)
  BY <1>4, <1>6, SMTT(30)
<1>9. \A p \in 1..(n + Len(u)) : (r \o u)[p] = d[p]
  <2> SUFFICES ASSUME NEW p \in 1..(n + Len(u)) PROVE (r \o u)[p] = d[p]
    OBVIOUS
  <2>1. CASE p <= n
    <3>1. p \in 1..n /\ (r \o u)[p] = r[p]
      BY <1>1, <1>4, <1>6, <2>1
    <3> QED
      BY <1>3, <1>5, <3>1 DEF Stuck
  <2>2. CASE n < p
    <3>1. p - n \in 1..Len(u) /\ n + (p - n) = p /\ p \notin 1..n
      BY <1>1, <2>2
    <3>2. (r \o u)[p] = u[p - n]
      BY <1>1, <1>4, <1>6, <2>2
    <3> QED
      BY <1>2, <1>3, <3>1, <3>2
  <2>3. n \in Int /\ p \in Int
    BY <1>1
  <2>4. p <= n \/ n < p
    BY <2>3
  <2> QED
    BY <2>1, <2>2, <2>4, Zenon
<1>10. r \o u = d
  BY <1>7, <1>8, <1>9
<1> QED
  BY <1>10 DEF r, n, u, d

LEMMA CoSafe ==
  ASSUME CoInv
  PROVE  MutualExclusion /\ NoLeak /\ UdpArmedImage /\ OffsetCountsStored /\ SdoImageKept
<1>1. \A c \in Channel : Upgrading(c) => holder = c
  BY DEF CoInv, CoLockInv, UdpSession, WsSession, Upgrading, Channel
<1>2. MutualExclusion
  BY <1>1 DEF MutualExclusion
<1>3. UdpArmedImage
  BY DEF CoInv, VerifiedInv, UdpArmedImage
<1>4. SdoOpen => holder = "CAN" /\ \A c \in Channel : ~Upgrading(c)
  <2>1. SdoOpen => holder = "CAN"
    BY DEF CoInv, SdoInv, CoLockInv
  <2>2. ASSUME SdoOpen, NEW c \in Channel, Upgrading(c) PROVE FALSE
    <3>1. c = "CAN"
      BY <1>1, <2>1, <2>2
    <3> QED
      BY <2>2, <3>1 DEF CoInv, CoLockInv, Upgrading
  <2> QED
    BY <2>1, <2>2, Zenon
<1>5. fw_state \in {"READY", "STREAMING"} =>
        ReadBack(slot1, sdo_ctx.written) \o sdo_ctx.buf = Landed(sdo_data, sdo_ctx.written)
  BY StreamedIs DEF CoInv, TypeOK, StateTypeOK, SdoTypeOK, SdoInv
<1>6. ASSUME fw_state = "CONFIRMED"
      PROVE  armed.by = "CAN" /\ ReadBack(slot1, Len(armed.image)) = Landed(armed.image, Len(armed.image))
  <2>1. armed.by = "CAN" /\ Took(armed.image) /\ armed.image \in Seq(Chunk)
    BY <1>6 DEF CoInv, TypeOK, StateTypeOK, SdoInv
  <2> DEFINE n == Len(armed.image)
  <2>2. DOMAIN armed.image = 1..n
    BY <2>1
  <2>3. \A p \in 1..n : slot1[p] = IF p \in (1..n) \ sdo_blank THEN Junk ELSE armed.image[p]
    BY <2>1 DEF Took, Stuck
  <2> QED
    BY <2>1, <2>2, <2>3 DEF ReadBack, Landed
<1> QED
  BY <1>2, <1>3, <1>4, <1>5, <1>6 DEF SdoImageKept, CoInv

(* canopen-io, fw_download.c:15: UDP, the web server and the SDO download  *)
(* exclude each other, and from the first chunk answered over SDO to the   *)
(* restart the slot holds of the image what the flash took, which is all   *)
(* of it where the slot was erased, for every image and geometry.          *)
THEOREM DownloadKept == CoSpec => [](MutualExclusion /\ NoLeak /\ UdpArmedImage /\ OffsetCountsStored
                                     /\ SdoImageKept)
<1>1. CoInv => MutualExclusion /\ NoLeak /\ UdpArmedImage /\ OffsetCountsStored /\ SdoImageKept
  BY CoSafe
<1> QED
  BY <1>1, CoInitInv, CoStep, PTL DEF CoSpec

-----------------------------------------------------------------------------
(* The composition: of the applications that have these channels, the one  *)
(* that runs keeps its invariant, and the variables of the others stand    *)
(* still.                                                                  *)
ChannelsInv ==
  /\ app = "canopen-io" => CoInv
  /\ app # "canopen-io" => TypeOK /\ IndInv /\ SdoInit

LEMMA SdoInitKept ==
  ASSUME SdoInit
  PROVE  SdoImageKept
<1>1. ~SdoOpen /\ fw_state \notin {"READY", "STREAMING", "CONFIRMED"}
  BY DEF SdoInit, SdoOpen
<1> QED
  BY <1>1 DEF SdoImageKept

LEMMA ChannelsStep ==
  ASSUME ChannelsInv, [UpgradeNext]_<<app, vars, sdoVars, apVars, startVars, gwNetVars>>
  PROVE  ChannelsInv'
<1>1. app' = app
  BY DEF UpgradeNext
<1>2. CASE app = "canopen-io"
  <2>1. [CoNext]_<<vars, sdoVars>>
    BY <1>2 DEF UpgradeNext
  <2> QED
    BY <1>1, <1>2, <2>1, CoStep DEF ChannelsInv
<1>3. CASE app # "canopen-io"
  <2>1. [Next]_vars /\ UNCHANGED sdoVars
    BY <1>3 DEF UpgradeNext
  <2>2. SdoInit'
    BY <1>3, <2>1 DEF ChannelsInv, SdoInit, sdoVars
  <2>3. TypeOK' /\ IndInv'
    BY <1>3, <2>1, NextType, UdpInd, CanInd, WsInd, RebootInd, StutterInd DEF ChannelsInv, Next
  <2> QED
    BY <1>1, <1>3, <2>2, <2>3 DEF ChannelsInv
<1> QED
  BY <1>2, <1>3

(* Whichever application runs, its channels keep what the instance checks. *)
THEOREM ChannelsCorrect ==
  UpgradeSpec => [](MutualExclusion /\ NoLeak /\ UdpArmedImage /\ OffsetCountsStored /\ SdoImageKept)
<1>1. UpgradeInit => ChannelsInv
  BY InitType, InitInd, CoInitInv DEF UpgradeInit, CoInit, ChannelsInv
<1>2. ChannelsInv => MutualExclusion /\ NoLeak /\ UdpArmedImage /\ OffsetCountsStored /\ SdoImageKept
  <2> SUFFICES ASSUME ChannelsInv
               PROVE  MutualExclusion /\ NoLeak /\ UdpArmedImage /\ OffsetCountsStored /\ SdoImageKept
    OBVIOUS
  <2>1. CASE app = "canopen-io"
    BY <2>1, CoSafe DEF ChannelsInv
  <2>2. CASE app # "canopen-io"
    <3>1. IndInv /\ SdoInit
      BY <2>2 DEF ChannelsInv
    <3>2. MutualExclusion
      BY <3>1 DEF IndInv, UdpSession, CanSession, WsSession, MutualExclusion, Upgrading, Channel
    <3>3. NoLeak /\ OffsetCountsStored /\ UdpArmedImage
      BY <3>1 DEF IndInv, VerifiedInv, UdpArmedImage
    <3> QED
      BY <3>1, <3>2, <3>3, SdoInitKept
  <2> QED
    BY <2>1, <2>2
<1> QED
  BY <1>1, <1>2, ChannelsStep, PTL DEF UpgradeSpec

-----------------------------------------------------------------------------
(* apollo-v2 from main on.  The three parts share ip_source and mounts_sem *)
(* only, so each has an invariant of its own.                              *)

(* Where net_thread is says what the DHCP client does; a client that is    *)
(* bound has told of its address, and the interface has no other.          *)
NetInv ==
  /\ net \in {"iface", "fall-alone", "lease", "stop", "fall", "web", "end"}
  /\ dhcp \in {"off", "asking", "bound"}
  /\ net \in {"iface", "fall-alone"} => dhcp = "off" /\ iface = {} /\ ip_source = "NONE"
  /\ net = "fall" => dhcp = "off" /\ iface = {}
  /\ net \in {"lease", "stop"} => dhcp # "off"
  /\ dhcp # "off" => dhcp_active /\ ip_source \in {"NONE", "DHCP"}
  /\ dhcp = "asking" => iface = {}
  /\ dhcp = "bound" => ip_source = "DHCP" /\ ip_buf \in Lease /\ iface = {ip_buf}
  /\ net \in {"web", "end"} /\ dhcp = "off" /\ ~refused =>
       ip_source = "STATIC_FALLBACK" /\ iface = {ip_buf}

LEMMA NetStep == NetInv /\ NetNext => NetInv'
<1> SUFFICES ASSUME NetInv, NetNext PROVE NetInv'
  OBVIOUS
<1>1. CASE CableIn
  BY <1>1 DEF NetInv, CableIn
<1>2. ASSUME NEW l \in Lease, Leased(l) PROVE NetInv'
  BY <1>2 DEF NetInv, Leased, Hears
<1>3. CASE Lapses
  <2>1. {ip_buf} \ Lease = {}
    BY <1>3 DEF NetInv, Lapses
  <2> QED
    BY <1>3, <2>1 DEF NetInv, Lapses
<1>4. CASE Asks
  BY <1>4 DEF NetInv, Asks
<1>5. CASE NoIface
  BY <1>5 DEF NetInv, NoIface
<1>6. CASE TakesLease
  BY <1>6 DEF NetInv, TakesLease
<1>7. CASE NoLease
  BY <1>7 DEF NetInv, NoLease
<1>8. CASE StopsDhcp
  <2>1. iface \ Lease = {}
    BY <1>8 DEF NetInv, StopsDhcp
  <2> QED
    BY <1>8, <2>1 DEF NetInv, StopsDhcp
<1>9. CASE FallsBack
  BY <1>9 DEF NetInv, FallsBack, After
<1>10. CASE WebStarts
  BY <1>10 DEF NetInv, WebStarts
<1> QED
  BY <1>1, <1>2, <1>3, <1>4, <1>5, <1>6, <1>7, <1>8, <1>9, <1>10 DEF NetNext

(* The semaphore is given when the last mount is through, and taken before *)
(* the display goes on.                                                    *)
MountsInv ==
  /\ stor \in [at : {"probe", "sd", "fat", "lfs", "give", "end"}, attempt : Nat]
  /\ mounts_sem = 1 => stor.at = "end"
  /\ disp \in {"light", "unblank", "build"} /\ ~overdue => stor.at = "end"

LEMMA MountsStep == MountsInv /\ StartNext => MountsInv'
<1> SUFFICES ASSUME MountsInv, StartNext PROVE MountsInv'
  OBVIOUS
<1>1. CASE UNCHANGED <<storVars, disp, overdue>>
  BY <1>1 DEF MountsInv, storVars
<1>2. CASE StorNext /\ UNCHANGED <<disp, overdue>>
  <2>1. CASE Probes \/ MountsSd \/ MountsQspi \/ Gives
    BY <1>2, <2>1 DEF MountsInv, Probes, MountsSd, MountsQspi, Mounts, Gives
  <2>2. CASE SdTried
    BY <1>2, <2>2 DEF MountsInv, SdTried
  <2> QED
    BY <1>2, <2>1, <2>2 DEF StorNext
<1>3. CASE PanelNext /\ UNCHANGED <<stor, info>>
  BY <1>3 DEF MountsInv, PanelNext, DispBegins, DispWaits, DispLights, DispUnblanks, Builds, KeyToggles,
              KeyLights, KeyBlanks, CardTaps, WebLights
<1> QED
  BY <1>1, <1>2, <1>3 DEF StartNext, StatusLine

(* What a press left behind, from the moment the display thread is past    *)
(* the store that could overtake it.                                       *)
PanelInv ==
  /\ screen_on \in BOOLEAN
  /\ ~swayed /\ disp \in {"unblank", "build", "run"} /\ wk_up \in {"idle", "blank"} => lit = screen_on
  /\ ~swayed /\ disp \in {"build", "run"} /\ wk_up = "idle" => blanked = ~screen_on

LEMMA PanelStep == PanelInv /\ StartNext => PanelInv'
<1> SUFFICES ASSUME PanelInv, StartNext PROVE PanelInv'
  OBVIOUS
<1>1. CASE UNCHANGED <<disp, panelVars>>
  BY <1>1 DEF PanelInv, panelVars
<1>2. CASE PanelNext
  <2>1. CASE DispBegins \/ DispWaits \/ Builds
    BY <2>1 DEF PanelInv, panelVars, DispBegins, DispWaits, Builds
  <2>2. CASE DispLights \/ DispUnblanks
    BY <2>2 DEF PanelInv, DispLights, DispUnblanks
  <2>3. CASE KeyToggles \/ KeyLights \/ KeyBlanks
    BY <2>3 DEF PanelInv, KeyToggles, KeyLights, KeyBlanks
  <2>4. CASE CardTaps \/ WebLights
    BY <2>4 DEF PanelInv, CardTaps, WebLights
  <2> QED
    BY <1>2, <2>1, <2>2, <2>3, <2>4 DEF PanelNext
<1> QED
  BY <1>1, <1>2 DEF StartNext, StatusLine

StartInv == NetInv /\ MountsInv /\ PanelInv

LEMMA StartStep == StartInv /\ [StartNext]_startVars => StartInv'
<1> SUFFICES ASSUME StartInv, [StartNext]_startVars PROVE StartInv'
  OBVIOUS
<1>1. CASE UNCHANGED startVars
  BY <1>1 DEF StartInv, NetInv, MountsInv, PanelInv, startVars, netVars, storVars, panelVars
<1>2. CASE StartNext
  <2>1. NetNext \/ UNCHANGED netVars
    BY <1>2 DEF StartNext, StatusLine
  <2>2. NetInv'
    <3>1. CASE UNCHANGED netVars
      BY <3>1 DEF StartInv, NetInv, netVars
    <3> QED
      BY <2>1, <3>1, NetStep DEF StartInv
  <2> QED
    BY <1>2, <2>2, MountsStep, PanelStep DEF StartInv
<1> QED
  BY <1>1, <1>2

LEMMA StartBegins == StartInit => StartInv
<1>1. StartInit => NetInv
  BY DEF StartInit, NetInv
<1>2. StartInit => MountsInv
  BY DEF StartInit, MountsInv
<1>3. StartInit => PanelInv
  BY DEF StartInit, PanelInv
<1> QED
  BY <1>1, <1>2, <1>3 DEF StartInv

LEMMA StartSafe == StartInv => BringUp
<1>1. NetInv => AddressTrue
  BY DEF NetInv, AddressTrue
<1>2. MountsInv => FontApart
  BY DEF MountsInv, FontApart
<1>3. PanelInv => ScreenAgrees
  BY DEF PanelInv, ScreenAgrees
<1> QED
  BY <1>1, <1>2, <1>3 DEF StartInv, BringUp

(* apollo-v2 shows the address its interface has, builds its screens after *)
(* the mounts, and its light follows the last press (net.c, storage.c,     *)
(* display.c), for any leases, retries and presses.                        *)
THEOREM BringUpCorrect == StartSpec => []BringUp
BY StartBegins, StartStep, StartSafe, PTL DEF StartSpec

-----------------------------------------------------------------------------
(* n2e-gw.  The last event that is under way says what the interface says; *)
(* with none, the handlers have said it.                                   *)
Event == {"IF_UP", "IF_DOWN"}

EventInv ==
  /\ adminUp \in BOOLEAN /\ carrier \in BOOLEAN /\ gw_net_link_up \in BOOLEAN
  /\ dhcpStarted \in BOOLEAN /\ config_sock \in BOOLEAN
  /\ events \in Seq(Event)
  /\ adminUp => begun
  /\ events # <<>> => adminUp /\ (events[Len(events)] = "IF_UP" <=> oper)
  /\ events = <<>> =>
       /\ gw_net_link_up <=> oper
       /\ oper => (mode = "dhcp" => dhcpStarted) /\ (config_sock \/ bindFailed)

(* The RX thread lives as long as its socket, and before main has begun    *)
(* there is none.                                                          *)
PortInv ==
  /\ udp_fw_started = config_sock
  /\ rx \in [at : {"unborn", "recvfrom", "check", "handle"}, cmd : Command \cup {"none"},
             from : Subnet \cup {NoSubnet}, moved : BOOLEAN]
  /\ rx.at # "unborn" => config_sock
  /\ ~begun => ~config_sock /\ ~dhcpStarted /\ ~gw_net_link_up
  /\ rx.at = "handle" /\ ~rx.moved => IsSameSubnet(rx.from) \/ rx.cmd \in Allowed
  /\ BroadcastAllowed

GwInv == EventInv /\ PortInv

LEMMA LastOfTail ==
  ASSUME NEW s \in Seq(Event), s # <<>>
  PROVE  /\ Tail(s) \in Seq(Event) /\ Head(s) \in Event
         /\ Tail(s) # <<>> => Tail(s)[Len(Tail(s))] = s[Len(s)]
         /\ Tail(s) = <<>> => Head(s) = s[Len(s)]
<1>1. Len(s) \in Nat /\ Len(s) > 0 /\ Head(s) = s[1] /\ Head(s) \in Event
  OBVIOUS
<1>2. Tail(s) \in Seq(Event) /\ Len(Tail(s)) = Len(s) - 1
  BY <1>1
<1>3. \A i \in 1..(Len(s) - 1) : Tail(s)[i] = s[i + 1]
  BY <1>1
<1>4. ASSUME Tail(s) # <<>> PROVE Tail(s)[Len(Tail(s))] = s[Len(s)]
  <2>1. Len(Tail(s)) > 0
    BY <1>2, <1>4
  <2>2. Len(s) - 1 \in 1..(Len(s) - 1)
    BY <1>1, <1>2, <2>1
  <2>3. Tail(s)[Len(s) - 1] = s[(Len(s) - 1) + 1]
    BY <1>3, <2>2
  <2>4. Len(Tail(s)) = Len(s) - 1 /\ (Len(s) - 1) + 1 = Len(s)
    BY <1>1, <1>2
  <2> QED
    BY <2>3, <2>4
<1>5. ASSUME Tail(s) = <<>> PROVE Head(s) = s[Len(s)]
  <2>1. \A t : t = <<>> => Len(t) = 0
    OBVIOUS
  <2>2. Len(s) - 1 = 0
    BY <1>2, <1>5, <2>1, Zenon
  <2>3. Len(s) = 1
    BY <1>1, <2>2
  <2> QED
    BY <1>1, <2>3
<1> QED
  BY <1>1, <1>2, <1>4, <1>5

LEMMA LastOfAppend ==
  ASSUME NEW s \in Seq(Event), NEW e \in Event
  PROVE  /\ Append(s, e) \in Seq(Event) /\ Append(s, e) # <<>>
         /\ Append(s, e)[Len(Append(s, e))] = e
OBVIOUS

LEMMA CableStep == GwInv /\ Cable => GwInv'
<1> SUFFICES ASSUME GwInv, Cable PROVE GwInv'
  OBVIOUS
<1>1. PortInv'
  BY DEF GwInv, PortInv, Cable, IsSameSubnet, BroadcastAllowed, linkVars, mainVars, flagVars, portVars
<1>2. CASE adminUp
  <2> DEFINE e == IF carrier THEN "IF_DOWN" ELSE "IF_UP"
  <2>1. events' = Append(events, e) /\ e \in Event /\ (e = "IF_UP" <=> oper')
    BY <1>2 DEF Cable, Event, oper, GwInv, EventInv
  <2>2. /\ events' \in Seq(Event) /\ events' # <<>>
        /\ events'[Len(events')] = e
    BY <2>1, LastOfAppend DEF GwInv, EventInv
  <2> QED
    BY <1>1, <1>2, <2>1, <2>2 DEF Cable, GwInv, EventInv, mainVars, flagVars, portVars
<1>3. CASE ~adminUp
  <2>1. events' = events /\ events = <<>> /\ ~oper /\ ~oper'
    BY <1>3 DEF Cable, GwInv, EventInv, oper
  <2> QED
    BY <1>1, <1>3, <2>1 DEF Cable, GwInv, EventInv, mainVars, flagVars, portVars
<1> QED
  BY <1>2, <1>3 DEF GwInv, EventInv

LEMMA BeginStep == GwInv /\ net_init => GwInv'
<1> SUFFICES ASSUME GwInv, net_init PROVE GwInv'
  OBVIOUS
<1>1. ~adminUp /\ ~config_sock /\ rx.at = "unborn" /\ ~gw_net_link_up /\ ~dhcpStarted
  BY DEF net_init, GwInv, EventInv, PortInv
<1>2. PortInv'
  BY <1>1 DEF GwInv, PortInv, net_init, IsSameSubnet, BroadcastAllowed, flagVars, portVars
<1>3. UNCHANGED <<carrier, dhcpStarted, gw_net_link_up, config_sock, bindFailed>> /\ begun' /\ adminUp' \in BOOLEAN
  BY DEF net_init, flagVars, portVars
<1>4. CASE adminUp' /\ carrier
  <2>1. events' = <<"IF_UP">>
    BY <1>4 DEF net_init
  <2>2. events' \in Seq(Event) /\ events' # <<>> /\ events'[Len(events')] = "IF_UP"
    BY <2>1 DEF Event
  <2>3. oper'
    BY <1>3, <1>4 DEF oper
  <2> QED
    BY <1>2, <1>3, <1>4, <2>2, <2>3 DEF GwInv, EventInv
<1>5. CASE ~(adminUp' /\ carrier)
  <2>1. events' = <<>> /\ ~oper'
    BY <1>3, <1>5 DEF net_init, oper
  <2> QED
    BY <1>1, <1>2, <1>3, <2>1 DEF GwInv, EventInv
<1> QED
  BY <1>4, <1>5

LEMMA EventStep == GwInv /\ EventThread => GwInv'
<1> SUFFICES ASSUME GwInv, EventThread PROVE GwInv'
  OBVIOUS
<1>1. events' \in Seq(Event) /\ Head(events) \in Event /\ adminUp /\ begun
      /\ (events[Len(events)] = "IF_UP" <=> oper)
  BY LastOfTail DEF EventThread, GwInv, EventInv
<1>2. /\ events' # <<>> => events'[Len(events')] = events[Len(events)]
      /\ events' = <<>> => (Head(events) = "IF_UP" <=> oper)
  BY <1>1, LastOfTail DEF EventThread, GwInv, EventInv
<1>3. UNCHANGED <<begun, adminUp, carrier, addr, mode, answer>> /\ oper' = oper
  BY DEF EventThread, mainVars, oper
<1>4. /\ gw_net_link_up' = (Head(events) = "IF_UP")
      /\ dhcpStarted' = (dhcpStarted \/ (Head(events) = "IF_UP" /\ mode = "dhcp"))
  BY DEF EventThread, IfEvent
<1>5. PortInv' /\ config_sock' \in BOOLEAN /\ (Head(events) = "IF_UP" => config_sock' \/ bindFailed')
  <2>1. CASE UNCHANGED <<portVars, rx>> /\ (Head(events) = "IF_UP" => udp_fw_started)
    BY <1>1, <1>3, <2>1 DEF GwInv, EventInv, PortInv, IsSameSubnet, BroadcastAllowed, portVars
  <2>2. CASE /\ ~udp_fw_started /\ udp_fw_started' = TRUE
             /\ config_sock' = TRUE /\ bindFailed' = FALSE /\ rx' = Waiting
    BY <1>1, <1>3, <2>2 DEF GwInv, PortInv, Waiting, Unborn, BroadcastAllowed
  <2>3. CASE /\ ~udp_fw_started
             /\ config_sock' = FALSE /\ bindFailed' = TRUE /\ UNCHANGED <<udp_fw_started, rx>>
    BY <1>1, <1>3, <2>3 DEF GwInv, EventInv, PortInv, BroadcastAllowed, IsSameSubnet
  <2> QED
    BY <2>1, <2>2, <2>3 DEF EventThread, UdpFwStart
<1>6. gw_net_link_up' \in BOOLEAN /\ dhcpStarted' \in BOOLEAN
  BY <1>4 DEF GwInv, EventInv
<1>7. ASSUME events' = <<>>
      PROVE  (gw_net_link_up' <=> oper') /\ (oper' => (mode' = "dhcp" => dhcpStarted') /\ (config_sock' \/ bindFailed'))
  BY <1>2, <1>3, <1>4, <1>5, <1>7 DEF oper, GwInv, EventInv
<1> QED
  BY <1>1, <1>2, <1>3, <1>5, <1>6, <1>7 DEF GwInv, EventInv

(* Steps that the events have no part in. *)
LEMMA EventsStand ==
  ASSUME EventInv, UNCHANGED <<begun, adminUp, carrier, gw_net_link_up, dhcpStarted, config_sock,
                               bindFailed, events, mode>>
  PROVE  EventInv'
BY DEF EventInv, oper

LEMMA AnswerStep ==
  ASSUME PortInv, rx.at = "handle", UdpFwReply
  PROVE  BroadcastAllowed'
BY DEF PortInv, UdpFwReply, BroadcastAllowed, Allowed

LEMMA RxStep ==
  ASSUME GwInv, (\E cmd \in Command, from \in Subnet : Recvfrom(cmd, from)) \/ Checks \/ Answers
  PROVE  GwInv'
<1>1. EventInv'
  BY EventsStand DEF GwInv, Recvfrom, Checks, Answers, linkVars, mainVars, flagVars, portVars
<1>2. UNCHANGED <<begun, addr, udp_fw_started, config_sock, dhcpStarted, gw_net_link_up>>
  BY DEF Recvfrom, Checks, Answers, linkVars, mainVars, flagVars, portVars
<1>3. ASSUME NEW cmd \in Command, NEW from \in Subnet, Recvfrom(cmd, from)
      PROVE  GwInv'
  BY <1>1, <1>2, <1>3 DEF Recvfrom, GwInv, PortInv, BroadcastAllowed
<1>4. CASE Checks
  BY <1>1, <1>2, <1>4 DEF Checks, GwInv, PortInv, BroadcastAllowed, IsSameSubnet, Waiting, Unborn
<1>5. CASE Answers
  <2>1. BroadcastAllowed'
    BY <1>5, AnswerStep DEF Answers, GwInv
  <2> QED
    BY <1>1, <1>2, <1>5, <2>1 DEF Answers, GwInv, PortInv, Waiting, Unborn
<1> QED
  BY <1>3, <1>4, <1>5

LEMMA RebootStep == GwInv /\ Reboots => GwInv'
<1> SUFFICES ASSUME GwInv, Reboots PROVE GwInv'
  OBVIOUS
<1>1. BroadcastAllowed'
  BY AnswerStep DEF Reboots, GwInv
<1>2. PortInv'
  BY <1>1 DEF Reboots, GwInv, PortInv, Unborn
<1>3. events' = <<>> /\ events' \in Seq(Event) /\ ~oper'
  BY DEF Reboots, oper
<1> QED
  BY <1>2, <1>3 DEF Reboots, GwInv, EventInv

LEMMA LeaseStep == GwInv /\ DhcpAnswers => GwInv'
<1> SUFFICES ASSUME GwInv, DhcpAnswers PROVE GwInv'
  OBVIOUS
<1>1. EventInv'
  BY EventsStand DEF GwInv, DhcpAnswers, mainVars, flagVars, portVars
<1>2. rx'.at = rx.at /\ (rx.at = "handle" => rx'.moved)
  BY DEF DhcpAnswers, GwInv, PortInv
<1> QED
  BY <1>1, <1>2 DEF DhcpAnswers, GwInv, PortInv, BroadcastAllowed, flagVars, portVars

LEMMA GwStep == GwInv /\ [GwNetNext]_gwNetVars => GwInv'
<1> SUFFICES ASSUME GwInv, [GwNetNext]_gwNetVars PROVE GwInv'
  OBVIOUS
<1>1. CASE UNCHANGED gwNetVars
  BY <1>1, EventsStand DEF GwInv, PortInv, BroadcastAllowed, IsSameSubnet, gwNetVars, linkVars, mainVars, flagVars,
                           portVars
<1>2. CASE Runs
  <2>1. EventInv'
    BY <1>2, EventsStand DEF GwInv, Runs, linkVars, flagVars, portVars
  <2> QED
    BY <1>2, <2>1 DEF GwInv, PortInv, BroadcastAllowed, IsSameSubnet, Runs, linkVars, flagVars, portVars
<1> QED
  BY <1>1, <1>2, CableStep, LeaseStep, BeginStep, EventStep, RxStep, RebootStep, GwNetAssumption DEF GwNetNext

LEMMA GwBegins == GwNetInit => GwInv
<1> SUFFICES ASSUME GwNetInit PROVE GwInv
  OBVIOUS
<1>1. events = <<>> /\ events \in Seq(Event) /\ ~oper
  BY DEF GwNetInit, oper
<1>2. PortInv
  BY DEF GwNetInit, PortInv, Unborn, NoAnswer, BroadcastAllowed
<1> QED
  BY <1>1, <1>2 DEF GwInv, EventInv, GwNetInit

LEMMA GwSafe == GwInv => Reachable
<1> SUFFICES ASSUME GwInv PROVE Reachable
  OBVIOUS
<1>1. oper \in BOOLEAN
  BY DEF oper
<1>2. LinkTold
  BY <1>1 DEF LinkTold, GwInv, EventInv
<1> QED
  BY <1>2 DEF GwInv, EventInv, PortInv, Reachable, PortOpen

(* The gateway's link flag, DHCP client and configuration port follow the  *)
(* interface through every order of cable, lease and restart, and only an  *)
(* allowed command is answered by broadcast unless the address changed     *)
(* under it (main.c:46, udp_fw_upgrade.c:195, :499), for any queue.        *)
THEOREM ReachableCorrect == GwNetSpec => []Reachable
BY GwSafe, GwBegins, GwStep, PTL DEF GwNetSpec

(* UpgradeSpec runs one application at a time. *)
THEOREM ComesUpCorrect == UpgradeSpec => []ComesUp
<1>1. UpgradeInit => StartInv /\ GwInv
  BY StartBegins, GwBegins DEF UpgradeInit
<1>2. StartInv /\ GwInv /\ [UpgradeNext]_<<app, vars, sdoVars, apVars, startVars, gwNetVars>>
      => StartInv' /\ GwInv'
  <2>1. [UpgradeNext]_<<app, vars, sdoVars, apVars, startVars, gwNetVars>>
        => [StartNext]_startVars /\ [GwNetNext]_gwNetVars
    BY DEF UpgradeNext
  <2> QED
    BY <2>1, StartStep, GwStep
<1>3. StartInv /\ GwInv => ComesUp
  BY StartSafe, GwSafe DEF ComesUp
<1> QED
  BY <1>1, <1>2, <1>3, PTL DEF UpgradeSpec

-----------------------------------------------------------------------------
(* apollo-v2's web page: what is taken as complete is whole (ApolloWeb).   *)

File == FontFile \cup FwFile
Frame ==
  [kind : {"fw_start", "fw_end", "font_start", "font_end", "binary"}, w : Click, block : Nat]
FlowType ==
  [pc : {"idle", "wait", "send"}, file : File \cup {NoFile}, sent : Nat, progress : BOOLEAN]

FtType ==
  [phase : {"IDLE", "ERASE", "DATA"}, w : Nat, off : Nat, erase_off : Nat, failed : BOOLEAN]
FwType == [active : BOOLEAN, w : Nat, data : Seq(File \X Nat), failed : BOOLEAN]
PartOf == [1..FontMax -> {Blank, Smudged} \cup (File \X Nat)]
InstallType ==
  [pc : {"idle", "erase", "write"}, file : File \cup {NoFile}, off : Nat, have : Nat]
InstalledType == [file : File \cup {NoFile}, live : BOOLEAN]

PageType ==
  /\ clicks \in 0..MaxClicks /\ flow \in [Click -> FlowType]
  /\ page_ws \in {"open", "closed"} /\ wire \in Seq(Frame)
ThreadType ==
  /\ ws_slot \in {"free", "open", "lost"} /\ ws_at \in {"recv", "tail"}
  /\ ft \in FtType /\ fw_up \in FwType
PartType ==
  /\ font_part \in PartOf /\ install \in InstallType /\ installed \in InstalledType
  /\ mixed \subseteq Nat

(* Each flow of the page sends its frames in order: the start, the blocks, *)
(* the end.  Turn says which of them a frame is.                           *)
Size(w) == Blocks[flow[w].file]
Turn(m) ==
  IF m.kind = "binary" THEN m.block + 1
  ELSE IF m.kind \in {"fw_start", "font_start"} THEN 1 ELSE Size(m.w) + 2
Unsent(w, n) ==
  \/ flow[w].pc = "wait" /\ n > 1
  \/ flow[w].pc = "send" /\ n > flow[w].sent + 1
UnderWay(w, n) == \E i \in DOMAIN wire : wire[i].w = w /\ Turn(wire[i]) = n
Coming(w, n) == Unsent(w, n) \/ UnderWay(w, n)

FlowInv ==
  \A w \in Click :
    /\ w > clicks => flow[w] = NoFlow
    /\ w <= clicks => flow[w].file \in File /\ flow[w].sent <= Size(w)
    /\ flow[w].pc = "wait" => flow[w].file \in FontFile /\ flow[w].sent = 0 /\ page_ws = "open"
    /\ flow[w].pc = "send" /\ flow[w].file \in FontFile => flow[w].progress

(* A frame is one of its flow's, and it has been sent.                     *)
FrameOK(m) ==
  /\ m.w \in 1..clicks
  /\ m.kind \in {"font_start", "font_end"} => flow[m.w].file \in FontFile
  /\ m.kind \in {"fw_start", "fw_end"} => flow[m.w].file \notin FontFile
  /\ m.kind = "binary" => m.block \in 1..Size(m.w)
  /\ ~Unsent(m.w, Turn(m))
  /\ flow[m.w].file \in FontFile /\ Turn(m) > 1 => flow[m.w].progress
WireFrames == \A i \in 1..Len(wire) : FrameOK(wire[i])
WireOrder ==
  \A i, j \in 1..Len(wire) : i < j /\ wire[i].w = wire[j].w => Turn(wire[i]) < Turn(wire[j])
(* While the connection lives, nothing is missing behind what is to come.  *)
WireComes ==
  page_ws = "open" =>
    \A w \in 1..clicks : \A n \in 1..(Size(w) + 1) : Coming(w, n) => Coming(w, n + 1)
WireInv == FlowInv /\ WireFrames /\ WireOrder /\ WireComes

ConnInv ==
  /\ page_ws = "open" <=> ws_slot = "open"
  /\ ws_slot = "free" => wire = <<>> /\ ft = FtIdle /\ fw_up = FwIdle

(* A font that is being erased is one whose flow has a block to come: the  *)
(* thread erases a sector after every frame.                               *)
FtInv ==
  /\ ft.phase # "IDLE" => ft.w \in 1..clicks /\ flow[ft.w].file \in FontFile
  /\ ft.phase = "ERASE" => ft.erase_off < Size(ft.w) /\ ft.off = 0 /\ ~ft.failed
  /\ ft.phase = "DATA" => ft.off <= Size(ft.w)
  /\ ft.phase = "ERASE" /\ page_ws = "open" =>
       Coming(ft.w, ft.erase_off + (IF ws_at = "tail" THEN 2 ELSE 1))

MixInv ==
  /\ \A v \in Click : \A w \in Click : v # w /\ Busy(v) /\ Busy(w) => v \in mixed
  /\ install.pc # "idle" => \A w \in Click : Busy(w) => w \in mixed /\ 0 \in mixed
  /\ install.pc # "idle" /\ ft.phase # "IDLE" => 0 \in mixed

(* The flow that is alone: what the device got of it is its first k frames *)
(* and the next is under way or ahead.                                     *)
Line(w, k) ==
  /\ \A j \in 1..Len(wire) : wire[j].w = w /\ Turn(wire[j]) = k + j
  /\ page_ws = "open" =>
       k + Len(wire) = (IF flow[w].pc = "wait" THEN 1
                        ELSE IF flow[w].pc = "send" THEN flow[w].sent + 1 ELSE Size(w) + 2)

FwGot(w, k) ==
  k > 0 /\ fw_up.active =>
    /\ fw_up.w = w
    /\ ~fw_up.failed => Len(fw_up.data) < k
    /\ ~fw_up.failed /\ Len(fw_up.data) + 1 = k =>
         \A i \in 1..Len(fw_up.data) : fw_up.data[i] = <<flow[w].file, i>>

Filled(f, n) ==
  /\ \A i \in 1..n : font_part[i] = <<f, i>>
  /\ \A i \in (n + 1)..Blocks[f] : font_part[i] = Blank

FtGot(w, k) ==
  /\ flow[w].progress => k > 0 /\ (ft.phase = "IDLE" \/ ft.w = w)
  /\ ft.phase = "ERASE" /\ ft.w = w =>
       /\ k = 1 /\ wire = <<>> /\ flow[w].pc # "send"
       /\ \A i \in 1..ft.erase_off : font_part[i] = Blank
  /\ ft.phase = "DATA" /\ ft.w = w =>
       /\ k > 0 /\ Filled(flow[w].file, ft.off)
       /\ IF ft.failed THEN ft.off < Size(w) ELSE k = ft.off + 1

Reached(w, k) == Line(w, k) /\ (IF flow[w].file \in FontFile THEN FtGot(w, k) ELSE FwGot(w, k))

AloneInv ==
  \A w \in Click : Busy(w) /\ w \notin mixed =>
    /\ ft.phase = "ERASE" => ft.w = w
    /\ \E k \in Nat : Reached(w, k)

InstallInv ==
  install.pc # "idle" =>
    /\ install.file \in FontFile
    /\ install.pc = "erase" => install.off < Blocks[install.file]
    /\ install.pc = "write" => install.off <= Blocks[install.file]

KeptInv ==
  /\ installed.file # NoFile => installed.file \in File /\ ft.phase # "DATA" /\ install.pc # "write"
  /\ WholeOnly

ApTypeOK == PageType /\ ThreadType /\ PartType
ApInv == ApTypeOK /\ WireInv /\ ConnInv /\ FtInv /\ MixInv /\ AloneInv /\ InstallInv /\ KeptInv

LEMMA BlocksNat ==
  /\ \A f \in File : Blocks[f] \in Nat /\ Blocks[f] > 0
  /\ \A f \in FontFile : Blocks[f] <= FontMax
  /\ FontMax \in Nat /\ MaxClicks \in Nat
BY BlocksAssumption DEF File

(* The length of a flow that has begun.                                    *)
LEMMA SizeNat ==
  ASSUME PageType, FlowInv, NEW w \in 1..clicks
  PROVE  /\ w \in Click /\ flow[w] \in FlowType /\ flow[w].file \in File
         /\ Size(w) \in Nat /\ Size(w) > 0 /\ flow[w].sent \in Nat /\ flow[w].sent <= Size(w)
BY BlocksNat DEF PageType, FlowInv, FlowType, Size, Click, File

LEMMA WireType ==
  ASSUME PageType
  PROVE  /\ Len(wire) \in Nat /\ DOMAIN wire = 1..Len(wire)
         /\ \A i \in 1..Len(wire) : wire[i] \in Frame
BY DEF PageType

LEMMA PageStepType ==
  ASSUME PageType, WireInv, ThreadType, ApNext
  PROVE  PageType'
<1>1. ASSUME NEW f \in FontFile \cup FwFile, Clicked(f) PROVE PageType'
  <2>1. clicks + 1 \in Click /\ clicks' = clicks + 1 /\ clicks' \in 0..MaxClicks
    BY <1>1, BlocksNat DEF Clicked, PageType, Click
  <2>2. flow' \in [Click -> FlowType]
    BY <1>1, <2>1 DEF Clicked, PageType, FlowType, NoFlow, File
  <2>3. wire' \in Seq(Frame)
    BY <1>1, <2>1 DEF Clicked, Send, PageType, Frame
  <2> QED
    BY <1>1, <2>1, <2>2, <2>3 DEF Clicked, PageType
<1>2. ASSUME NEW w \in Click, Sends(w) PROVE PageType'
  <2>1. flow[w].sent \in Nat /\ flow[w].sent + 1 \in Nat
    BY DEF PageType, FlowType
  <2>2. flow' \in [Click -> FlowType]
    BY <1>2, <2>1, SMTT(30) DEF Sends, PageType, FlowType
  <2>3. PICK k \in {"binary", "font_end", "fw_end"}, i \in Nat : Send(k, w, i)
    BY <1>2, <2>1 DEF Sends
  <2>4. [kind |-> k, w |-> w, block |-> i] \in Frame
    BY DEF Frame
  <2>5. wire' \in Seq(Frame)
    BY <2>3, <2>4 DEF Send, PageType
  <2> QED
    BY <1>2, <2>2, <2>5 DEF Sends, PageType
<1>3. ASSUME NEW w \in Click, Throws(w) PROVE PageType'
  BY <1>3 DEF Throws, PageType, FlowType
<1>4. Unheard \in [Click -> FlowType]
  BY DEF Unheard, PageType, FlowType
<1>5. CASE Breaks
  <2>1. PICK n \in 0..Len(wire) : wire' = SubSeq(wire, 1, n)
    BY <1>5 DEF Breaks
  <2>2. wire' \in Seq(Frame)
    <3>1. Len(wire) \in Nat /\ \A i \in 1..n : wire[i] \in Frame
      BY WireType
    <3> QED
      BY <2>1, <3>1, SubSeqProperties
  <2> QED
    BY <1>4, <1>5, <2>2 DEF Breaks, PageType
<1>6. CASE Reloads
  BY <1>6 DEF Reloads, PageType, FlowType
<1>7. CASE Connects
  BY <1>7 DEF Connects, PageType
<1>8. CASE Receives
  <2>1. wire' = wire \/ (wire # <<>> /\ wire' = Tail(wire))
    BY <1>8 DEF Receives
  <2>2. wire' \in Seq(Frame)
    BY <2>1, HeadTailProperties DEF PageType
  <2> QED
    BY <1>8, <2>2 DEF Receives, PageType, pageVars
<1>9. CASE Tails
  <2>1. Told \in [Click -> FlowType]
    BY DEF Told, PageType, FlowType
  <2> QED
    BY <1>9, <2>1 DEF Tails, PageType
<1>10. CASE Ends
  BY <1>10 DEF Ends, PageType, pageVars
<1>11. CASE Restarts
  BY <1>4, <1>11 DEF Restarts, PageType
<1>12. CASE GlyphRead
  BY <1>12 DEF GlyphRead, PageType, pageVars
<1>13. ASSUME UNCHANGED <<pageVars, wire>> PROVE PageType'
  BY <1>13 DEF PageType, pageVars
<1> QED
  BY <1>1, <1>2, <1>3, <1>5, <1>6, <1>7, <1>8, <1>9, <1>10, <1>11, <1>12, <1>13
     DEF ApNext, InstallBegins, InstallErases, InstallWrites, InstallEnds, ShellOnly

(* What a frame does, one kind at a time.                                  *)
FrameTaken(m, ok) ==
  \/ m.kind = "fw_start" /\ FwStart(m.w, ok)
  \/ m.kind = "fw_end" /\ FwEnd(m.w, ok)
  \/ m.kind = "font_start" /\ FontStart(m.w, ok)
  \/ m.kind = "font_end" /\ FontEnd(m.w)
  \/ m.kind = "binary" /\ Binary(<<flow[m.w].file, m.block>>, ok)

Deaf ==
  /\ ft.phase = "ERASE" \/ \E w \in Click : flow[w].pc = "wait"
  /\ UNCHANGED <<wire, ft, fw_up, font_part, installed, asked>>

LEMMA ReceivesIs ==
  ASSUME PageType, Receives
  PROVE  /\ ws_slot # "free" /\ ws_at = "recv" /\ ws_at' = "tail"
         /\ UNCHANGED <<pageVars, ws_slot, font_ok, install, mixed>>
         /\ \/ Deaf
            \/ /\ wire # <<>> /\ wire' = Tail(wire) /\ Head(wire) = wire[1] /\ Len(wire) > 0
               /\ wire[1] \in Frame
               /\ \E ok \in BOOLEAN : FrameTaken(wire[1], ok)
<1>1. CASE Deaf
  BY <1>1 DEF Receives
<1>2. CASE ~Deaf
  <2>1. wire # <<>> /\ wire' = Tail(wire)
    BY <1>2 DEF Receives, Deaf
  <2>2. Head(wire) = wire[1] /\ Len(wire) > 0 /\ wire[1] \in Frame
    BY <2>1, EmptySeq, LenProperties DEF PageType
  <2> DEFINE m == wire[1]
  <2>3. PICK ok \in BOOLEAN :
             CASE m.kind = "fw_start" -> FwStart(m.w, ok)
               [] m.kind = "fw_end" -> FwEnd(m.w, ok)
               [] m.kind = "font_start" -> FontStart(m.w, ok)
               [] m.kind = "font_end" -> FontEnd(m.w)
               [] m.kind = "binary" -> Binary(<<flow[m.w].file, m.block>>, ok)
    BY <1>2, <2>2 DEF Receives, Deaf
  <2>4. m.kind \in {"fw_start", "fw_end", "font_start", "font_end", "binary"}
    BY <2>2 DEF Frame
  <2>5. FrameTaken(m, ok)
    BY <2>3, <2>4 DEF FrameTaken
  <2> QED
    BY <2>1, <2>2, <2>5 DEF Receives
<1> QED
  BY <1>1, <1>2

LEMMA FtChanges ==
  /\ FtIdle \in FtType
  /\ \A f \in FtType :
       /\ [f EXCEPT !.off = @ + 1] \in FtType
       /\ [f EXCEPT !.failed = TRUE] \in FtType
       /\ [f EXCEPT !.erase_off = @ + 1] \in FtType
       /\ [f EXCEPT !.phase = "DATA", !.erase_off = @ + 1] \in FtType
  /\ \A w \in Nat : [FtIdle EXCEPT !.phase = "ERASE", !.w = w] \in FtType
<1>1. FtIdle \in FtType /\ \A w \in Nat : [FtIdle EXCEPT !.phase = "ERASE", !.w = w] \in FtType
  BY DEF FtIdle, FtType
<1>2. ASSUME NEW f \in FtType
      PROVE  /\ [f EXCEPT !.off = @ + 1] \in FtType
             /\ [f EXCEPT !.failed = TRUE] \in FtType
  <2>1. f.off + 1 \in Nat
    BY DEF FtType
  <2>2. [f EXCEPT !.off = f.off + 1] \in FtType
    BY <2>1 DEF FtType
  <2>3. [f EXCEPT !.failed = TRUE] \in FtType
    BY DEF FtType
  <2> QED
    BY <2>2, <2>3
<1>3. ASSUME NEW f \in FtType
      PROVE  /\ [f EXCEPT !.erase_off = @ + 1] \in FtType
             /\ [f EXCEPT !.phase = "DATA", !.erase_off = @ + 1] \in FtType
  <2>1. f.erase_off + 1 \in Nat
    BY DEF FtType
  <2>2. [f EXCEPT !.erase_off = f.erase_off + 1] \in FtType
    BY <2>1 DEF FtType
  <2>3. [f EXCEPT !.phase = "DATA", !.erase_off = f.erase_off + 1] \in FtType
    BY <2>1 DEF FtType
  <2> QED
    BY <2>2, <2>3
<1> QED
  BY <1>1, <1>2, <1>3

LEMMA FwChanges ==
  /\ FwIdle \in FwType
  /\ \A w \in Nat : [FwIdle EXCEPT !.active = TRUE, !.w = w] \in FwType
  /\ \A f \in FwType : [f EXCEPT !.failed = TRUE] \in FwType
  /\ \A f \in FwType : \A c \in File \X Nat : [f EXCEPT !.data = Append(@, c)] \in FwType
<1>1. <<>> \in Seq(File \X Nat)
  BY EmptySeq
<1>2. \A s \in Seq(File \X Nat) : \A c \in File \X Nat : Append(s, c) \in Seq(File \X Nat)
  BY AppendProperties
<1> QED
  BY <1>1, <1>2 DEF FwIdle, FwType

LEMMA ThreadStepType ==
  ASSUME PageType, WireInv, ThreadType, ApNext
  PROVE  ThreadType'
<1>1. CASE Receives
  <2>1. CASE Deaf
    BY <1>1, <2>1, ReceivesIs DEF Deaf, ThreadType
  <2>2. CASE ~Deaf
    <3>1. PICK ok \in BOOLEAN : wire[1] \in Frame /\ Len(wire) > 0 /\ FrameTaken(wire[1], ok)
      BY <1>1, <2>2, ReceivesIs
    <3> DEFINE m == wire[1]
               blk == <<flow[m.w].file, m.block>>
    <3>2. m.w \in Click /\ m.w \in Nat /\ m.block \in Nat /\ FrameOK(m)
      BY <3>1, WireType DEF Frame, Click, WireInv, WireFrames
    <3>3. blk \in File \X Nat
      BY <3>2, SizeNat DEF WireInv, FrameOK
    <3> HIDE DEF blk
    <3>4. ft' \in FtType
      <4>1. CASE UNCHANGED ft
        BY <4>1 DEF ThreadType
      <4>2. CASE FontStart(m.w, ok) \/ FontEnd(m.w)
        BY FtChanges, <3>2, <4>2 DEF FontStart, FontEnd, ThreadType
      <4>3. CASE Binary(blk, ok)
        <5>1. \/ UNCHANGED ft
              \/ ft' = [ft EXCEPT !.off = @ + 1]
              \/ ft' = [ft EXCEPT !.failed = TRUE]
          BY <4>3 DEF Binary
        <5> QED
          BY <5>1, FtChanges DEF ThreadType
      <4> QED
        BY <3>1, <4>1, <4>2, <4>3 DEF FrameTaken, FwStart, FwEnd, blk
    <3>5. fw_up' \in FwType
      <4>1. CASE UNCHANGED fw_up
        BY <4>1 DEF ThreadType
      <4>2. CASE FwStart(m.w, ok) \/ FwEnd(m.w, ok)
        BY FwChanges, <3>2, <4>2 DEF FwStart, FwEnd
      <4>3. CASE Binary(blk, ok)
        BY <3>3, <4>3, FwChanges DEF Binary, ThreadType
      <4> QED
        BY <3>1, <4>1, <4>2, <4>3 DEF FrameTaken, FontStart, FontEnd, blk
    <3> QED
      BY <1>1, <3>4, <3>5, ReceivesIs DEF ThreadType
  <2> QED
    BY <2>1, <2>2
<1>2. CASE Tails
  <2>1. \/ UNCHANGED ft \/ ft' = FtIdle
        \/ ft' = [ft EXCEPT !.phase = "DATA", !.erase_off = @ + 1]
        \/ ft' = [ft EXCEPT !.erase_off = @ + 1]
    BY <1>2 DEF Tails, Erases
  <2>2. ft' \in FtType
    BY FtChanges, <2>1 DEF ThreadType
  <2> QED
    BY <1>2, <2>2 DEF Tails, ThreadType
<1>3. CASE Ends \/ Restarts
  BY FtChanges, FwChanges, <1>3 DEF Ends, Restarts, ThreadType
<1>4. CASE Breaks \/ Reloads \/ Connects
  BY <1>4 DEF Breaks, Reloads, Connects, ThreadType
<1>5. ASSUME UNCHANGED <<ws_slot, ws_at, ft, fw_up>> PROVE ThreadType'
  BY <1>5 DEF ThreadType
<1> QED
  BY <1>1, <1>2, <1>3, <1>4, <1>5
     DEF ApNext, Clicked, Sends, Throws, DeviceStands, InstallBegins, InstallErases, InstallWrites, InstallEnds, ShellOnly, GlyphRead

LEMMA ProgrammedType ==
  ASSUME PartType, NEW i, NEW blk \in File \X Nat
  PROVE  Programmed(font_part, i, blk) \in PartOf
BY DEF Programmed, PartType, PartOf

LEMMA PartStepType ==
  ASSUME ApTypeOK, WireInv, InstallInv, ApNext
  PROVE  PartType'
<1>01. \A i : [font_part EXCEPT ![i] = Blank] \in PartOf
  BY DEF ApTypeOK, PartType, PartOf
<1>0. /\ \A f \in File \cup {NoFile} : [file |-> f, live |-> FALSE] \in InstalledType
      /\ [installed EXCEPT !.live = TRUE] \in InstalledType
      /\ NoInstall \in InstallType
  BY DEF ApTypeOK, PartType, NoInstall, InstalledType, InstallType
<1>1. CASE Receives
  <2>1. CASE Deaf
    BY <1>1, <2>1, ReceivesIs DEF Deaf, PartType, ApTypeOK
  <2>2. CASE ~Deaf
    <3>1. PICK ok \in BOOLEAN : wire[1] \in Frame /\ Len(wire) > 0 /\ FrameTaken(wire[1], ok)
      BY <1>1, <2>2, ReceivesIs DEF ApTypeOK
    <3> DEFINE m == wire[1]
               blk == <<flow[m.w].file, m.block>>
    <3>2. m.block \in Nat /\ FrameOK(m) /\ flow[m.w].file \in File
      BY <3>1, WireType, SizeNat DEF Frame, WireInv, WireFrames, FrameOK, ApTypeOK
    <3>3. blk \in File \X Nat
      BY <3>2
    <3> HIDE DEF blk
    <3>4. font_part' \in PartOf
      <4>1. UNCHANGED font_part \/ font_part' = Programmed(font_part, ft.off + 1, blk)
        BY <3>1 DEF FrameTaken, FwStart, FwEnd, FontStart, FontEnd, Binary, blk
      <4> QED
        BY <3>3, <4>1, ProgrammedType DEF ApTypeOK, PartType
    <3>5. installed' \in InstalledType
      <4>1. \/ UNCHANGED installed
            \/ \E f \in File \cup {NoFile} : installed' = [file |-> f, live |-> FALSE]
        BY <3>1, <3>2 DEF FrameTaken, FwStart, FwEnd, FontStart, FontEnd, Binary
      <4> QED
        BY <1>0, <4>1 DEF ApTypeOK, PartType
    <3> QED
      BY <1>1, <3>4, <3>5, ReceivesIs DEF ApTypeOK, PartType
  <2> QED
    BY <2>1, <2>2
<1>2. CASE Tails
  BY <1>0, <1>01, <1>2 DEF Tails, Erases, ApTypeOK, PartType
<1>3. ASSUME NEW f \in FontFile, NEW n \in 1..(Blocks[f] + 1), InstallBegins(f, n) PROVE PartType'
  <2>1. n \in Nat /\ f \in File
    BY BlocksNat DEF File
  <2>2. mixed' \subseteq Nat
    <3>1. ft.w \in Nat /\ Click \subseteq Nat
      BY DEF ApTypeOK, ThreadType, FtType, Click
    <3>2. mixed \subseteq Nat
      BY DEF ApTypeOK, PartType
    <3>3. PICK S \in SUBSET Nat : mixed' = mixed \ {0} \/ mixed' = mixed \cup S \cup {0}
      <4>1. {w \in Click : Busy(w)} \cup (IF ft.phase # "IDLE" THEN {ft.w} ELSE {}) \in SUBSET Nat
        BY <3>1
      <4> QED
        BY <1>3, <4>1 DEF InstallBegins, Begins
    <3>4. mixed \ {0} \subseteq Nat /\ mixed \cup S \cup {0} \subseteq Nat
      BY <3>2
    <3> QED
      BY <3>3, <3>4
  <2> QED
    BY <1>3, <2>1, <2>2 DEF InstallBegins, ApTypeOK, PartType, InstallType
<1>4. CASE InstallErases
  <2>1. \/ install' = [install EXCEPT !.pc = "write", !.off = 0]
        \/ install' = [install EXCEPT !.off = @ + 1]
    BY <1>4 DEF InstallErases
  <2> DEFINE n == install.off + 1
  <2>0. install \in InstallType /\ n \in Nat
    BY DEF ApTypeOK, PartType, InstallType
  <2> HIDE DEF n
  <2>a. [install EXCEPT !.off = n] \in InstallType
    BY <2>0 DEF InstallType
  <2>b. [install EXCEPT !.pc = "write", !.off = 0] \in InstallType
    BY <2>0 DEF InstallType
  <2>2. install' \in InstallType
    BY <2>1, <2>a, <2>b DEF n
  <2>3. font_part' \in PartOf /\ installed' \in InstalledType /\ mixed' \subseteq Nat
    BY <1>0, <1>01, <1>4 DEF InstallErases, ApTypeOK, PartType
  <2> QED
    BY <2>2, <2>3 DEF PartType
<1>5. CASE InstallWrites
  <2>1. font_part' \in PartOf
    BY <1>5 DEF InstallWrites, ApTypeOK, PartType, PartOf
  <2>2. install.off + 1 \in Nat
    BY DEF ApTypeOK, PartType, InstallType
  <2>3. install' \in InstallType
    BY <1>5, <2>2 DEF InstallWrites, ApTypeOK, PartType, InstallType
  <2> QED
    BY <1>5, <2>1, <2>3 DEF InstallWrites, ApTypeOK, PartType
<1>6. CASE InstallEnds
  BY <1>0, <1>6 DEF InstallEnds, ApTypeOK, PartType, InstallType
<1>7. CASE Restarts
  BY <1>0, <1>7 DEF Restarts, ApTypeOK, PartType
<1>8. ASSUME NEW f \in FontFile \cup FwFile, Clicked(f) PROVE PartType'
  <2>1. clicks + 1 \in Nat /\ Click \subseteq Nat
    BY DEF ApTypeOK, PageType, Click
  <2>2. mixed' \subseteq Nat
    BY <1>8, <2>1 DEF Clicked, Begins, Writers, ApTypeOK, PartType
  <2> QED
    BY <1>8, <2>2 DEF Clicked, DeviceStands, ApTypeOK, PartType
<1>9. ASSUME UNCHANGED <<font_part, install, installed, mixed>> PROVE PartType'
  BY <1>9 DEF ApTypeOK, PartType
<1> QED
  BY <1>1, <1>2, <1>3, <1>4, <1>5, <1>6, <1>7, <1>8, <1>9
     DEF ApNext, Sends, Throws, DeviceStands, Breaks, Reloads, Connects, Ends, GlyphRead

(* The frames that are on the wire after a step that only loses or takes   *)
(* frames: a part of the wire from one place to another.                   *)
Kept(m, n) ==
  /\ m \in Nat /\ n \in Nat /\ m + n <= Len(wire)
  /\ Len(wire') = n
  /\ \A i \in 1..n : wire'[i] = wire[m + i]

LEMMA TailKept ==
  ASSUME PageType, wire # <<>>, wire' = Tail(wire)
  PROVE  Kept(1, Len(wire) - 1) /\ Len(wire) > 0
BY HeadTailProperties, EmptySeq DEF PageType, Kept

LEMMA PrefixKept ==
  ASSUME PageType, NEW n \in 0..Len(wire), wire' = SubSeq(wire, 1, n)
  PROVE  Kept(0, n)
<1>1. Len(wire) \in Nat /\ n \in Nat /\ n <= Len(wire) /\ \A i \in 1..n : wire[i] \in Frame
  BY WireType
<1>2. /\ Len(wire') = IF 1 <= n THEN n - 1 + 1 ELSE 0
      /\ \A i \in 1..(n - 1 + 1) : wire'[i] = wire[1 + i - 1]
  BY <1>1, SubSeqProperties
<1> QED
  BY <1>1, <1>2 DEF Kept

LEMMA NothingKept ==
  ASSUME PageType, wire' = <<>>
  PROVE  Kept(0, 0)
BY WireType, EmptySeq DEF Kept

(* A flow goes on as Shrinks says when it has the same file and no more to *)
(* send.                                                                   *)
Shrinks ==
  \A w \in 1..clicks :
    /\ flow'[w].file = flow[w].file
    /\ \A n \in Nat : Unsent(w, n)' => Unsent(w, n)
    /\ flow[w].progress => flow'[w].progress

LEMMA TurnNat ==
  ASSUME PageType, FlowInv, NEW x \in Frame, FrameOK(x)
  PROVE  Turn(x) \in Nat /\ Turn(x) > 0 /\ Turn(x) <= Size(x.w) + 2
BY SizeNat DEF Turn, FrameOK, Frame

LEMMA FrameStays ==
  ASSUME PageType, FlowInv, Shrinks, clicks' \in Nat, clicks <= clicks',
         NEW x \in Frame, FrameOK(x)
  PROVE  FrameOK(x)' /\ Turn(x)' = Turn(x)
<1>1. x.w \in 1..clicks /\ x.w \in 1..clicks' /\ Turn(x) \in Nat
  BY SizeNat, TurnNat DEF FrameOK, PageType
<1>2. flow'[x.w].file = flow[x.w].file
  BY <1>1 DEF Shrinks
<1>3. Turn(x)' = Turn(x)
  BY <1>2 DEF Turn, Size
<1>4. ~Unsent(x.w, Turn(x))'
  <2>1. ~Unsent(x.w, Turn(x))
    BY DEF FrameOK
  <2> DEFINE t == Turn(x)
  <2>2. PICK n \in Nat : n = Turn(x)
    BY <1>1
  <2>3. ~Unsent(x.w, n)'
    BY <1>1, <2>1, <2>2 DEF Shrinks
  <2>4. Turn(x)' = n
    BY <1>3, <2>2
  <2> QED
    BY <2>3, <2>4 DEF Unsent
<1> QED
  BY <1>1, <1>2, <1>3, <1>4 DEF FrameOK, Size, Shrinks

LEMMA FramesKept ==
  ASSUME PageType, FlowInv, WireFrames, WireOrder, Shrinks, clicks' = clicks,
         NEW m, NEW n, Kept(m, n)
  PROVE  WireFrames' /\ WireOrder'
<1>1. Len(wire) \in Nat /\ m \in Nat /\ n \in Nat /\ Len(wire') = n
      /\ clicks \in Nat /\ clicks' \in Nat /\ clicks <= clicks'
  BY WireType DEF Kept, PageType
<1>2. ASSUME NEW i \in 1..n
      PROVE  /\ wire'[i] = wire[m + i] /\ m + i \in 1..Len(wire) /\ wire[m + i] \in Frame
             /\ Turn(wire[i])' = Turn(wire[m + i]) /\ FrameOK(wire[i])'
  <2>1. wire'[i] = wire[m + i] /\ m + i \in 1..Len(wire)
    BY <1>1 DEF Kept
  <2>2. PICK x \in Frame : x = wire[m + i]
    BY <2>1, WireType
  <2>3. FrameOK(x)
    BY <2>1, <2>2 DEF WireFrames
  <2>4. FrameOK(x)' /\ Turn(x)' = Turn(x)
    BY <1>1, <2>3, FrameStays
  <2>5. Turn(wire[i])' = Turn(x)'
    BY <2>1, <2>2 DEF Turn, Size
  <2>6. FrameOK(wire[i])'
    BY <2>1, <2>2, <2>4 DEF FrameOK, Turn, Size, Unsent
  <2>7. Turn(wire[m + i]) = Turn(x)
    BY <2>2
  <2> QED
    BY <2>1, <2>2, <2>4, <2>5, <2>6, <2>7
<1>3. WireFrames'
  BY <1>1, <1>2 DEF WireFrames
<1>4. ASSUME NEW i \in 1..n, NEW j \in 1..n, i < j, wire'[i].w = wire'[j].w
      PROVE  Turn(wire[i])' < Turn(wire[j])'
  <2>1. m + i < m + j /\ wire[m + i].w = wire[m + j].w
    BY <1>1, <1>2, <1>4
  <2>2. Turn(wire[m + i]) < Turn(wire[m + j])
    BY <1>2, <2>1 DEF WireOrder
  <2> QED
    BY <1>2, <2>2
<1>5. WireOrder'
  BY <1>1, <1>4 DEF WireOrder
<1> QED
  BY <1>3, <1>5

LEMMA FramesAppended ==
  ASSUME PageType, FlowInv, WireFrames, WireOrder, Shrinks, clicks' \in Nat, clicks <= clicks',
         NEW x \in Frame, wire' = Append(wire, x), FrameOK(x)',
         \A i \in 1..Len(wire) : wire[i].w = x.w => Turn(wire[i]) < Turn(x)'
  PROVE  /\ WireFrames' /\ WireOrder'
         /\ \A v \in 1..clicks : \A n \in Nat :
              UnderWay(v, n)' <=> UnderWay(v, n) \/ (x.w = v /\ Turn(x)' = n)
<1>0. PICK l \in Nat : l = Len(wire)
  BY WireType
<1>1. /\ l \in Nat /\ Len(wire') = l + 1 /\ wire'[l + 1] = x
      /\ \A i \in 1..l : wire'[i] = wire[i]
      /\ DOMAIN wire = 1..l /\ DOMAIN wire' = 1..(l + 1)
  BY <1>0, AppendProperties, LenProperties DEF PageType
<1>2. Turn(wire[l + 1])' = Turn(x)' /\ FrameOK(wire[l + 1])'
  BY <1>1 DEF FrameOK, Turn, Size, Unsent
<1>3. ASSUME NEW i \in 1..l
      PROVE  wire'[i] = wire[i] /\ Turn(wire[i])' = Turn(wire[i]) /\ FrameOK(wire[i])'
  <2>1. PICK y \in Frame : y = wire[i]
    BY <1>0, WireType
  <2>2. wire'[i] = y /\ FrameOK(y)
    BY <1>0, <1>1, <2>1 DEF WireFrames
  <2>3. FrameOK(y)' /\ Turn(y)' = Turn(y)
    BY <2>2, FrameStays
  <2>4. FrameOK(wire[i])' /\ Turn(wire[i])' = Turn(y)'
    BY <2>2, <2>3 DEF FrameOK, Turn, Size, Unsent
  <2> QED
    BY <2>1, <2>2, <2>3, <2>4
<1>4. WireFrames'
  <2> SUFFICES ASSUME NEW i \in 1..(l + 1) PROVE FrameOK(wire[i])'
    BY <1>1 DEF WireFrames
  <2> QED
    BY <1>1, <1>2, <1>3
<1>5. WireOrder'
  <2> SUFFICES ASSUME NEW i \in 1..(l + 1), NEW j \in 1..(l + 1), i < j, wire'[i].w = wire'[j].w
               PROVE  Turn(wire[i])' < Turn(wire[j])'
    BY <1>1 DEF WireOrder
  <2>1. CASE j \in 1..l
    <3>1. i \in 1..l
      BY <1>1, <2>1
    <3> QED
      BY <1>0, <1>3, <2>1, <3>1 DEF WireOrder
  <2>2. CASE j = l + 1
    <3>1. i \in 1..l
      BY <1>1, <2>2
    <3> QED
      BY <1>0, <1>1, <1>2, <1>3, <2>2, <3>1
  <2> QED
    BY <1>1, <2>1, <2>2
<1>6. ASSUME NEW v \in 1..clicks, NEW n \in Nat
      PROVE  UnderWay(v, n)' <=> UnderWay(v, n) \/ (x.w = v /\ Turn(x)' = n)
  <2>1. UnderWay(v, n)' <=> \E i \in 1..(l + 1) : wire'[i].w = v /\ Turn(wire[i])' = n
    BY <1>1 DEF UnderWay
  <2>2. UnderWay(v, n) <=> \E i \in 1..l : wire[i].w = v /\ Turn(wire[i]) = n
    BY <1>1 DEF UnderWay
  <2>3. ASSUME NEW i \in 1..(l + 1), wire'[i].w = v, Turn(wire[i])' = n
        PROVE  UnderWay(v, n) \/ (x.w = v /\ Turn(x)' = n)
    BY <1>1, <1>2, <1>3, <2>2, <2>3
  <2>4. ASSUME NEW i \in 1..l, wire[i].w = v, Turn(wire[i]) = n
        PROVE  UnderWay(v, n)'
    BY <1>1, <1>3, <2>1, <2>4
  <2>5. ASSUME x.w = v, Turn(x)' = n PROVE UnderWay(v, n)'
    <3>1. l + 1 \in 1..(l + 1)
      BY <1>1
    <3> QED
      BY <1>1, <1>2, <2>1, <2>5, <3>1
  <2> QED
    BY <2>1, <2>2, <2>3, <2>4, <2>5
<1> QED
  BY <1>4, <1>5, <1>6

LEMMA UnsentOn ==
  ASSUME PageType, NEW w \in Click, NEW n \in Nat, Unsent(w, n)
  PROVE  Unsent(w, n + 1)
BY DEF Unsent, PageType, FlowType

(* A frame is taken from the wire: what comes after what was to come is    *)
(* still to come.                                                          *)
LEMMA ComesTaken ==
  ASSUME PageType, FlowInv, WireFrames, WireOrder, WireComes, UNCHANGED pageVars,
         NEW k, Kept(1, k), k + 1 = Len(wire),
         NEW w \in 1..clicks, NEW n \in Nat
  PROVE  /\ Coming(w, n)' => Coming(w, n)
         /\ page_ws = "open" /\ n \in 1..(Size(w) + 1) /\ Coming(w, n) => Coming(w, n + 1)'
<1>1. /\ Len(wire) \in Nat /\ k \in Nat /\ Len(wire') = k /\ flow' = flow
      /\ \A i \in 1..k : wire'[i] = wire[i + 1]
      /\ DOMAIN wire = 1..(k + 1)
  BY WireType DEF Kept, pageVars
<1>2. DOMAIN wire' = 1..k
  BY <1>1 DEF Kept
<1>3. \A i \in 1..k : Turn(wire[i])' = Turn(wire[i + 1])
  BY <1>1 DEF Turn, Size
<1>4. /\ UnderWay(w, n)' <=> \E i \in 1..k : wire[i + 1].w = w /\ Turn(wire[i + 1]) = n
      /\ UnderWay(w, n + 1)' <=> \E i \in 1..k : wire[i + 1].w = w /\ Turn(wire[i + 1]) = n + 1
  BY <1>1, <1>2, <1>3 DEF UnderWay
<1>5. Unsent(w, n)' <=> Unsent(w, n)
  BY <1>1 DEF Unsent
<1>6. Coming(w, n)' => Coming(w, n)
  <2>1. ASSUME NEW i \in 1..k, wire[i + 1].w = w, Turn(wire[i + 1]) = n
        PROVE  UnderWay(w, n)
    <3>1. i + 1 \in 1..(k + 1)
      BY <1>1
    <3> QED
      BY <1>1, <2>1, <3>1 DEF UnderWay
  <2> QED
    BY <1>4, <1>5, <2>1 DEF Coming
<1>7. ASSUME page_ws = "open", n \in 1..(Size(w) + 1), Coming(w, n)
      PROVE  Coming(w, n + 1)'
  <2>1. Coming(w, n + 1)
    BY <1>7 DEF WireComes
  <2>2. CASE Unsent(w, n + 1)
    BY <1>1, <2>2 DEF Coming, Unsent
  <2>3. CASE Unsent(w, n)
    BY <2>2, <2>3, UnsentOn, SizeNat
  <2>4. CASE UnderWay(w, n) /\ UnderWay(w, n + 1)
    <3>1. PICK i \in 1..(k + 1) : wire[i].w = w /\ Turn(wire[i]) = n
      BY <1>1, <2>4 DEF UnderWay
    <3>2. PICK j \in 1..(k + 1) : wire[j].w = w /\ Turn(wire[j]) = n + 1
      BY <1>1, <2>4 DEF UnderWay
    <3>3. j # 1
      <4> SUFFICES ASSUME j = 1 PROVE FALSE
        OBVIOUS
      <4>1. i # 1 /\ 1 < i /\ 1 \in 1..Len(wire) /\ i \in 1..Len(wire)
        BY <1>1, <3>1, <3>2
      <4>2. Turn(wire[1]) < Turn(wire[i])
        BY <3>1, <3>2, <4>1 DEF WireOrder
      <4> QED
        BY <3>1, <3>2, <4>2
    <3>4. j - 1 \in 1..k /\ (j - 1) + 1 = j
      BY <1>1, <3>3
    <3>5. UnderWay(w, n + 1)'
      BY <1>4, <3>2, <3>4
    <3> QED
      BY <3>5 DEF Coming
  <2> QED
    BY <1>7, <2>1, <2>2, <2>3, <2>4 DEF Coming
<1> QED
  BY <1>6, <1>7

LEMMA ClickedWire ==
  ASSUME PageType, WireInv, NEW f \in File, Clicked(f)
  PROVE  /\ WireInv'
         /\ \A v \in 1..clicks : flow'[v] = flow[v]
         /\ \A v \in 1..clicks : \A n \in Nat : Coming(v, n) => Coming(v, n)'
<1>1. PICK w \in Nat : w = clicks + 1
  BY DEF PageType
<1>2. PICK k \in {"font_start", "fw_start"} : k = IF f \in FontFile THEN "font_start" ELSE "fw_start"
  OBVIOUS
<1> DEFINE x == [kind |-> k, w |-> w, block |-> 0]
<1>3. /\ w \in Click /\ clicks' = w /\ clicks \in Nat /\ clicks < w /\ page_ws = "open" /\ page_ws' = "open"
      /\ flow[w].pc # "none" /\ Click \subseteq Nat /\ w \in 1..w
      /\ \A v \in 1..clicks : v \in Click /\ v # w
      /\ \A v \in Click : v # w /\ v <= w => v \in 1..clicks
  BY <1>1, BlocksNat, SMTT(30) DEF Clicked, PageType, Click, FlowType
<1>4. flow' = [flow EXCEPT ![w] = [NoFlow EXCEPT !.pc = IF f \in FontFile THEN "wait" ELSE "send", !.file = f]]
  BY <1>1 DEF Clicked
<1>5. wire' = Append(wire, x) /\ x \in Frame
  BY <1>1, <1>2, <1>3 DEF Clicked, Send, Frame
<1>6. /\ \A v \in Click : v # w => flow'[v] = flow[v]
      /\ flow'[w].pc = (IF f \in FontFile THEN "wait" ELSE "send")
      /\ flow'[w].file = f /\ flow'[w].sent = 0 /\ flow'[w].progress = FALSE
  BY <1>3, <1>4 DEF PageType, NoFlow
<1>7. FlowInv'
  <2>1. Size(w)' \in Nat /\ 0 <= Size(w)'
    BY <1>6, BlocksNat DEF Size
  <2>2. ASSUME NEW v \in Click, v # w
        PROVE  /\ v > w => flow'[v] = NoFlow
               /\ v <= w => flow'[v].file \in File /\ flow'[v].sent <= Size(v)'
               /\ flow'[v].pc = "wait" => flow'[v].file \in FontFile /\ flow'[v].sent = 0
               /\ flow'[v].pc = "send" /\ flow'[v].file \in FontFile => flow'[v].progress
    <3>1. flow'[v] = flow[v] /\ Size(v)' = Size(v)
      BY <1>6, <2>2 DEF Size
    <3>2. (v > w => v > clicks) /\ (v <= w => v <= clicks)
      BY <1>3, <2>2
    <3> QED
      BY <3>1, <3>2 DEF FlowInv, WireInv
  <2> QED
    BY <1>3, <1>6, <2>1, <2>2 DEF FlowInv
<1>8. Shrinks
  BY <1>3, <1>6 DEF Shrinks, Unsent
<1>9. Turn(x) = 1 /\ Turn(x)' = 1
  BY <1>2 DEF Turn
<1>10. FrameOK(x)'
  BY <1>2, <1>3, <1>6, <1>9 DEF FrameOK, Unsent
<1>11. ASSUME NEW i \in 1..Len(wire) PROVE wire[i].w # x.w
  BY <1>3 DEF WireInv, WireFrames, FrameOK
<1> HIDE DEF x
<1>12. /\ WireFrames' /\ WireOrder'
       /\ \A v \in 1..clicks : \A n \in Nat :
            UnderWay(v, n)' <=> UnderWay(v, n) \/ (x.w = v /\ Turn(x)' = n)
  BY <1>3, <1>5, <1>8, <1>10, <1>11, FramesAppended DEF WireInv
<1>13. x.w = w
  BY DEF x
<1>14. ASSUME NEW v \in 1..clicks, NEW n \in Nat PROVE Coming(v, n)' <=> Coming(v, n)
  <2>1. UnderWay(v, n)' <=> UnderWay(v, n)
    BY <1>3, <1>12, <1>13
  <2>2. Unsent(v, n)' <=> Unsent(v, n)
    BY <1>3, <1>6 DEF Unsent
  <2> QED
    BY <2>1, <2>2 DEF Coming
<1>15. WireComes'
  <2>1. ASSUME NEW v \in 1..w, NEW n \in 1..(Size(v)' + 1), Coming(v, n)' PROVE Coming(v, n + 1)'
    <3>1. CASE v = w
      <4>1. Size(w)' \in Nat
        BY <1>6, BlocksNat DEF Size
      <4>2. n \in Nat /\ n + 1 > 1
        BY <3>1, <4>1
      <4>3. Unsent(w, n + 1)'
        BY <1>6, <4>2 DEF Unsent
      <4> QED
        BY <3>1, <4>3 DEF Coming
    <3>2. CASE v # w
      <4>1. v \in 1..clicks
        BY <1>1, <1>3, <3>2
      <4>2. Size(v)' = Size(v) /\ Size(v) \in Nat
        BY <1>3, <1>6, <4>1, SizeNat DEF Size, WireInv
      <4>3. Coming(v, n) /\ n \in 1..(Size(v) + 1) /\ n \in Nat /\ n + 1 \in Nat
        BY <1>14, <2>1, <4>1, <4>2
      <4>4. Coming(v, n + 1)
        BY <1>3, <4>1, <4>3 DEF WireInv, WireComes
      <4> QED
        BY <1>14, <4>1, <4>3, <4>4
    <3> QED
      BY <3>1, <3>2
  <2> QED
    BY <1>3, <2>1 DEF WireComes
<1> QED
  BY <1>3, <1>6, <1>7, <1>12, <1>14, <1>15 DEF WireInv

LEMMA SendsWire ==
  ASSUME PageType, WireInv, NEW w \in Click, Sends(w)
  PROVE  /\ WireInv'
         /\ page_ws = "open" =>
              \A v \in 1..clicks : \A n \in 1..(Size(v) + 2) : Coming(v, n) => Coming(v, n)'
<1>1. w \in 1..clicks /\ clicks \in Nat
  BY DEF Sends, WireInv, FlowInv, Click, NoFlow, PageType
<1>2. PICK i \in Nat : i = flow[w].sent + 1
  BY <1>1, SizeNat DEF WireInv
<1>3. PICK s \in Nat : s = Size(w)
  BY <1>1, SizeNat DEF WireInv
<1>4. i <= s + 1 /\ i > 0 /\ flow[w].pc = "send" /\ flow[w] \in FlowType /\ flow[w].file \in File
      /\ clicks' = clicks /\ page_ws' = page_ws
  BY <1>1, <1>2, <1>3, SizeNat DEF WireInv, Sends
<1>5. PICK k \in {"binary", "font_end", "fw_end"} :
         k = IF i <= s THEN "binary" ELSE IF flow[w].file \in FontFile THEN "font_end" ELSE "fw_end"
  OBVIOUS
<1>6. PICK j \in Nat : j = IF i <= s THEN i ELSE 0
  OBVIOUS
<1> DEFINE x == [kind |-> k, w |-> w, block |-> j]
<1>7. Send(k, w, j)
  BY <1>2, <1>3, <1>5, <1>6 DEF Sends, Size
<1>8. /\ flow' \in [Click -> FlowType]
      /\ \A v \in Click : v # w => flow'[v] = flow[v]
      /\ flow'[w].file = flow[w].file /\ flow'[w].progress = flow[w].progress
      /\ IF i <= s THEN flow'[w].pc = "send" /\ flow'[w].sent = i
                   ELSE flow'[w].pc = "idle" /\ flow'[w].sent = flow[w].sent
  <2>1. flow' = IF i <= s THEN [flow EXCEPT ![w].sent = i] ELSE [flow EXCEPT ![w].pc = "idle"]
    BY <1>2, <1>3 DEF Sends, Size
  <2>2. flow \in [Click -> FlowType]
    BY DEF PageType
  <2>3. CASE i <= s
    <3>1. flow' = [flow EXCEPT ![w] = [flow[w] EXCEPT !.sent = i]]
      BY <2>1, <2>3
    <3>2. [flow[w] EXCEPT !.sent = i] \in FlowType
      BY <1>4 DEF FlowType
    <3> QED
      BY <1>4, <2>2, <2>3, <3>1, <3>2 DEF FlowType
  <2>4. CASE ~(i <= s)
    <3>1. flow' = [flow EXCEPT ![w] = [flow[w] EXCEPT !.pc = "idle"]]
      BY <2>1, <2>4
    <3>2. [flow[w] EXCEPT !.pc = "idle"] \in FlowType
      BY <1>4 DEF FlowType
    <3> QED
      BY <1>4, <2>2, <2>4, <3>1, <3>2 DEF FlowType
  <2> QED
    BY <2>3, <2>4
<1>9. \A v \in Click : Size(v)' = Size(v)
  BY <1>8 DEF Size
<1>10. FlowInv'
  <2> SUFFICES ASSUME NEW v \in Click
        PROVE  /\ v > clicks => flow'[v] = NoFlow
               /\ v <= clicks => flow'[v].file \in File /\ flow'[v].sent <= Size(v)'
               /\ flow'[v].pc = "wait" => flow'[v].file \in FontFile /\ flow'[v].sent = 0 /\ page_ws' = "open"
               /\ flow'[v].pc = "send" /\ flow'[v].file \in FontFile => flow'[v].progress
    BY <1>4 DEF FlowInv
  <2>1. CASE v # w
    BY <1>4, <1>8, <1>9, <2>1 DEF FlowInv, WireInv
  <2>2. CASE v = w
    <3>1. flow[w].sent <= Size(w) /\ ~(w > clicks)
      BY <1>1, SizeNat DEF WireInv
    <3> QED
      BY <1>3, <1>4, <1>8, <1>9, <2>2, <3>1 DEF FlowInv, WireInv
  <2> QED
    BY <2>1, <2>2
<1>11. Shrinks
  <2>1. \A v \in 1..clicks : v \in Click
    BY SizeNat DEF WireInv
  <2> QED
    BY <1>2, <1>4, <1>8, <2>1 DEF Shrinks, Unsent
<1>12. CASE page_ws # "open"
  <2>1. wire' = wire
    BY <1>7, <1>12 DEF Send
  <2>2. Kept(0, Len(wire))
    BY <2>1, WireType DEF Kept
  <2>3. WireFrames' /\ WireOrder'
    BY <1>4, <1>11, <2>2, FramesKept DEF WireInv
  <2> QED
    BY <1>4, <1>10, <1>12, <2>3 DEF WireInv, WireComes
<1>13. CASE page_ws = "open"
  <2>1. wire' = Append(wire, x) /\ x \in Frame
    BY <1>5, <1>7, <1>13 DEF Send, Frame
  <2>2. Turn(x)' = i + 1
    BY <1>3, <1>4, <1>5, <1>6, <1>9 DEF Turn
  <2>3. FrameOK(x)'
    <3>1. x.kind \in {"font_start", "font_end"} => flow'[w].file \in FontFile
      BY <1>5, <1>8
    <3>2. x.kind \in {"fw_start", "fw_end"} => flow'[w].file \notin FontFile
      BY <1>5, <1>8
    <3>3. x.kind = "binary" => x.block \in 1..Size(w)'
      BY <1>3, <1>4, <1>5, <1>6, <1>9
    <3>4. ~Unsent(w, Turn(x))'
      BY <2>2, <1>8 DEF Unsent
    <3>5. flow'[w].file \in FontFile => flow'[w].progress
      BY <1>4, <1>8 DEF WireInv, FlowInv
    <3> QED
      BY <1>1, <1>4, <3>1, <3>2, <3>3, <3>4, <3>5 DEF FrameOK
  <2>4. ASSUME NEW p \in 1..Len(wire), wire[p].w = x.w PROVE Turn(wire[p]) < Turn(x)'
    <3>1. PICK y \in Frame : y = wire[p]
      BY WireType
    <3>2. FrameOK(y) /\ y.w = w
      BY <3>1, <2>4 DEF WireInv, WireFrames
    <3>3. Turn(y) \in Nat
      BY <3>2, TurnNat DEF WireInv
    <3>4. ~(Turn(y) > flow[w].sent + 1)
      BY <1>4, <3>2 DEF FrameOK, Unsent
    <3> QED
      BY <1>2, <2>2, <3>1, <3>3, <3>4
  <2> HIDE DEF x
  <2>5. /\ WireFrames' /\ WireOrder'
        /\ \A v \in 1..clicks : \A n \in Nat :
             UnderWay(v, n)' <=> UnderWay(v, n) \/ (x.w = v /\ Turn(x)' = n)
    BY <1>4, <1>11, <2>1, <2>3, <2>4, FramesAppended DEF WireInv, PageType
  <2>6. x.w = w
    BY DEF x
  <2>7. ASSUME NEW v \in 1..clicks, NEW n \in 1..(Size(v) + 2)
        PROVE  n \in Nat /\ v \in Click /\ (Coming(v, n)' <=> Coming(v, n))
    <3>1. v \in Click /\ Size(v) \in Nat /\ n \in Nat
      BY SizeNat DEF WireInv
    <3>2. UnderWay(v, n)' <=> UnderWay(v, n) \/ (w = v /\ i + 1 = n)
      BY <2>2, <2>5, <2>6, <3>1
    <3>3. CASE v # w
      BY <1>8, <3>1, <3>2, <3>3 DEF Coming, Unsent
    <3>4. CASE v = w
      <4>1. Unsent(w, n) <=> n > i
        BY <1>2, <1>4 DEF Unsent
      <4>2. Unsent(w, n)' <=> n > i + 1
        <5>1. CASE i <= s
          BY <1>8, <5>1 DEF Unsent
        <5>2. CASE ~(i <= s)
          <6>1. ~(n > i + 1)
            BY <1>3, <1>4, <3>4, <5>2
          <6> QED
            BY <1>8, <5>2, <6>1 DEF Unsent
        <5> QED
          BY <5>1, <5>2
      <4>3. n > i <=> n > i + 1 \/ i + 1 = n
        BY <3>1
      <4> QED
        BY <3>1, <3>2, <3>4, <4>1, <4>2, <4>3 DEF Coming
    <3> QED
      BY <3>1, <3>3, <3>4
  <2>8. WireComes'
    <3> SUFFICES ASSUME NEW v \in 1..clicks, NEW n \in 1..(Size(v)' + 1), Coming(v, n)' PROVE Coming(v, n + 1)'
      BY <1>4 DEF WireComes
    <3>1. Size(v)' = Size(v) /\ Size(v) \in Nat
      BY <1>9, SizeNat DEF WireInv
    <3>2. n \in 1..(Size(v) + 1) /\ n \in 1..(Size(v) + 2) /\ n + 1 \in 1..(Size(v) + 2)
      BY <3>1
    <3>3. Coming(v, n + 1)
      BY <1>13, <2>7, <3>2 DEF WireInv, WireComes
    <3> QED
      BY <2>7, <3>2, <3>3
  <2> QED
    BY <1>10, <2>5, <2>7, <2>8 DEF WireInv
<1> QED
  BY <1>12, <1>13

(* Steps that give up flows or frames, and the connection that begins.     *)
Resigns(w) == flow'[w] = flow[w] \/ flow'[w] = [flow[w] EXCEPT !.pc = "idle"]

LEMMA ResignShrinks ==
  ASSUME PageType, FlowInv, \A w \in Click : Resigns(w)
  PROVE  /\ Shrinks
         /\ \A w \in Click : flow'[w].file = flow[w].file /\ flow'[w].sent = flow[w].sent
                             /\ flow'[w].progress = flow[w].progress
                             /\ (flow'[w].pc = flow[w].pc \/ flow'[w].pc = "idle")
<1>1. ASSUME NEW w \in Click
      PROVE  flow'[w].file = flow[w].file /\ flow'[w].sent = flow[w].sent
             /\ flow'[w].progress = flow[w].progress
             /\ (flow'[w].pc = flow[w].pc \/ flow'[w].pc = "idle")
  <2>1. flow[w] \in FlowType
    BY DEF PageType
  <2> QED
    BY <2>1 DEF Resigns, FlowType
<1>2. \A w \in 1..clicks : w \in Click
  BY SizeNat
<1>3. Shrinks
  BY <1>1, <1>2 DEF Shrinks, Unsent
<1> QED
  BY <1>1, <1>3

LEMMA ResignWire ==
  ASSUME PageType, WireInv, \A w \in Click : Resigns(w), clicks' = clicks,
         \A w \in Click : flow'[w].pc # "wait",
         NEW m, NEW q, Kept(m, q), page_ws' = "closed" \/ wire' = <<>>
  PROVE  WireInv'
<1>1. Shrinks
  BY ResignShrinks DEF WireInv
<1>2. WireFrames' /\ WireOrder'
  BY <1>1, FramesKept DEF WireInv
<1>3. ASSUME NEW w \in Click
      PROVE  flow'[w].file = flow[w].file /\ flow'[w].sent = flow[w].sent
             /\ flow'[w].progress = flow[w].progress
             /\ (flow'[w].pc = flow[w].pc \/ flow'[w].pc = "idle") /\ Size(w)' = Size(w)
  BY ResignShrinks DEF WireInv, Size
<1>4. FlowInv'
  <2> SUFFICES ASSUME NEW w \in Click
        PROVE  /\ w > clicks => flow'[w] = NoFlow
               /\ w <= clicks => flow'[w].file \in File /\ flow'[w].sent <= Size(w)'
               /\ flow'[w].pc = "send" /\ flow'[w].file \in FontFile => flow'[w].progress
    BY DEF FlowInv
  <2>1. w > clicks => flow'[w] = NoFlow
    <3>1. [NoFlow EXCEPT !.pc = "idle"] = NoFlow
      <4>1. NoFlow.pc = "idle"
        BY DEF NoFlow
      <4> QED
        BY <4>1 DEF NoFlow
    <3> QED
      BY <3>1 DEF Resigns, WireInv, FlowInv
  <2> QED
    BY <1>3, <2>1 DEF WireInv, FlowInv
<1>5. WireComes'
  <2>1. CASE page_ws' = "closed"
    BY <2>1 DEF WireComes
  <2>2. CASE wire' = <<>>
    <3> SUFFICES ASSUME NEW v \in 1..clicks, NEW n \in 1..(Size(v)' + 1), Coming(v, n)' PROVE Coming(v, n + 1)'
      BY DEF WireComes
    <3>1. v \in Click /\ Size(v)' = Size(v) /\ Size(v) \in Nat /\ flow[v].sent \in Nat
      BY <1>3, SizeNat DEF WireInv
    <3>2. n \in Nat
      BY <3>1
    <3>3. ~UnderWay(v, n)'
      BY <2>2 DEF UnderWay
    <3>4. Unsent(v, n)'
      BY <3>3 DEF Coming
    <3>5. Unsent(v, n + 1)'
      BY <1>3, <3>1, <3>2, <3>4 DEF Unsent
    <3> QED
      BY <3>5 DEF Coming
  <2> QED
    BY <2>1, <2>2
<1> QED
  BY <1>2, <1>4, <1>5 DEF WireInv

(* A step that leaves the page and the wire alone.                         *)
LEMMA QuietWire ==
  ASSUME WireInv, UNCHANGED <<pageVars, wire>>
  PROVE  WireInv' /\ \A w, n : Coming(w, n)' <=> Coming(w, n)
<1>1. clicks' = clicks /\ flow' = flow /\ page_ws' = page_ws /\ wire' = wire
  BY DEF pageVars
<1>2. FlowInv' /\ WireFrames' /\ WireOrder'
  BY <1>1 DEF WireInv, FlowInv, WireFrames, WireOrder, FrameOK, Turn, Size, Unsent
<1>3. \A w, n : Coming(w, n)' <=> Coming(w, n)
  BY <1>1 DEF Coming, UnderWay, Unsent, Turn, Size
<1>4. WireComes'
  BY <1>1, <1>3 DEF WireInv, WireComes, Size
<1> QED
  BY <1>2, <1>3, <1>4 DEF WireInv

(* The frame the page waits for lets a flow send, which changes nothing of *)
(* what is to come.                                                        *)
LEMMA ToldWire ==
  ASSUME PageType, WireInv, flow' = Told, UNCHANGED <<clicks, page_ws, wire>>
  PROVE  WireInv' /\ \A w \in Click : \A n \in Nat : Coming(w, n)' <=> Coming(w, n)
<1>1. ASSUME NEW w \in Click
      PROVE  /\ flow[w] \in FlowType
             /\ flow'[w].file = flow[w].file /\ flow'[w].sent = flow[w].sent
             /\ flow[w].progress => flow'[w].progress
             /\ flow[w].pc # "wait" => flow'[w] = flow[w]
             /\ flow[w].pc = "wait" =>
                  flow'[w].pc = "wait" \/ (flow'[w].pc = "send" /\ flow'[w].progress)
  <2>1. flow[w] \in FlowType
    BY DEF PageType
  <2>2. \/ flow'[w] = flow[w]
        \/ flow[w].pc = "wait" /\ flow'[w] = [flow[w] EXCEPT !.progress = TRUE]
        \/ flow[w].pc = "wait" /\ flow[w].progress /\ flow'[w] = [flow[w] EXCEPT !.pc = "send"]
    BY DEF Told
  <2> QED
    BY <2>1, <2>2 DEF FlowType
<1>2. ASSUME NEW w \in Click, NEW n \in Nat PROVE Unsent(w, n)' <=> Unsent(w, n)
  <2>1. flow[w].pc = "wait" => flow[w].sent = 0
    BY DEF WireInv, FlowInv
  <2> QED
    BY <1>1, <2>1 DEF Unsent
<1>3. Shrinks
  <2>1. \A w \in 1..clicks : w \in Click
    BY SizeNat DEF WireInv
  <2> QED
    BY <1>1, <1>2, <2>1 DEF Shrinks
<1>4. Kept(0, Len(wire))
  BY WireType DEF Kept
<1>5. WireFrames' /\ WireOrder'
  BY <1>3, <1>4, FramesKept DEF WireInv
<1>6. ASSUME NEW w \in Click PROVE Size(w)' = Size(w)
  BY <1>1 DEF Size
<1>7. FlowInv'
  <2> SUFFICES ASSUME NEW w \in Click
        PROVE  /\ w > clicks => flow'[w] = NoFlow
               /\ w <= clicks => flow'[w].file \in File /\ flow'[w].sent <= Size(w)'
               /\ flow'[w].pc = "wait" => flow'[w].file \in FontFile /\ flow'[w].sent = 0 /\ page_ws = "open"
               /\ flow'[w].pc = "send" /\ flow'[w].file \in FontFile => flow'[w].progress
    BY DEF FlowInv
  <2>1. w > clicks => flow[w].pc # "wait"
    BY DEF WireInv, FlowInv, NoFlow
  <2> QED
    BY <1>1, <1>6, <2>1 DEF WireInv, FlowInv
<1>8. ASSUME NEW w \in Click, NEW n \in Nat PROVE UnderWay(w, n)' <=> UnderWay(w, n)
  <2>1. \A i \in 1..Len(wire) : Turn(wire[i])' = Turn(wire[i])
    BY WireType, <1>1 DEF Turn, Size, Frame
  <2> QED
    BY <2>1, WireType DEF UnderWay
<1>9. ASSUME NEW w \in Click, NEW n \in Nat PROVE Coming(w, n)' <=> Coming(w, n)
  BY <1>2, <1>8 DEF Coming
<1>10. WireComes'
  <2> SUFFICES ASSUME page_ws = "open", NEW w \in 1..clicks, NEW n \in 1..(Size(w)' + 1), Coming(w, n)'
               PROVE  Coming(w, n + 1)'
    BY DEF WireComes
  <2>1. w \in Click /\ Size(w)' = Size(w) /\ Size(w) \in Nat
    BY <1>6, SizeNat DEF WireInv
  <2>2. n \in Nat /\ n + 1 \in Nat /\ n \in 1..(Size(w) + 1)
    BY <2>1
  <2>3. Coming(w, n + 1)
    BY <1>9, <2>1, <2>2 DEF WireInv, WireComes
  <2> QED
    BY <1>9, <2>1, <2>2, <2>3
<1> QED
  BY <1>5, <1>7, <1>9, <1>10 DEF WireInv

LEMMA UnheardResigns ==
  ASSUME PageType
  PROVE  \A w \in Click : /\ Unheard[w] = flow[w] \/ Unheard[w] = [flow[w] EXCEPT !.pc = "idle"]
                          /\ Unheard[w].pc # "wait"
BY DEF Unheard, PageType, FlowType

LEMMA ReceivesWire ==
  ASSUME PageType, WireInv, Receives
  PROVE  WireInv'
<1>1. UNCHANGED pageVars /\ clicks' = clicks /\ flow' = flow /\ page_ws' = page_ws
  BY ReceivesIs DEF pageVars
<1>2. CASE Deaf
  BY <1>1, <1>2, QuietWire DEF Deaf
<1>3. CASE ~Deaf
  <2>1. wire # <<>> /\ wire' = Tail(wire)
    BY <1>3, ReceivesIs
  <2>2. PICK k \in Nat : k + 1 = Len(wire) /\ Kept(1, k)
    <3>1. Kept(1, Len(wire) - 1) /\ Len(wire) > 0 /\ Len(wire) \in Nat
      BY <2>1, TailKept, WireType
    <3>2. Len(wire) - 1 \in Nat /\ (Len(wire) - 1) + 1 = Len(wire)
      BY <3>1
    <3> QED
      BY <3>1, <3>2
  <2>3. Shrinks
    BY <1>1 DEF Shrinks, Unsent
  <2>4. WireFrames' /\ WireOrder'
    BY <1>1, <2>2, <2>3, FramesKept DEF WireInv
  <2>5. FlowInv'
    BY <1>1 DEF WireInv, FlowInv, Size
  <2>6. ASSUME page_ws = "open", NEW w \in 1..clicks, NEW n \in 1..(Size(w) + 1), Coming(w, n)'
        PROVE  Coming(w, n + 1)'
    <3>1. n \in Nat
      BY SizeNat DEF WireInv
    <3>2. Coming(w, n)
      BY <1>1, <2>2, <2>6, <3>1, ComesTaken DEF WireInv
    <3> QED
      BY <1>1, <2>2, <2>6, <3>1, <3>2, ComesTaken DEF WireInv
  <2>7. WireComes'
    <3>1. \A w : Size(w)' = Size(w)
      BY <1>1 DEF Size
    <3> QED
      BY <1>1, <2>6, <3>1 DEF WireComes
  <2> QED
    BY <2>4, <2>5, <2>7 DEF WireInv
<1> QED
  BY <1>2, <1>3

LEMMA WireStep ==
  ASSUME PageType, WireInv, ConnInv, ApNext
  PROVE  WireInv'
<1>0. \A w \in Click : flow[w].pc = "wait" => page_ws = "open"
  BY DEF WireInv, FlowInv
<1>1. ASSUME NEW f \in File, Clicked(f) PROVE WireInv'
  BY <1>1, ClickedWire
<1>2. ASSUME NEW w \in Click, Sends(w) PROVE WireInv'
  BY <1>2, SendsWire
<1>3. ASSUME NEW w \in Click, Throws(w) PROVE WireInv'
  <2>1. page_ws' = "closed" /\ clicks' = clicks /\ wire' = wire
    BY <1>3 DEF Throws
  <2>2. flow' = [flow EXCEPT ![w] = [flow[w] EXCEPT !.pc = "idle"]] /\ flow \in [Click -> FlowType]
    BY <1>3 DEF Throws, PageType
  <2>3. \A v \in Click : Resigns(v) /\ flow'[v].pc # "wait"
    BY <1>0, <1>3, <2>2 DEF Throws, Resigns, FlowType
  <2>4. Kept(0, Len(wire))
    BY <2>1, WireType DEF Kept
  <2> QED
    BY <2>1, <2>3, <2>4, ResignWire
<1>4. CASE Breaks
  <2>1. PICK n \in 0..Len(wire) : wire' = SubSeq(wire, 1, n)
    BY <1>4 DEF Breaks
  <2>2. Kept(0, n)
    BY <2>1, PrefixKept
  <2>3. page_ws' = "closed" /\ clicks' = clicks /\ flow' = Unheard
    BY <1>4 DEF Breaks
  <2> QED
    BY <2>2, <2>3, UnheardResigns, ResignWire DEF Resigns
<1>5. CASE Reloads
  <2>1. page_ws' = "closed" /\ clicks' = clicks /\ wire' = wire
    BY <1>5 DEF Reloads
  <2>2. \A v \in Click : Resigns(v) /\ flow'[v].pc # "wait"
    BY <1>5 DEF Reloads, Resigns, PageType, FlowType
  <2>3. Kept(0, Len(wire))
    BY <2>1, WireType DEF Kept
  <2> QED
    BY <2>1, <2>2, <2>3, ResignWire
<1>6. CASE Connects \/ Ends
  <2>1. page_ws # "open" /\ clicks' = clicks /\ flow' = flow /\ wire' = <<>>
    BY <1>6 DEF Connects, Ends, ConnInv, pageVars
  <2>2. \A v \in Click : Resigns(v) /\ flow'[v].pc # "wait"
    BY <1>0, <2>1 DEF Resigns
  <2> QED
    BY <2>1, <2>2, NothingKept, ResignWire
<1>7. CASE Receives
  BY <1>7, ReceivesWire
<1>8. CASE Tails
  <2>1. CASE flow' = flow
    BY <1>8, <2>1, QuietWire DEF Tails, pageVars
  <2>2. CASE flow' = Told
    BY <1>8, <2>2, ToldWire DEF Tails
  <2> QED
    BY <1>8, <2>1, <2>2 DEF Tails
<1>9. CASE Restarts
  BY <1>9, NothingKept, UnheardResigns, ResignWire DEF Restarts, Resigns
<1>10. ASSUME UNCHANGED <<pageVars, wire>> PROVE WireInv'
  BY <1>10, QuietWire
<1> QED
  BY <1>1, <1>2, <1>3, <1>4, <1>5, <1>6, <1>7, <1>8, <1>9, <1>10
     DEF ApNext, InstallBegins, InstallErases, InstallWrites, InstallEnds, ShellOnly, GlyphRead, File

LEMMA ConnStep ==
  ASSUME PageType, ThreadType, WireInv, ConnInv, ApNext
  PROVE  ConnInv'
<1>1. CASE Breaks \/ Reloads \/ Connects \/ Restarts \/ Ends
  BY <1>1 DEF Breaks, Reloads, Connects, Restarts, Ends, ConnInv, ThreadType, PageType, pageVars
<1>2. CASE Receives \/ Tails
  <2>1. ws_slot # "free" /\ ws_slot' = ws_slot /\ page_ws' = page_ws
    BY <1>2, ReceivesIs DEF Tails, pageVars
  <2> QED
    BY <2>1 DEF ConnInv
<1>3. ASSUME NEW f \in File, Clicked(f) PROVE ConnInv'
  BY <1>3 DEF Clicked, DeviceStands, ConnInv
<1>4. ASSUME NEW w \in Click, Sends(w) \/ Throws(w) PROVE ConnInv'
  <2>1. UNCHANGED <<page_ws, ws_slot, ft, fw_up>>
    BY <1>4 DEF Sends, Throws, DeviceStands
  <2>2. page_ws # "open" => wire' = wire
    BY <1>4 DEF Sends, Throws, Send
  <2> QED
    BY <2>1, <2>2 DEF ConnInv
<1>5. ASSUME UNCHANGED <<page_ws, ws_slot, wire, ft, fw_up>> PROVE ConnInv'
  BY <1>5 DEF ConnInv
<1> QED
  BY <1>1, <1>2, <1>3, <1>4, <1>5
     DEF ApNext, InstallBegins, InstallErases, InstallWrites, InstallEnds, ShellOnly, GlyphRead, File, pageVars

(* The erase: its flow keeps something to come.                            *)
LEMMA FtTyped ==
  ASSUME ThreadType
  PROVE  ft \in FtType /\ ft.w \in Nat /\ ft.off \in Nat /\ ft.erase_off \in Nat
         /\ ft.phase \in {"IDLE", "ERASE", "DATA"} /\ ft.failed \in BOOLEAN
BY DEF ThreadType, FtType

(* A step of the page that leaves the device alone.                        *)
LEMMA FtPage ==
  ASSUME PageType, WireInv, ThreadType, FtInv, UNCHANGED <<ft, ws_at>>,
         clicks' \in Nat, clicks <= clicks', \A v \in 1..clicks : flow'[v].file = flow[v].file,
         page_ws' = "open" =>
           page_ws = "open" /\ \A v \in 1..clicks : \A n \in 1..(Size(v) + 2) : Coming(v, n) => Coming(v, n)'
  PROVE  FtInv'
<1>1. ft.phase # "IDLE" =>
        ft.w \in 1..clicks /\ ft.w \in 1..clicks' /\ Size(ft.w)' = Size(ft.w) /\ Size(ft.w) \in Nat
  BY SizeNat DEF FtInv, Size, WireInv, PageType
<1>2. ASSUME ft.phase = "ERASE", page_ws' = "open"
      PROVE  (Coming(ft.w, ft.erase_off + (IF ws_at = "tail" THEN 2 ELSE 1)))'
  <2>1. PICK w \in 1..clicks : w = ft.w
    BY <1>1, <1>2
  <2>2. PICK n \in Nat : n = ft.erase_off + (IF ws_at = "tail" THEN 2 ELSE 1)
    BY FtTyped
  <2>3. n \in 1..(Size(w) + 2) /\ Coming(w, n)
    BY <1>1, <1>2, <2>1, <2>2, FtTyped DEF FtInv
  <2>4. Coming(w, n)'
    BY <1>2, <2>3
  <2> QED
    BY <2>1, <2>2, <2>4 DEF Coming, Unsent, UnderWay
<1> QED
  BY <1>1, <1>2 DEF FtInv

LEMMA FtReceives ==
  ASSUME PageType, ThreadType, WireInv, ConnInv, FtInv, Receives
  PROVE  FtInv'
<1>1. /\ UNCHANGED pageVars /\ clicks' = clicks /\ flow' = flow /\ page_ws' = page_ws
      /\ ws_at = "recv" /\ ws_at' = "tail" /\ clicks \in Nat
      /\ \A w : Size(w)' = Size(w)
  BY ReceivesIs DEF pageVars, Size, PageType
<1>2. CASE Deaf
  <2>1. UNCHANGED <<pageVars, wire, ft>>
    BY <1>1, <1>2 DEF Deaf
  <2>2. ASSUME ft.phase = "ERASE", page_ws = "open" PROVE Coming(ft.w, ft.erase_off + 2)'
    <3>1. PICK w \in 1..clicks : w = ft.w
      BY <2>2 DEF FtInv
    <3>2. PICK n \in Nat : n = ft.erase_off
      BY FtTyped
    <3>3. Size(w) \in Nat /\ n + 1 \in 1..(Size(w) + 1) /\ Coming(w, n + 1)
      BY <1>1, <2>2, <3>1, <3>2, SizeNat DEF FtInv, WireInv
    <3>4. Coming(w, (n + 1) + 1)
      BY <2>2, <3>3 DEF WireInv, WireComes
    <3>5. Coming(w, n + 2)
      <4>1. (n + 1) + 1 = n + 2
        OBVIOUS
      <4> QED
        BY <3>4, <4>1
    <3>6. Coming(w, n + 2)'
      BY <2>1, <3>5, QuietWire
    <3> QED
      BY <2>1, <3>1, <3>2, <3>6 DEF Coming, Unsent, UnderWay
  <2> QED
    BY <1>1, <2>1, <2>2 DEF FtInv
<1>3. CASE ~Deaf
  <2>1. PICK ok \in BOOLEAN : wire[1] \in Frame /\ Len(wire) > 0 /\ FrameTaken(wire[1], ok)
    BY <1>3, ReceivesIs
  <2>2. PICK x \in Frame : x = wire[1]
    BY <2>1
  <2>3. FrameOK(x) /\ FrameTaken(x, ok)
    BY <2>1, <2>2, WireType DEF WireInv, WireFrames
  <2>4. PICK k \in Nat : k + 1 = Len(wire) /\ Kept(1, k)
    <3>1. wire # <<>> /\ wire' = Tail(wire)
      BY <1>3, ReceivesIs
    <3>2. Kept(1, Len(wire) - 1) /\ Len(wire) > 0 /\ Len(wire) \in Nat
      BY <3>1, TailKept, WireType
    <3>3. Len(wire) - 1 \in Nat /\ (Len(wire) - 1) + 1 = Len(wire)
      BY <3>2
    <3> QED
      BY <3>2, <3>3
  <2>5. ASSUME page_ws = "open", NEW w \in 1..clicks, NEW n \in 1..(Size(w) + 1), Coming(w, n)
        PROVE  Coming(w, n + 1)'
    <3>1. n \in Nat
      BY SizeNat DEF WireInv
    <3> QED
      BY <1>1, <2>4, <2>5, <3>1, ComesTaken DEF WireInv
  <2>6. CASE UNCHANGED ft
    <3>1. ASSUME ft.phase = "ERASE", page_ws = "open" PROVE Coming(ft.w, ft.erase_off + 2)'
      <4>1. PICK w \in 1..clicks : w = ft.w
        BY <3>1 DEF FtInv
      <4>2. PICK n \in Nat : n = ft.erase_off + 1
        BY FtTyped
      <4>3. n \in 1..(Size(w) + 1) /\ Coming(w, n)
        BY <1>1, <3>1, <4>1, <4>2, SizeNat, FtTyped DEF FtInv, WireInv
      <4>4. Coming(w, n + 1)'
        BY <2>5, <3>1, <4>3
      <4>5. ft'.w = w /\ ft'.erase_off + 2 = n + 1
        BY <2>6, <4>1, <4>2, FtTyped
      <4> QED
        BY <4>4, <4>5 DEF Coming, Unsent, UnderWay
    <3> QED
      BY <1>1, <2>6, <3>1 DEF FtInv
  <2>7. CASE ft' = FtIdle
    BY <2>7 DEF FtInv, FtIdle
  <2>8. CASE ft' # ft /\ x.kind = "font_start"
    <3>1. ft' = [FtIdle EXCEPT !.phase = "ERASE", !.w = x.w]
      BY <2>3, <2>8 DEF FrameTaken, FontStart
    <3>2. x.w \in 1..clicks /\ flow[x.w].file \in FontFile /\ Turn(x) = 1
      BY <2>3, <2>8 DEF FrameOK, Turn
    <3>3. Size(x.w) \in Nat /\ Size(x.w) > 0
      BY <3>2, SizeNat DEF WireInv
    <3>4. ft'.phase = "ERASE" /\ ft'.w = x.w /\ ft'.erase_off = 0 /\ ft'.off = 0 /\ ft'.failed = FALSE
      BY <3>1 DEF FtIdle
    <3>5. ASSUME page_ws = "open" PROVE Coming(ft.w, ft.erase_off + 2)'
      <4>1. UnderWay(x.w, 1)
        <5>1. 1 \in DOMAIN wire
          BY <2>4, WireType
        <5> QED
          BY <2>2, <3>2, <5>1 DEF UnderWay
      <4>2. PICK w \in 1..clicks : w = x.w
        BY <3>2
      <4>3. Coming(w, 1) /\ 1 \in 1..(Size(w) + 1)
        BY <3>3, <4>1, <4>2 DEF Coming
      <4>4. Coming(w, 1 + 1)'
        BY <2>5, <3>5, <4>3
      <4>5. ft'.w = w /\ ft'.erase_off + 2 = 1 + 1
        BY <3>4, <4>2
      <4> QED
        BY <4>4, <4>5 DEF Coming, Unsent, UnderWay
    <3>6. flow'[ft'.w].file \in FontFile /\ ft'.w \in 1..clicks' /\ Size(ft.w)' > 0
      BY <1>1, <3>2, <3>3, <3>4 DEF Size
    <3> QED
      BY <1>1, <3>3, <3>4, <3>5, <3>6 DEF FtInv
  <2>9. CASE ft' # ft /\ x.kind = "binary"
    <3>1. /\ ft.phase = "DATA" /\ ft.off # Total(ft.w)
          /\ \/ ft' = [ft EXCEPT !.off = @ + 1]
             \/ ft' = [ft EXCEPT !.failed = TRUE]
      BY <2>3, <2>9 DEF FrameTaken, Binary
    <3>2. ft.w \in 1..clicks /\ ft.off <= Size(ft.w) /\ ft.off # Size(ft.w) /\ Size(ft.w) \in Nat
      BY <3>1, SizeNat DEF FtInv, Total, Size, WireInv
    <3>3. /\ ft'.phase = "DATA" /\ ft'.w = ft.w /\ (ft'.off = ft.off + 1 \/ ft'.off = ft.off)
      BY <3>1, FtTyped DEF FtType
    <3>4. Size(ft.w)' = Size(ft.w)
      BY <1>1, <3>3 DEF Size
    <3>5. ft'.off <= Size(ft.w)'
      BY <3>2, <3>3, <3>4, FtTyped
    <3> QED
      BY <1>1, <3>1, <3>2, <3>3, <3>5 DEF FtInv
  <2>10. ft' = ft \/ ft' = FtIdle \/ x.kind \in {"font_start", "binary"}
    BY <2>3 DEF FrameTaken, FwStart, FwEnd, FontEnd
  <2> QED
    BY <2>6, <2>7, <2>8, <2>9, <2>10
<1> QED
  BY <1>2, <1>3

LEMMA FtTails ==
  ASSUME PageType, ThreadType, WireInv, ConnInv, FtInv, Tails
  PROVE  FtInv'
<1>1. /\ clicks' = clicks /\ page_ws' = page_ws /\ wire' = wire
      /\ ws_at = "tail" /\ ws_at' = "recv" /\ clicks \in Nat
  BY DEF Tails, PageType
<1>2. /\ \A w \in Click : \A n \in Nat : Coming(w, n)' <=> Coming(w, n)
      /\ \A w \in Click : flow'[w].file = flow[w].file /\ Size(w)' = Size(w)
  <2>1. CASE flow' = flow
    <3>1. UNCHANGED <<pageVars, wire>>
      BY <1>1, <2>1 DEF pageVars
    <3>2. \A w, n : Coming(w, n)' <=> Coming(w, n)
      BY <3>1, QuietWire
    <3> QED
      BY <2>1, <3>2 DEF Size
  <2>2. CASE flow' = Told
    <3>1. \A w \in Click : flow'[w].file = flow[w].file
      BY <2>2 DEF Told, PageType, FlowType
    <3> QED
      BY <1>1, <2>2, <3>1, ToldWire DEF Size
  <2> QED
    BY <2>1, <2>2 DEF Tails
<1>3. ft.phase # "IDLE" => ft.w \in 1..clicks /\ ft.w \in Click /\ Size(ft.w) \in Nat
  BY SizeNat DEF FtInv, WireInv
<1>4. CASE UNCHANGED ft /\ ft.phase # "ERASE"
  BY <1>1, <1>2, <1>3, <1>4 DEF FtInv, Size
<1>5. CASE ft' = FtIdle
  BY <1>5 DEF FtInv, FtIdle
<1>6. CASE ft.phase = "ERASE" /\ ft' # FtIdle
  <2>1. ft' = IF ft.erase_off + 1 = Total(ft.w)
              THEN [ft EXCEPT !.phase = "DATA", !.erase_off = @ + 1]
              ELSE [ft EXCEPT !.erase_off = @ + 1]
    BY <1>6 DEF Tails, Erases
  <2>2. /\ ft'.w = ft.w /\ ft'.off = ft.off /\ ft'.failed = ft.failed
        /\ ft'.erase_off = ft.erase_off + 1
        /\ ft'.phase = IF ft.erase_off + 1 = Size(ft.w) THEN "DATA" ELSE "ERASE"
    BY <1>6, <2>1, FtTyped DEF FtType, Total, Size
  <2>3. Size(ft.w)' = Size(ft.w)
    BY <1>2, <1>3, <1>6, <2>2 DEF Size
  <2>4. ft.erase_off < Size(ft.w) /\ ft.off = 0 /\ ~ft.failed /\ flow'[ft.w].file \in FontFile
    BY <1>2, <1>3, <1>6 DEF FtInv
  <2>5. ft'.erase_off < Size(ft.w) \/ ft'.phase = "DATA"
    BY <1>3, <1>6, <2>2, <2>4, FtTyped
  <2>6. ASSUME page_ws = "open" PROVE Coming(ft.w, ft.erase_off + 1)'
    <3>1. PICK w \in Click : w = ft.w
      BY <1>3, <1>6
    <3>2. PICK n \in Nat : n = ft.erase_off + 2
      BY FtTyped
    <3>3. Coming(w, n)
      BY <1>1, <1>6, <2>6, <3>1, <3>2 DEF FtInv
    <3>4. Coming(w, n)'
      BY <1>2, <3>3
    <3>5. ft'.w = w /\ ft'.erase_off + 1 = n
      BY <2>2, <3>1, <3>2, FtTyped
    <3> QED
      BY <3>4, <3>5 DEF Coming, Unsent, UnderWay
  <2> QED
    BY <1>1, <1>3, <1>6, <2>2, <2>3, <2>4, <2>5, <2>6 DEF FtInv
<1> QED
  BY <1>4, <1>5, <1>6 DEF Tails

LEMMA FtStep ==
  ASSUME PageType, ThreadType, WireInv, ConnInv, FtInv, ApNext
  PROVE  FtInv'
<1>0. clicks \in Nat /\ (\A v \in 1..clicks : v \in Click)
  BY SizeNat DEF PageType, WireInv
<1>1. ASSUME NEW f \in File, Clicked(f) PROVE FtInv'
  <2>1. clicks' \in Nat /\ clicks <= clicks' /\ UNCHANGED <<ft, ws_at, page_ws>>
    BY <1>0, <1>1 DEF Clicked, DeviceStands
  <2>2. \A v \in 1..clicks : \A n \in 1..(Size(v) + 2) : n \in Nat
    BY SizeNat DEF WireInv
  <2> QED
    BY <1>1, <2>1, <2>2, ClickedWire, FtPage
<1>2. ASSUME NEW w \in Click, Sends(w) PROVE FtInv'
  <2>1. clicks' \in Nat /\ clicks <= clicks' /\ UNCHANGED <<ft, ws_at, page_ws>>
    BY <1>0, <1>2 DEF Sends, DeviceStands
  <2>2. \A v \in 1..clicks : flow'[v].file = flow[v].file
    BY <1>0, <1>2, SMTT(30) DEF Sends, PageType, FlowType
  <2> QED
    BY <1>2, <2>1, <2>2, SendsWire, FtPage
<1>3. ASSUME NEW w \in Click, Throws(w) PROVE FtInv'
  <2>1. UNCHANGED <<clicks, ft, ws_at>> /\ page_ws' # "open"
    BY <1>3 DEF Throws, DeviceStands
  <2>2. \A v \in 1..clicks : flow'[v].file = flow[v].file
    BY <1>0, <1>3 DEF Throws, PageType, FlowType
  <2> QED
    BY <1>0, <2>1, <2>2, FtPage
<1>4. CASE Breaks \/ Reloads
  <2>1. UNCHANGED <<clicks, ft, ws_at>> /\ page_ws' # "open"
    BY <1>4 DEF Breaks, Reloads
  <2>2. \A v \in 1..clicks : flow'[v].file = flow[v].file
    BY <1>0, <1>4 DEF Breaks, Reloads, Unheard, PageType, FlowType
  <2> QED
    BY <1>0, <2>1, <2>2, FtPage
<1>5. CASE Connects \/ Ends \/ Restarts
  <2>1. ft' = FtIdle
    BY <1>5 DEF Connects, Ends, Restarts, ConnInv
  <2> QED
    BY <2>1 DEF FtInv, FtIdle
<1>6. CASE Receives
  BY <1>6, FtReceives
<1>7. CASE Tails
  BY <1>7, FtTails
<1>8. ASSUME UNCHANGED <<pageVars, wire, ft, ws_at>> PROVE FtInv'
  BY <1>0, <1>8, QuietWire, FtPage DEF pageVars
<1> QED
  BY <1>1, <1>2, <1>3, <1>4, <1>5, <1>6, <1>7, <1>8
     DEF ApNext, InstallBegins, InstallErases, InstallWrites, InstallEnds, ShellOnly, GlyphRead, File

(* Who writes.                                                             *)
LEMMA BusyLess ==
  ASSUME NEW w, flow'[w].pc # "idle" => flow[w].pc # "idle",
         \A i \in DOMAIN wire' : \E j \in DOMAIN wire : wire'[i] = wire[j],
         Busy(w)'
  PROVE  Busy(w)
<1>1. CASE flow'[w].pc # "idle"
  BY <1>1 DEF Busy
<1>2. CASE \E i \in DOMAIN wire' : wire'[i].w = w
  <2>1. PICK i \in DOMAIN wire' : wire'[i].w = w
    BY <1>2
  <2>2. PICK j \in DOMAIN wire : wire'[i] = wire[j]
    BY <2>1
  <2> QED
    BY <2>1, <2>2 DEF Busy
<1> QED
  BY <1>1, <1>2 DEF Busy

LEMMA KeptFrom ==
  ASSUME PageType, PageType', NEW m, NEW n, Kept(m, n)
  PROVE  \A i \in DOMAIN wire' : \E j \in DOMAIN wire : wire'[i] = wire[j]
<1>1. DOMAIN wire' = 1..n /\ DOMAIN wire = 1..Len(wire) /\ Len(wire) \in Nat
  BY LenProperties DEF PageType, Kept
<1>2. ASSUME NEW i \in 1..n PROVE m + i \in 1..Len(wire) /\ wire'[i] = wire[m + i]
  BY <1>1 DEF Kept
<1> QED
  BY <1>1, <1>2

LEMMA BusyStep ==
  ASSUME PageType, PageType', WireInv, ConnInv, ApNext, \A f \in File : ~Clicked(f),
         NEW w \in Click, Busy(w)'
  PROVE  Busy(w)
<1>1. ASSUME NEW v \in Click, Sends(v) PROVE Busy(w)
  <2>1. CASE w = v
    BY <1>1, <2>1 DEF Sends, Busy
  <2>2. CASE w # v
    <3>1. flow'[w] = flow[w]
      BY <1>1, <2>2 DEF Sends, PageType
    <3>2. PICK x : x.w = v /\ (wire' = wire \/ wire' = Append(wire, x))
      <4>1. PICK kind, i : Send(kind, v, i)
        BY <1>1 DEF Sends
      <4> QED
        BY <4>1 DEF Send
    <3>3. CASE wire' = wire
      BY <3>1, <3>3 DEF Busy
    <3>4. CASE wire' = Append(wire, x)
      <4>1. \A i \in DOMAIN wire' : (i \in DOMAIN wire /\ wire'[i] = wire[i]) \/ wire'[i] = x
        BY <3>4 DEF PageType
      <4> QED
        BY <2>2, <3>1, <3>2, <4>1 DEF Busy
    <3> QED
      BY <3>2, <3>3, <3>4
  <2> QED
    BY <2>1, <2>2
<1>2. CASE Receives
  <2>1. flow' = flow
    BY <1>2, ReceivesIs DEF pageVars
  <2>2. CASE wire' = wire
    BY <2>1, <2>2 DEF Busy
  <2>3. CASE wire # <<>> /\ wire' = Tail(wire)
    BY <2>1, <2>3, TailKept, KeptFrom, BusyLess
  <2> QED
    BY <1>2, <2>2, <2>3, ReceivesIs DEF Deaf
<1>3. CASE Tails
  <2>1. flow'[w].pc # "idle" => flow[w].pc # "idle"
    BY <1>3 DEF Tails, Told
  <2> QED
    BY <1>3, <2>1 DEF Tails, Busy
<1>4. CASE Breaks
  <2>1. PICK n \in 0..Len(wire) : wire' = SubSeq(wire, 1, n)
    BY <1>4 DEF Breaks
  <2>2. flow'[w].pc # "idle" => flow[w].pc # "idle"
    BY <1>4 DEF Breaks, Unheard
  <2> QED
    BY <2>1, <2>2, PrefixKept, KeptFrom, BusyLess
<1>5. CASE Reloads \/ \E v \in Click : Throws(v)
  <2>1. flow'[w].pc # "idle" => flow[w].pc # "idle"
    BY <1>5, SMTT(30) DEF Reloads, Throws, PageType, FlowType
  <2> QED
    BY <1>5, <2>1 DEF Reloads, Throws, Busy
<1>6. CASE Connects \/ Ends \/ Restarts
  <2>1. flow'[w].pc # "idle" => flow[w].pc # "idle"
    BY <1>6 DEF Connects, Ends, Restarts, Unheard, pageVars
  <2>2. wire' = <<>>
    BY <1>6 DEF Connects, Ends, Restarts
  <2> QED
    BY <2>1, <2>2 DEF Busy
<1>7. ASSUME UNCHANGED <<pageVars, wire>> PROVE Busy(w)
  BY <1>7 DEF Busy, pageVars
<1> QED
  BY <1>1, <1>2, <1>3, <1>4, <1>5, <1>6, <1>7
     DEF ApNext, InstallBegins, InstallErases, InstallWrites, InstallEnds, ShellOnly, GlyphRead, File

(* The new flow is the only one that begins.                               *)
LEMMA BusyClicked ==
  ASSUME PageType, WireInv, NEW f \in File, Clicked(f)
  PROVE  /\ clicks + 1 \in Click /\ clicks + 1 # 0
         /\ \A w \in Click : w # clicks + 1 => (Busy(w)' <=> Busy(w))
<1>1. clicks + 1 \in Click /\ clicks + 1 # 0
  BY BlocksNat DEF Clicked, PageType, Click
<1>2. ASSUME NEW w \in Click, w # clicks + 1 PROVE Busy(w)' <=> Busy(w)
  <2>1. flow'[w] = flow[w]
    BY <1>1, <1>2 DEF Clicked, PageType
  <2>2. PICK x : x.w = clicks + 1 /\ wire' = Append(wire, x)
    BY DEF Clicked, Send
  <2>3. \A i \in DOMAIN wire' : (i \in DOMAIN wire /\ wire'[i] = wire[i]) \/ wire'[i] = x
    BY <2>2 DEF PageType
  <2>4. \A i \in DOMAIN wire : i \in DOMAIN wire' /\ wire'[i] = wire[i]
    BY <2>2 DEF PageType
  <2> QED
    BY <1>2, <2>1, <2>2, <2>3, <2>4 DEF Busy
<1> QED
  BY <1>1, <1>2

LEMMA MixClicked ==
  ASSUME PageType, WireInv, ThreadType, MixInv, NEW f \in File, Clicked(f)
  PROVE  /\ MixInv'
         /\ \A w \in Click : Busy(w)' /\ w \notin mixed' => w = clicks + 1 /\ Writers = {}
<1>1. PICK c \in Click : c = clicks + 1
  BY BusyClicked
<1>2. \A w \in Click : w # c => (Busy(w)' <=> Busy(w))
  BY <1>1, BusyClicked
<1>3. mixed' = IF Writers = {} THEN mixed \ {c} ELSE mixed \cup Writers \cup {c}
  BY <1>1 DEF Clicked, Begins
<1>4. UNCHANGED <<install, ft>>
  BY DEF Clicked, DeviceStands
<1>5. CASE Writers = {}
  <2>1. install.pc = "idle" /\ \A w \in Click : ~Busy(w)
    BY <1>5 DEF Writers
  <2>2. \A w \in Click : Busy(w)' => w = c
    BY <1>2, <2>1
  <2> QED
    BY <1>1, <1>4, <1>5, <2>1, <2>2 DEF MixInv
<1>6. CASE Writers # {}
  <2>1. \A w \in Click : Busy(w)' => w \in mixed'
    BY <1>2, <1>3, <1>6 DEF Writers
  <2>2. install.pc # "idle" => 0 \in mixed'
    BY <1>3, <1>6 DEF Writers
  <2> QED
    BY <1>4, <2>1, <2>2 DEF MixInv
<1> QED
  BY <1>5, <1>6

LEMMA MixBegins ==
  ASSUME PageType, ThreadType, MixInv, NEW f, NEW n, InstallBegins(f, n)
  PROVE  /\ MixInv'
         /\ \A w \in Click : Busy(w)' => w \in mixed'
         /\ 0 \notin mixed' => ft.phase = "IDLE"
<1> DEFINE others == {w \in Click : Busy(w)} \cup (IF ft.phase # "IDLE" THEN {ft.w} ELSE {})
<1>1. /\ mixed' = IF others = {} THEN mixed \ {0} ELSE mixed \cup others \cup {0}
      /\ UNCHANGED <<flow, wire, ft>>
  BY DEF InstallBegins, Begins, ShellOnly, pageVars
<1>2. \A w \in Click : Busy(w)' <=> Busy(w)
  BY <1>1 DEF Busy
<1>3. CASE others = {}
  <2>1. ft.phase = "IDLE" /\ \A w \in Click : ~Busy(w)
    BY <1>3
  <2> QED
    BY <1>1, <1>2, <2>1 DEF MixInv
<1>4. CASE others # {}
  <2>1. 0 \in mixed' /\ \A w \in Click : Busy(w) => w \in mixed'
    BY <1>1, <1>4
  <2> QED
    BY <1>1, <1>2, <2>1 DEF MixInv
<1> QED
  BY <1>3, <1>4

LEMMA MixStep ==
  ASSUME PageType, PageType', ThreadType, WireInv, ConnInv, FtInv, MixInv, ApNext
  PROVE  MixInv'
<1>1. ASSUME NEW f \in File, Clicked(f) PROVE MixInv'
  BY <1>1, MixClicked
<1>2. ASSUME NEW f, NEW n, InstallBegins(f, n) PROVE MixInv'
  BY <1>2, MixBegins
<1>3. ASSUME \A f \in File : ~Clicked(f), mixed' = mixed,
             install'.pc # "idle" => install.pc # "idle",
             ft'.phase # "IDLE" => ft.phase # "IDLE" \/ \E w \in Click : Busy(w)
      PROVE  MixInv'
  BY <1>3, BusyStep DEF MixInv
<1>4. CASE Receives
  <2>1. mixed' = mixed /\ install' = install
    BY <1>4, ReceivesIs
  <2>2. \A f \in File : ~Clicked(f)
    BY <1>4 DEF Receives, Clicked, DeviceStands
  <2>3. ASSUME ft'.phase # "IDLE", ft.phase = "IDLE" PROVE \E w \in Click : Busy(w)
    <3>1. ~Deaf
      BY <2>3 DEF Deaf
    <3>2. wire[1] \in Frame /\ Len(wire) > 0
      BY <1>4, <3>1, ReceivesIs
    <3>3. wire[1].w \in Click /\ 1 \in DOMAIN wire
      BY <3>2, WireType DEF Frame
    <3> QED
      BY <3>3 DEF Busy
  <2> QED
    BY <1>3, <2>1, <2>2, <2>3
<1>5. CASE Tails
  <2>1. \A f \in File : ~Clicked(f)
    BY <1>5 DEF Tails, Clicked, PageType
  <2> QED
    BY <1>3, <1>5, <2>1 DEF Tails
<1>6. CASE ~(\E f \in File : Clicked(f)) /\ ~Receives /\ ~Tails /\ ~(\E f, n : InstallBegins(f, n))
  <2>1. mixed' = mixed /\ (install'.pc # "idle" => install.pc # "idle")
    <3>1. NoInstall.pc = "idle"
      BY DEF NoInstall
    <3> QED
      BY <1>6, <3>1 DEF ApNext, Sends, Throws, Breaks, Reloads, Connects, Ends, InstallErases, InstallWrites,
           InstallEnds, ShellOnly, GlyphRead, Restarts, DeviceStands, File
  <2>2. ft' = ft \/ ft' = FtIdle
    BY <1>6 DEF ApNext, Sends, Throws, Breaks, Reloads, Connects, Ends, InstallErases, InstallWrites,
           InstallEnds, ShellOnly, GlyphRead, Restarts, DeviceStands, File
  <2>3. FtIdle.phase = "IDLE"
    BY DEF FtIdle
  <2> QED
    BY <1>3, <1>6, <2>1, <2>2, <2>3
<1> QED
  BY <1>1, <1>2, <1>4, <1>5, <1>6

(* The flow that is alone, step by step.                                   *)
AloneOf(w) == (ft.phase = "ERASE" => ft.w = w) /\ \E k \in Nat : Reached(w, k)

LEMMA AloneIs == AloneInv <=> \A w \in Click : Busy(w) /\ w \notin mixed => AloneOf(w)
BY DEF AloneInv, AloneOf

LEMMA AloneClicked ==
  ASSUME PageType, ThreadType, WireInv, FtInv, MixInv, NEW f \in File, Clicked(f),
         NEW w \in Click, Busy(w)', w \notin mixed'
  PROVE  AloneOf(w)'
<1>1. w = clicks + 1 /\ Writers = {} /\ clicks \in Nat
  BY MixClicked DEF PageType
<1>2. \A v \in Click : ~Busy(v)
  BY <1>1 DEF Writers
<1>3. Len(wire) = 0
  <2> SUFFICES ASSUME Len(wire) # 0 PROVE FALSE
    OBVIOUS
  <2>1. 1 \in DOMAIN wire /\ wire[1] \in Frame
    BY WireType
  <2> QED
    BY <1>2, <2>1 DEF Busy, Frame
<1>4. ft.phase # "ERASE"
  <2> SUFFICES ASSUME ft.phase = "ERASE" PROVE FALSE
    OBVIOUS
  <2>1. page_ws = "open" /\ ft.w \in Click
    BY SizeNat DEF FtInv, WireInv, Clicked
  <2>2. Coming(ft.w, ft.erase_off + (IF ws_at = "tail" THEN 2 ELSE 1))
    BY <2>1 DEF FtInv
  <2>3. Busy(ft.w)
    BY <2>2 DEF Coming, Unsent, UnderWay, Busy
  <2> QED
    BY <1>2, <2>1, <2>3
<1>5. ft.phase # "IDLE" => ft.w # w
  BY <1>1 DEF FtInv
<1>6. UNCHANGED <<ft, page_ws>> /\ page_ws = "open"
  BY DEF Clicked, DeviceStands
<1>7. /\ flow'[w].pc = (IF f \in FontFile THEN "wait" ELSE "send")
      /\ flow'[w].sent = 0 /\ flow'[w].progress = FALSE
  BY <1>1 DEF Clicked, NoFlow, PageType
<1>8. PICK x : /\ wire' = Append(wire, x) /\ x.w = w
               /\ x.kind \in {"font_start", "fw_start"}
  BY <1>1 DEF Clicked, Send
<1>9. Len(wire') = 1 /\ wire'[1] = x
  BY <1>3, <1>8 DEF PageType
<1>10. Turn(wire[1])' = 1
  BY <1>8, <1>9 DEF Turn
<1>11. Line(w, 0)'
  <2>1. ASSUME NEW j \in 1..1 PROVE wire'[j].w = w /\ Turn(wire[j])' = 0 + j
    BY <1>8, <1>9, <1>10
  <2> QED
    BY <1>6, <1>7, <1>9, <2>1 DEF Line
<1>12. FtGot(w, 0)' /\ FwGot(w, 0)'
  BY <1>4, <1>5, <1>6, <1>7 DEF FtGot, FwGot
<1>13. Reached(w, 0)'
  BY <1>11, <1>12 DEF Reached
<1> QED
  BY <1>4, <1>6, <1>13 DEF AloneOf

(* A step of another flow is impossible, and one of its own keeps order.   *)
LEMMA AloneSends ==
  ASSUME PageType, WireInv, MixInv, AloneInv, NEW v \in Click, Sends(v),
         NEW w \in Click, Busy(w)', w \notin mixed', Busy(w)
  PROVE  AloneOf(w)'
<1>1. UNCHANGED <<mixed, page_ws, clicks, ft, fw_up, font_part>> /\ flow[v].pc = "send"
  BY DEF Sends, DeviceStands
<1>2. v = w
  BY <1>1 DEF MixInv, Busy
<1>3. AloneOf(w)
  BY <1>1, AloneIs
<1>4. PICK k \in Nat : Reached(w, k)
  BY <1>3 DEF AloneOf
<1>5. w \in 1..clicks
  BY <1>1, <1>2 DEF WireInv, FlowInv, Click, NoFlow, PageType
<1>6. PICK s \in Nat, i \in Nat : s = Size(w) /\ i = flow[w].sent + 1 /\ i <= s + 1
  BY <1>5, SizeNat DEF WireInv
<1>7. flow' = IF i <= s THEN [flow EXCEPT ![w].sent = i] ELSE [flow EXCEPT ![w].pc = "idle"]
  BY <1>2, <1>6 DEF Sends, Size
<1>8. flow \in [Click -> FlowType] /\ flow[w] \in FlowType
  BY DEF PageType
<1>9. /\ flow'[w].file = flow[w].file /\ flow'[w].progress = flow[w].progress
      /\ i <= s => flow'[w].pc = "send" /\ flow'[w].sent = i
      /\ ~(i <= s) => flow'[w].pc = "idle"
      /\ Size(w)' = s
  <2>1. CASE i <= s
    <3>1. flow' = [flow EXCEPT ![w] = [flow[w] EXCEPT !.sent = i]]
      BY <1>7, <2>1
    <3>2. flow'[w] = [flow[w] EXCEPT !.sent = i]
      BY <1>8, <3>1
    <3> QED
      BY <1>1, <1>2, <1>6, <1>8, <2>1, <3>2 DEF FlowType, Size
  <2>2. CASE ~(i <= s)
    <3>1. flow' = [flow EXCEPT ![w] = [flow[w] EXCEPT !.pc = "idle"]]
      BY <1>7, <2>2
    <3>2. flow'[w] = [flow[w] EXCEPT !.pc = "idle"]
      BY <1>8, <3>1
    <3> QED
      BY <1>6, <1>8, <2>2, <3>2 DEF FlowType, Size
  <2> QED
    BY <2>1, <2>2
<1>10. ~(ft.phase = "ERASE" /\ ft.w = w /\ flow[w].file \in FontFile)
  BY <1>1, <1>2, <1>4 DEF Reached, FtGot
<1>11. FtGot(w, k) /\ flow[w].file \in FontFile => FtGot(w, k)'
  <2> SUFFICES ASSUME FtGot(w, k), flow[w].file \in FontFile PROVE FtGot(w, k)'
    OBVIOUS
  <2>1. flow'[w].progress => k > 0 /\ (ft'.phase = "IDLE" \/ ft'.w = w)
    BY <1>1, <1>9 DEF FtGot
  <2>2. ~(ft'.phase = "ERASE" /\ ft'.w = w)
    BY <1>1, <1>10
  <2>3. ft'.phase = "DATA" /\ ft'.w = w =>
         /\ k > 0 /\ Filled(flow[w].file, ft.off)'
         /\ IF ft'.failed THEN ft'.off < Size(w)' ELSE k = ft'.off + 1
    BY <1>1, <1>6, <1>9 DEF FtGot, Filled
  <2> QED
    BY <2>1, <2>2, <2>3 DEF FtGot
<1>12. FwGot(w, k) => FwGot(w, k)'
  BY <1>1, <1>9 DEF FwGot
<1>13. Line(w, k)'
  <2>0. Line(w, k)
    BY <1>4 DEF Reached
  <2>1. CASE page_ws # "open"
    <3>1. wire' = wire
      BY <2>1 DEF Sends, Send
    <3>2. ASSUME NEW j \in 1..Len(wire) PROVE wire[j].w = w /\ Turn(wire[j])' = k + j
      <4>1. wire[j].w = w /\ Turn(wire[j]) = k + j
        BY <2>0 DEF Line
      <4> QED
        BY <1>6, <1>9, <3>1, <4>1 DEF Turn
    <3> QED
      BY <1>1, <2>1, <3>1, <3>2 DEF Line
  <2>2. CASE page_ws = "open"
    <3>1. PICK x : wire' = Append(wire, x) /\ x.w = w
                   /\ IF i <= s THEN x.kind = "binary" /\ x.block = i
                      ELSE x.kind \in {"font_end", "fw_end"}
      BY <1>2, <1>6, <2>2 DEF Sends, Send, Size
    <3>2. PICK l \in Nat : l = Len(wire)
      BY WireType
    <3>3. Len(wire') = l + 1 /\ wire'[l + 1] = x /\ \A j \in 1..l : wire'[j] = wire[j]
      BY <3>1, <3>2 DEF PageType
    <3>4. k + l = i
      BY <1>1, <1>2, <1>6, <2>0, <2>2, <3>2 DEF Line
    <3>5. Turn(wire[l + 1])' = i + 1
      BY <1>6, <1>9, <3>1, <3>3 DEF Turn
    <3>6. ASSUME NEW j \in 1..(l + 1) PROVE wire'[j].w = w /\ Turn(wire[j])' = k + j
      <4>1. CASE j = l + 1
        BY <3>1, <3>3, <3>4, <3>5, <4>1
      <4>2. CASE j \in 1..l
        <5>1. wire[j].w = w /\ Turn(wire[j]) = k + j
          BY <2>0, <3>2, <4>2 DEF Line
        <5> QED
          BY <1>6, <1>9, <3>3, <4>2, <5>1 DEF Turn
      <4> QED
        BY <3>2, <4>1, <4>2
    <3>7. k + Len(wire') = (IF flow'[w].pc = "wait" THEN 1
                            ELSE IF flow'[w].pc = "send" THEN flow'[w].sent + 1 ELSE Size(w)' + 2)
      <4>1. k + Len(wire') = i + 1
        BY <3>2, <3>3, <3>4
      <4>2. CASE i <= s
        BY <1>9, <4>1, <4>2
      <4>3. CASE ~(i <= s)
        <5>1. i = s + 1
          BY <1>6, <4>3
        <5> QED
          BY <1>9, <4>1, <4>3, <5>1
      <4> QED
        BY <4>2, <4>3
    <3> QED
      BY <3>3, <3>6, <3>7 DEF Line
  <2> QED
    BY <2>1, <2>2
<1>14. Reached(w, k)'
  BY <1>4, <1>9, <1>11, <1>12, <1>13 DEF Reached
<1> QED
  BY <1>1, <1>3, <1>14 DEF AloneOf

(* The page gives up: what the device has of the flow stays.               *)
LEMMA AloneGivesUp ==
  ASSUME PageType, WireInv, AloneInv, UNCHANGED <<mixed, ft, fw_up, font_part>>,
         page_ws' = "closed", \A v \in Click : Resigns(v), NEW n, Kept(0, n),
         NEW w \in Click, Busy(w)', w \notin mixed', Busy(w)
  PROVE  AloneOf(w)'
<1>1. AloneOf(w)
  BY AloneIs
<1>2. PICK k \in Nat : Reached(w, k)
  BY <1>1 DEF AloneOf
<1>3. /\ flow'[w].file = flow[w].file /\ flow'[w].progress = flow[w].progress
      /\ flow'[w].pc = flow[w].pc \/ flow'[w].pc = "idle"
      /\ Size(w)' = Size(w)
  BY ResignShrinks DEF WireInv, Size
<1>4. /\ n \in Nat /\ n <= Len(wire) /\ Len(wire) \in Nat /\ Len(wire') = n
      /\ \A i \in 1..n : wire'[i] = wire[i] /\ i \in 1..Len(wire)
  BY WireType DEF Kept
<1>5. Line(w, k)'
  <2>1. ASSUME NEW j \in 1..n PROVE wire'[j].w = w /\ Turn(wire[j])' = k + j
    <3>1. wire[j].w = w /\ Turn(wire[j]) = k + j
      BY <1>2, <1>4 DEF Reached, Line
    <3> QED
      BY <1>3, <1>4, <3>1 DEF Turn
  <2> QED
    BY <1>4, <2>1 DEF Line
<1>6. FwGot(w, k) => FwGot(w, k)'
  BY <1>3 DEF FwGot
<1>7. FtGot(w, k) => FtGot(w, k)'
  <2> SUFFICES ASSUME FtGot(w, k) PROVE FtGot(w, k)'
    OBVIOUS
  <2>1. wire = <<>> => wire' = <<>>
    <3> SUFFICES ASSUME wire = <<>> PROVE wire' = <<>>
      OBVIOUS
    <3>1. Len(wire) = 0 /\ n = 0
      BY <1>4, EmptySeq
    <3> QED
      BY <3>1, <1>4
  <2>2. flow[w].pc # "send" => flow'[w].pc # "send"
    BY <1>3
  <2>3. Filled(flow[w].file, ft.off)' <=> Filled(flow[w].file, ft.off)
    BY <1>3 DEF Filled
  <2> QED
    BY <1>3, <2>1, <2>2, <2>3 DEF FtGot
<1>8. Reached(w, k)'
  BY <1>2, <1>3, <1>5, <1>6, <1>7 DEF Reached
<1> QED
  BY <1>1, <1>8 DEF AloneOf

(* The connection and the device begin anew: only frames that come from    *)
(* now on count.                                                           *)
LEMMA AloneAnew ==
  ASSUME PageType', WireInv', ft' = FtIdle, fw_up' = FwIdle, wire' = <<>>,
         \A v \in Click : flow'[v].pc # "wait",
         NEW w \in Click, Busy(w)'
  PROVE  AloneOf(w)'
<1>1. flow'[w].pc = "send" /\ flow'[w].sent \in Nat
  BY DEF Busy, PageType, FlowType
<1>2. PICK k \in Nat : k = flow'[w].sent + 1 /\ k > 0
  BY <1>1
<1>3. Len(wire') = 0
  BY EmptySeq
<1>4. Line(w, k)'
  <2>1. ASSUME NEW j \in 1..0 PROVE FALSE
    OBVIOUS
  <2> QED
    BY <1>1, <1>2, <1>3, <2>1 DEF Line
<1>5. FtGot(w, k)' /\ FwGot(w, k)'
  BY <1>2 DEF FtGot, FwGot, FtIdle, FwIdle
<1>6. Reached(w, k)'
  BY <1>4, <1>5 DEF Reached
<1> QED
  BY <1>6 DEF AloneOf, FtIdle

LEMMA FilledOn ==
  ASSUME font_part \in PartOf, NEW f \in FontFile, NEW n \in Nat, n < Blocks[f], Filled(f, n),
         font_part' = Programmed(font_part, n + 1, <<f, n + 1>>)
  PROVE  Filled(f, n + 1)'
<1>1. PICK s \in Nat : s = Blocks[f] /\ s <= FontMax /\ FontMax \in Nat
  BY BlocksNat DEF File
<1>2. font_part[n + 1] = Blank /\ n + 1 \in 1..FontMax
  BY <1>1 DEF Filled
<1>3. font_part' = [font_part EXCEPT ![n + 1] = <<f, n + 1>>]
  BY <1>2 DEF Programmed
<1>4. ASSUME NEW i \in 1..s PROVE font_part'[i] = IF i = n + 1 THEN <<f, n + 1>> ELSE font_part[i]
  <2>1. i \in 1..FontMax
    BY <1>1
  <2> QED
    BY <1>2, <1>3, <2>1 DEF PartOf
<1>5. ASSUME NEW i \in 1..(n + 1) PROVE font_part'[i] = <<f, i>>
  <2>1. i \in 1..s
    BY <1>1
  <2>2. CASE i = n + 1
    BY <1>4, <2>1, <2>2
  <2>3. CASE i # n + 1
    <3>1. i \in 1..n
      BY <2>3
    <3> QED
      BY <1>4, <2>1, <2>3, <3>1 DEF Filled
  <2> QED
    BY <2>2, <2>3
<1>6. ASSUME NEW i \in (n + 1 + 1)..s PROVE font_part'[i] = Blank
  <2>1. i \in 1..s /\ i # n + 1 /\ i \in (n + 1)..s
    OBVIOUS
  <2> QED
    BY <1>1, <1>4, <2>1 DEF Filled
<1> QED
  BY <1>1, <1>5, <1>6 DEF Filled

(* A frame of the font flow that is alone.                                 *)
LEMMA FontTaken ==
  ASSUME ApTypeOK, WireInv, FtInv, NEW x \in Frame, FrameOK(x), NEW ok \in BOOLEAN, FrameTaken(x, ok),
         UNCHANGED pageVars, flow[x.w].file \in FontFile, wire # <<>>,
         NEW k \in Nat, FtGot(x.w, k), Turn(x) = k + 1,
         k = 0 => wire' = <<>> /\ flow[x.w].pc # "send"
  PROVE  FtGot(x.w, k + 1)'
<1> DEFINE w == x.w
<1>1. /\ flow' = flow /\ w \in 1..clicks /\ w \in Click /\ flow[w] \in FlowType /\ flow[w].file \in File
      /\ k + 1 > 0 /\ Size(w) \in Nat /\ Size(w) > 0 /\ Size(w)' = Size(w) /\ k + 1 \in Nat
  BY SizeNat DEF pageVars, FrameOK, Size, ApTypeOK, WireInv
<1>2. PICK s \in Nat : s = Size(w) /\ s = Blocks[flow[w].file]
  BY <1>1 DEF Size
<1>3. ft \in FtType /\ ft.w \in Nat /\ ft.off \in Nat /\ ft.failed \in BOOLEAN
  BY FtTyped DEF ApTypeOK
<1>4. x.kind \in {"font_start", "binary", "font_end"}
  BY DEF FrameOK, Frame
<1>5. CASE x.kind = "font_start"
  <2>1. k = 0
    BY <1>5 DEF Turn
  <2>2. /\ UNCHANGED font_part
        /\ ft' = ft \/ (ft.phase = "IDLE" /\ ft' = [FtIdle EXCEPT !.phase = "ERASE", !.w = w])
    BY <1>5 DEF FrameTaken, FontStart
  <2>3. ~flow[w].progress /\ ~(ft.phase = "ERASE" /\ ft.w = w) /\ ~(ft.phase = "DATA" /\ ft.w = w)
    BY <2>1 DEF FtGot
  <2>4. CASE ft' = ft
    BY <1>1, <2>3, <2>4 DEF FtGot
  <2>5. CASE ft' = [FtIdle EXCEPT !.phase = "ERASE", !.w = w]
    <3>1. ft'.phase = "ERASE" /\ ft'.w = w /\ ft'.erase_off = 0
      BY <2>5 DEF FtIdle
    <3>2. wire' = <<>> /\ flow'[w].pc # "send" /\ k + 1 = 1
      BY <1>1, <2>1
    <3>3. \A i \in 1..ft'.erase_off : font_part'[i] = Blank
      BY <3>1
    <3> QED
      BY <1>1, <2>3, <3>1, <3>2, <3>3 DEF FtGot
  <2> QED
    BY <2>2, <2>4, <2>5
<1>6. CASE x.kind \in {"binary", "font_end"}
  <2>1. flow[w].progress /\ k > 0
    <3>1. Turn(x) > 1
      BY <1>1, <1>6 DEF Turn, FrameOK
    <3> QED
      BY <3>1 DEF FrameOK
  <2>2. ft.phase = "IDLE" \/ (ft.phase = "DATA" /\ ft.w = w)
    BY <1>3, <2>1 DEF FtGot, ApTypeOK, ThreadType, FtType
  <2>3. CASE ft' = ft /\ UNCHANGED font_part /\ (ft.phase = "IDLE" \/ ft.failed)
    <3>1. Filled(flow[w].file, ft.off)' <=> Filled(flow[w].file, ft.off)
      BY <1>1, <2>3 DEF Filled
    <3> QED
      BY <1>1, <2>1, <2>2, <2>3, <3>1 DEF FtGot
  <2>4. CASE ft' = FtIdle
    BY <1>1, <2>4 DEF FtGot, FtIdle
  <2>5. CASE ft.phase = "DATA" /\ ~ft.failed /\ x.kind = "binary"
    <3>1. x.block = k /\ k \in 1..s /\ k = ft.off + 1 /\ Filled(flow[w].file, ft.off)
      <4>1. x.block + 1 = k + 1 /\ x.block \in 1..s /\ x.block \in Nat
        BY <1>2, <2>5 DEF Turn, FrameOK, Frame
      <4>2. k = ft.off + 1 /\ Filled(flow[w].file, ft.off)
        BY <2>2, <2>5 DEF FtGot
      <4> QED
        BY <4>1, <4>2
    <3>2. ft.off # Total(ft.w)
      BY <1>2, <1>3, <2>2, <2>5, <3>1 DEF Total
    <3>3. \/ /\ ft' = [ft EXCEPT !.off = ft.off + 1]
             /\ font_part' = Programmed(font_part, k, <<flow[w].file, k>>)
          \/ ft' = [ft EXCEPT !.failed = TRUE] /\ UNCHANGED font_part
      BY <2>5, <3>1, <3>2 DEF FrameTaken, Binary
    <3>4. CASE ft' = [ft EXCEPT !.failed = TRUE] /\ UNCHANGED font_part
      <4>1. ft'.phase = "DATA" /\ ft'.w = w /\ ft'.off = ft.off /\ ft'.failed = TRUE
        BY <1>3, <2>2, <2>5, <3>4 DEF FtType
      <4>2. Filled(flow[w].file, ft.off)' /\ ft.off < s
        BY <1>1, <1>3, <3>1, <3>4, <4>1 DEF Filled
      <4> QED
        BY <1>1, <1>2, <4>1, <4>2 DEF FtGot
    <3>5. CASE /\ ft' = [ft EXCEPT !.off = ft.off + 1]
               /\ font_part' = Programmed(font_part, k, <<flow[w].file, k>>)
      <4>1. ft'.phase = "DATA" /\ ft'.w = w /\ ft'.off = k /\ ft'.failed = FALSE
        BY <1>3, <2>2, <2>5, <3>1, <3>5 DEF FtType
      <4>2. PICK f \in FontFile, n \in Nat : f = flow[w].file /\ n = ft.off
        BY <1>3
      <4>3. /\ n + 1 = k /\ n < Blocks[f] /\ Filled(f, n) /\ font_part \in PartOf
            /\ font_part' = Programmed(font_part, n + 1, <<f, n + 1>>)
        BY <1>2, <3>1, <3>5, <4>2 DEF ApTypeOK, PartType
      <4>4. Filled(f, n + 1)'
        BY <4>3, FilledOn
      <4>5. Filled(flow[w].file, ft.off)'
        BY <1>1, <4>1, <4>2, <4>3, <4>4 DEF Filled
      <4> QED
        BY <1>1, <4>1, <4>5 DEF FtGot
    <3> QED
      BY <3>3, <3>4, <3>5
  <2>6. \/ ft' = ft /\ UNCHANGED font_part /\ (ft.phase = "IDLE" \/ ft.failed)
        \/ ft' = FtIdle
        \/ ft.phase = "DATA" /\ ~ft.failed /\ x.kind = "binary"
    <3>1. CASE x.kind = "binary"
      BY <2>2, <3>1 DEF FrameTaken, Binary
    <3>2. CASE x.kind = "font_end"
      <4>1. FontEnd(w)
        BY <3>2 DEF FrameTaken
      <4>2. ft.phase = "DATA" /\ ~ft.failed => ft.off = Total(ft.w)
        <5> SUFFICES ASSUME ft.phase = "DATA", ~ft.failed PROVE ft.off = Total(ft.w)
          OBVIOUS
        <5>1. k = ft.off + 1
          BY <2>2 DEF FtGot
        <5>2. k + 1 = s + 2
          BY <1>2, <3>2 DEF Turn
        <5> QED
          BY <1>2, <1>3, <2>2, <5>1, <5>2, SMTT(30) DEF Total
      <4> QED
        BY <2>2, <4>1, <4>2 DEF FontEnd
    <3> QED
      BY <1>6, <3>1, <3>2
  <2> QED
    BY <2>3, <2>4, <2>5, <2>6
<1> QED
  BY <1>4, <1>5, <1>6

(* A frame of the firmware flow that is alone.                             *)
LEMMA FwTaken ==
  ASSUME ApTypeOK, WireInv, NEW x \in Frame, FrameOK(x), NEW ok \in BOOLEAN, FrameTaken(x, ok),
         UNCHANGED pageVars, flow[x.w].file \notin FontFile,
         NEW k \in Nat, FwGot(x.w, k), Turn(x) = k + 1
  PROVE  FwGot(x.w, k + 1)'
<1> DEFINE w == x.w
<1>1. flow' = flow /\ fw_up \in FwType /\ fw_up.data \in Seq(File \X Nat) /\ Len(fw_up.data) \in Nat
  BY DEF pageVars, ApTypeOK, ThreadType, FwType
<1>2. x.kind \in {"fw_start", "binary", "fw_end"}
  BY DEF FrameOK, Frame
<1>3. CASE x.kind = "fw_end"
  <2>1. fw_up' = FwIdle
    BY <1>3 DEF FrameTaken, FwEnd
  <2> QED
    BY <2>1 DEF FwGot, FwIdle
<1>4. CASE x.kind = "fw_start"
  <2>1. k = 0
    BY <1>4 DEF Turn
  <2>2. fw_up' = FwIdle \/ fw_up' = [FwIdle EXCEPT !.active = TRUE, !.w = w]
    BY <1>4 DEF FrameTaken, FwStart
  <2>3. CASE fw_up' = FwIdle
    BY <2>3 DEF FwGot, FwIdle
  <2>4. CASE fw_up' = [FwIdle EXCEPT !.active = TRUE, !.w = w]
    <3>1. fw_up'.w = w /\ fw_up'.data = <<>> /\ Len(fw_up'.data) = 0
      BY <2>4, EmptySeq DEF FwIdle
    <3>2. \A i \in 1..Len(fw_up'.data) : FALSE
      BY <3>1
    <3> QED
      BY <2>1, <3>1, <3>2 DEF FwGot
  <2> QED
    BY <2>2, <2>3, <2>4
<1>5. CASE x.kind = "binary"
  <2>1. x.block = k /\ k > 0
    BY <1>5 DEF Turn, FrameOK, Frame
  <2> DEFINE blk == <<flow[w].file, k>>
  <2>2. \/ fw_up' = fw_up
        \/ fw_up' = [fw_up EXCEPT !.failed = TRUE]
        \/ fw_up' = [fw_up EXCEPT !.data = Append(fw_up.data, blk)] /\ fw_up.active /\ ~fw_up.failed
    BY <1>5, <2>1 DEF FrameTaken, Binary
  <2>3. CASE fw_up' = fw_up
    BY <1>1, <2>1, <2>3 DEF FwGot
  <2>4. CASE fw_up' = [fw_up EXCEPT !.failed = TRUE]
    <3>1. fw_up'.w = fw_up.w /\ fw_up'.failed = TRUE /\ fw_up'.active = fw_up.active
      BY <1>1, <2>4 DEF FwType
    <3> QED
      BY <2>1, <3>1 DEF FwGot
  <2>5. CASE fw_up' = [fw_up EXCEPT !.data = Append(fw_up.data, blk)] /\ fw_up.active /\ ~fw_up.failed
    <3> HIDE DEF blk
    <3>1. /\ fw_up'.w = fw_up.w /\ fw_up'.data = Append(fw_up.data, blk)
          /\ fw_up'.active = fw_up.active /\ fw_up'.failed = fw_up.failed
      BY <1>1, <2>5 DEF FwType
    <3>2. PICK d \in Seq(File \X Nat) : d = fw_up.data
      BY <1>1
    <3>3. PICK l \in Nat : l = Len(d)
      BY <1>1, <3>2
    <3>4. Len(fw_up'.data) = l + 1 /\ fw_up'.data[l + 1] = blk /\ \A i \in 1..l : fw_up'.data[i] = d[i]
      BY <3>1, <3>2, <3>3
    <3>5. fw_up.w = w /\ l < k /\ (l + 1 = k => \A i \in 1..l : d[i] = <<flow[w].file, i>>)
      BY <2>1, <2>5, <3>2, <3>3 DEF FwGot
    <3>6. ASSUME l + 1 + 1 = k + 1, NEW i \in 1..(l + 1) PROVE fw_up'.data[i] = <<flow[w].file, i>>
      <4>1. CASE i = l + 1
        BY <3>3, <3>4, <3>6, <4>1 DEF blk
      <4>2. CASE i \in 1..l
        BY <3>3, <3>4, <3>5, <3>6, <4>2
      <4> QED
        BY <3>3, <4>1, <4>2
    <3>7. l + 1 < k + 1
      BY <3>3, <3>5
    <3> QED
      BY <1>1, <3>1, <3>4, <3>5, <3>6, <3>7 DEF FwGot
  <2> QED
    BY <2>2, <2>3, <2>4, <2>5
<1> QED
  BY <1>2, <1>3, <1>4, <1>5

LEMMA AloneReceives ==
  ASSUME ApTypeOK, WireInv, FtInv, MixInv, AloneInv, Receives,
         NEW w \in Click, Busy(w)', w \notin mixed', Busy(w)
  PROVE  AloneOf(w)'
<1>1. /\ UNCHANGED <<pageVars, mixed>> /\ flow' = flow /\ page_ws' = page_ws
      /\ flow[w] \in FlowType /\ Size(w)' = Size(w)
  BY ReceivesIs DEF pageVars, ApTypeOK, PageType, Size
<1>2. AloneOf(w)
  BY <1>1, AloneIs
<1>3. PICK k \in Nat : Reached(w, k)
  BY <1>2 DEF AloneOf
<1>4. CASE Deaf
  <2>1. UNCHANGED <<wire, ft, fw_up, font_part>>
    BY <1>4 DEF Deaf
  <2>2. Line(w, k)' /\ (FtGot(w, k) => FtGot(w, k)') /\ (FwGot(w, k) => FwGot(w, k)')
    BY <1>1, <1>3, <2>1 DEF Reached, Line, FtGot, FwGot, Filled, Turn, Size
  <2>3. Reached(w, k)'
    BY <1>1, <1>3, <2>2 DEF Reached
  <2> QED
    BY <1>2, <2>1, <2>3 DEF AloneOf
<1>5. CASE ~Deaf
  <2>1. /\ wire # <<>> /\ wire' = Tail(wire) /\ Len(wire) > 0
        /\ \E ok \in BOOLEAN : wire[1] \in Frame /\ FrameTaken(wire[1], ok)
    BY <1>5, ReceivesIs DEF ApTypeOK
  <2>2. PICK ok \in BOOLEAN, x \in Frame : x = wire[1] /\ FrameTaken(x, ok)
    BY <2>1
  <2>3. PICK n \in Nat : n + 1 = Len(wire) /\ Kept(1, n)
    <3>1. Kept(1, Len(wire) - 1) /\ Len(wire) > 0 /\ Len(wire) \in Nat
      BY <2>1, TailKept, WireType DEF ApTypeOK
    <3>2. Len(wire) - 1 \in Nat /\ (Len(wire) - 1) + 1 = Len(wire)
      BY <3>1
    <3> QED
      BY <3>1, <3>2
  <2>4. /\ 1 \in 1..Len(wire) /\ 1 \in DOMAIN wire /\ DOMAIN wire = 1..(n + 1)
        /\ Len(wire') = n /\ \A i \in 1..n : wire'[i] = wire[i + 1] /\ i + 1 \in 1..(n + 1)
    BY <2>3, WireType DEF Kept, ApTypeOK
  <2>5. FrameOK(x)
    BY <2>2, <2>4 DEF WireInv, WireFrames
  <2>6. x.w = w
    <3>1. x.w \in Click /\ Busy(x.w)
      BY <2>2, <2>4 DEF Busy, Frame
    <3> QED
      BY <1>1, <3>1 DEF MixInv
  <2>7. Line(w, k) /\ Turn(x) = k + 1
    BY <1>3, <2>2, <2>4 DEF Reached, Line
  <2>8. Line(w, k + 1)'
    <3>1. ASSUME NEW j \in 1..n PROVE wire'[j].w = w /\ Turn(wire[j])' = (k + 1) + j
      <4>1. wire'[j] = wire[j + 1] /\ j + 1 \in 1..Len(wire)
        BY <2>3, <2>4
      <4>2. wire[j + 1].w = w /\ Turn(wire[j + 1]) = k + (j + 1)
        BY <2>7, <4>1 DEF Line
      <4>3. Turn(wire[j])' = Turn(wire[j + 1])
        BY <1>1, <4>1 DEF Turn, Size
      <4> QED
        BY <4>1, <4>2, <4>3
    <3>2. (k + 1) + n = k + Len(wire)
      BY <2>3
    <3> QED
      BY <1>1, <2>4, <2>7, <3>1, <3>2 DEF Line
  <2>9. CASE flow[w].file \in FontFile
    <3>1. FtGot(w, k)
      BY <1>3, <2>9 DEF Reached
    <3>2. ASSUME k = 0 PROVE wire' = <<>> /\ flow[w].pc # "send"
      <4>1. ~flow[w].progress
        BY <3>1, <3>2 DEF FtGot
      <4>2. flow[w].pc # "send"
        BY <2>9, <4>1 DEF WireInv, FlowInv
      <4>3. n = 0
        <5> SUFFICES ASSUME n # 0 PROVE FALSE
          OBVIOUS
        <5>1. 2 \in 1..Len(wire)
          BY <2>3
        <5>2. wire[2].w = w /\ Turn(wire[2]) = 2
          BY <2>7, <3>2, <5>1 DEF Line
        <5>3. FrameOK(wire[2])
          BY <5>1 DEF WireInv, WireFrames
        <5> QED
          BY <2>9, <4>1, <5>2, <5>3 DEF FrameOK
      <4>4. wire' \in Seq(Frame)
        BY <2>1, HeadTailProperties DEF ApTypeOK, PageType
      <4>5. wire' = <<>>
        BY <2>4, <4>3, <4>4, EmptySeq
      <4> QED
        BY <4>2, <4>5
    <3>3. FtGot(x.w, k + 1)'
      BY <1>1, <2>1, <2>2, <2>5, <2>6, <2>7, <2>9, <3>1, <3>2, FontTaken
    <3>4. FtGot(w, k + 1)'
      BY <2>6, <3>3
    <3>5. Reached(w, k + 1)'
      BY <1>1, <2>8, <2>9, <3>4 DEF Reached
    <3>6. ft'.phase = "ERASE" => ft'.w = w
      <4>1. ft'.phase = "ERASE" => ft' = ft \/ ft'.w = x.w
        <5>1. \/ ft' = ft \/ ft' = FtIdle \/ ft' = [FtIdle EXCEPT !.phase = "ERASE", !.w = x.w]
              \/ /\ ft.phase = "DATA"
                 /\ ft' = [ft EXCEPT !.off = @ + 1] \/ ft' = [ft EXCEPT !.failed = TRUE]
          BY <2>2 DEF FrameTaken, FwStart, FwEnd, FontStart, FontEnd, Binary
        <5>2. FtIdle.phase = "IDLE" /\ [FtIdle EXCEPT !.phase = "ERASE", !.w = x.w].w = x.w
          BY DEF FtIdle
        <5>3. ft.phase = "DATA" => /\ [ft EXCEPT !.off = @ + 1].phase = "DATA"
                                   /\ [ft EXCEPT !.failed = TRUE].phase = "DATA"
          BY FtTyped DEF ApTypeOK, FtType
        <5> QED
          BY <5>1, <5>2, <5>3
      <4> QED
        BY <1>2, <2>6, <4>1 DEF AloneOf
    <3> QED
      BY <3>5, <3>6 DEF AloneOf
  <2>10. CASE flow[w].file \notin FontFile
    <3>1. FwGot(x.w, k)
      BY <1>3, <2>6, <2>10 DEF Reached
    <3>2. FwGot(x.w, k + 1)'
      BY <1>1, <2>2, <2>5, <2>6, <2>7, <2>10, <3>1, FwTaken
    <3>3. FwGot(w, k + 1)'
      BY <2>6, <3>2
    <3>4. Reached(w, k + 1)'
      BY <1>1, <2>8, <2>10, <3>3 DEF Reached
    <3>5. ft'.phase = "ERASE" => ft' = ft
      BY <2>2, <2>5, <2>6, <2>10 DEF FrameOK, FrameTaken, FwStart, FwEnd, FontStart, FontEnd, Binary, FtIdle,
         ApTypeOK, ThreadType, FtType
    <3> QED
      BY <1>2, <3>4, <3>5 DEF AloneOf
  <2> QED
    BY <2>9, <2>10
<1> QED
  BY <1>4, <1>5

LEMMA AloneTails ==
  ASSUME ApTypeOK, WireInv, FtInv, AloneInv, Tails,
         NEW w \in Click, Busy(w)', w \notin mixed', Busy(w)
  PROVE  AloneOf(w)'
<1>1. UNCHANGED <<clicks, page_ws, wire, fw_up, mixed>> /\ flow[w] \in FlowType /\ ft \in FtType
  BY DEF Tails, ApTypeOK, PageType, ThreadType
<1>2. AloneOf(w)
  BY <1>1, AloneIs
<1>3. PICK k \in Nat : Reached(w, k)
  BY <1>2 DEF AloneOf
<1>4. \/ flow'[w] = flow[w]
      \/ /\ flow[w].pc = "wait" /\ ft'.phase = "ERASE"
         /\ flow'[w] = [flow[w] EXCEPT !.progress = TRUE]
      \/ /\ flow[w].pc = "wait" /\ ft'.phase # "ERASE" /\ flow[w].progress
         /\ flow'[w] = [flow[w] EXCEPT !.pc = "send"]
  BY DEF Tails, Told
<1>5. /\ flow'[w].file = flow[w].file /\ flow'[w].sent = flow[w].sent
      /\ flow'[w].progress => flow[w].progress \/ ft'.phase = "ERASE"
      /\ flow[w].pc # "wait" => flow'[w].pc = flow[w].pc
      /\ flow[w].pc = "wait" => flow'[w].pc = "wait" \/ (flow'[w].pc = "send" /\ ft'.phase # "ERASE")
  BY <1>1, <1>4 DEF FlowType
<1>6. /\ Size(w)' = Size(w)
      /\ flow[w].pc = "wait" => flow[w].sent = 0 /\ flow[w].file \in FontFile
  BY <1>5 DEF Size, WireInv, FlowInv
<1>7. Line(w, k)'
  <2>1. ASSUME NEW j \in 1..Len(wire) PROVE wire[j].w = w /\ Turn(wire[j])' = k + j
    <3>1. wire[j].w = w /\ Turn(wire[j]) = k + j
      BY <1>3 DEF Reached, Line
    <3> QED
      BY <1>1, <1>6, <3>1 DEF Turn
  <2>2. Line(w, k)
    BY <1>3 DEF Reached
  <2> QED
    BY <1>1, <1>5, <1>6, <2>1, <2>2 DEF Line
<1>8. CASE flow[w].file \notin FontFile
  <2>1. ft.phase # "ERASE"
    BY <1>2, <1>8 DEF AloneOf, FtInv
  <2>2. ft' = ft
    BY <2>1 DEF Tails
  <2>3. FwGot(w, k)'
    BY <1>1, <1>3, <1>5, <1>8 DEF Reached, FwGot
  <2>4. Reached(w, k)'
    BY <1>5, <1>7, <1>8, <2>3 DEF Reached
  <2> QED
    BY <2>1, <2>2, <2>4 DEF AloneOf
<1>9. CASE flow[w].file \in FontFile
  <2>1. FtGot(w, k)
    BY <1>3, <1>9 DEF Reached
  <2>2. CASE ft.phase # "ERASE"
    <3>1. ft' = ft /\ UNCHANGED font_part
      BY <2>2 DEF Tails
    <3>2. Filled(flow[w].file, ft.off)' <=> Filled(flow[w].file, ft.off)
      BY <1>5, <3>1 DEF Filled
    <3>3. FtGot(w, k)'
      BY <1>5, <1>6, <2>1, <2>2, <3>1, <3>2 DEF FtGot
    <3> QED
      BY <1>5, <1>7, <1>9, <2>2, <3>1, <3>3 DEF AloneOf, Reached
  <2>3. CASE ft.phase = "ERASE"
    <3>1. ft.w = w /\ k = 1 /\ wire = <<>> /\ flow[w].pc # "send"
          /\ \A i \in 1..ft.erase_off : font_part[i] = Blank
      BY <1>2, <2>1, <2>3 DEF AloneOf, FtGot
    <3>2. PICK s \in Nat, e \in Nat : s = Size(w) /\ s = Blocks[flow[w].file] /\ e = ft.erase_off /\ e < s
                                      /\ s <= FontMax /\ FontMax \in Nat
      <4>1. w \in 1..clicks
        BY <2>3, <3>1 DEF FtInv
      <4>2. Size(w) \in Nat /\ ft.erase_off \in Nat /\ ft.erase_off < Size(w)
        BY <2>3, <3>1, <4>1, SizeNat, FtTyped DEF FtInv, ApTypeOK, WireInv
      <4> QED
        BY <1>9, <4>2, BlocksNat DEF Size
    <3>3. CASE ft' = FtIdle
      <4>1. FtGot(w, k)'
        BY <3>1, <3>3 DEF FtGot, FtIdle
      <4> QED
        BY <1>5, <1>7, <1>9, <3>3, <4>1 DEF AloneOf, Reached, FtIdle
    <3>4. CASE ft' # FtIdle
      <4>1. /\ font_part' = [font_part EXCEPT ![e + 1] = Blank]
            /\ ft' = IF e + 1 = s THEN [ft EXCEPT !.phase = "DATA", !.erase_off = e + 1]
                     ELSE [ft EXCEPT !.erase_off = e + 1]
        BY <2>3, <3>1, <3>2, <3>4 DEF Tails, Erases, Total, Size
      <4>2. ft.off = 0 /\ ft.failed = FALSE
        BY <1>1, <2>3 DEF FtInv, FtType
      <4>3. ft'.w = w /\ ft'.off = 0 /\ ft'.failed = FALSE /\ ft'.erase_off = e + 1
            /\ ft'.phase = IF e + 1 = s THEN "DATA" ELSE "ERASE"
        BY <1>1, <2>3, <3>1, <4>1, <4>2 DEF FtType
      <4>4. ASSUME NEW i \in 1..(e + 1) PROVE font_part'[i] = Blank
        <5>1. i \in 1..FontMax
          BY <3>2
        <5>2. CASE i = e + 1
          BY <4>1, <5>1, <5>2 DEF ApTypeOK, PartType, PartOf
        <5>3. CASE i # e + 1
          <6>1. i \in 1..e
            BY <3>2, <5>3
          <6> QED
            BY <3>1, <3>2, <4>1, <5>1, <5>3, <6>1 DEF ApTypeOK, PartType, PartOf
        <5> QED
          BY <5>2, <5>3
      <4>5. CASE e + 1 = s
        <5>1. Filled(flow[w].file, ft.off)'
          <6>1. \A i \in 1..ft'.off : FALSE
            BY <4>3
          <6>2. \A i \in (ft'.off + 1)..s : font_part'[i] = Blank
            BY <4>3, <4>4, <4>5
          <6> QED
            BY <1>5, <3>2, <6>1, <6>2 DEF Filled
        <5>2. FtGot(w, k)'
          BY <3>1, <4>3, <4>5, <5>1 DEF FtGot
        <5> QED
          BY <1>5, <1>7, <1>9, <4>3, <4>5, <5>2 DEF AloneOf, Reached
      <4>6. CASE e + 1 # s
        <5>1. flow'[w].pc # "send"
          BY <1>5, <3>1, <4>3, <4>6
        <5>2. FtGot(w, k)'
          BY <1>1, <3>1, <4>3, <4>4, <4>6, <5>1 DEF FtGot
        <5> QED
          BY <1>5, <1>7, <1>9, <4>3, <4>6, <5>2 DEF AloneOf, Reached
      <4> QED
        BY <4>5, <4>6
    <3> QED
      BY <3>3, <3>4
  <2> QED
    BY <2>2, <2>3
<1> QED
  BY <1>8, <1>9

LEMMA AloneStep ==
  ASSUME ApTypeOK, PageType', WireInv, WireInv', ConnInv, FtInv, MixInv, AloneInv, ApNext
  PROVE  AloneInv'
<1> SUFFICES ASSUME NEW w \in Click, Busy(w)', w \notin mixed' PROVE AloneOf(w)'
  BY DEF AloneInv, AloneOf
<1>0. PageType /\ ThreadType /\ \A v \in Click : flow[v].pc = "wait" => page_ws = "open"
  BY DEF ApTypeOK, WireInv, FlowInv
<1>1. ASSUME NEW f \in File, Clicked(f) PROVE AloneOf(w)'
  BY <1>0, <1>1, AloneClicked
<1>2. ASSUME NEW f, NEW n, InstallBegins(f, n) PROVE AloneOf(w)'
  BY <1>0, <1>2, MixBegins
<1>3. CASE ~\E f \in File : Clicked(f)
  <2>0. Busy(w)
    BY <1>0, <1>3, BusyStep
  <2>1. ASSUME NEW v \in Click, Sends(v) PROVE AloneOf(w)'
    BY <1>0, <2>0, <2>1, AloneSends
  <2>2. CASE Receives
    BY <2>0, <2>2, AloneReceives
  <2>3. CASE Tails
    BY <2>0, <2>3, AloneTails
  <2>4. ASSUME NEW v \in Click, Throws(v) PROVE AloneOf(w)'
    <3>1. page_ws' = "closed" /\ wire' = wire /\ UNCHANGED <<mixed, ft, fw_up, font_part>>
      BY <2>4 DEF Throws, DeviceStands
    <3>2. flow' = [flow EXCEPT ![v] = [flow[v] EXCEPT !.pc = "idle"]] /\ flow \in [Click -> FlowType]
      BY <1>0, <2>4 DEF Throws, PageType
    <3>3. \A u \in Click : Resigns(u)
      BY <3>2 DEF Resigns
    <3>4. Kept(0, Len(wire))
      BY <1>0, <3>1, WireType DEF Kept
    <3> QED
      BY <1>0, <2>0, <3>1, <3>3, <3>4, AloneGivesUp
  <2>5. CASE Breaks
    <3>1. PICK n \in 0..Len(wire) : wire' = SubSeq(wire, 1, n)
      BY <2>5 DEF Breaks
    <3>2. Kept(0, n)
      BY <1>0, <3>1, PrefixKept
    <3>3. page_ws' = "closed" /\ flow' = Unheard /\ UNCHANGED <<mixed, ft, fw_up, font_part>>
      BY <2>5 DEF Breaks
    <3>4. \A u \in Click : Resigns(u)
      BY <1>0, <3>3, UnheardResigns DEF Resigns
    <3> QED
      BY <1>0, <2>0, <3>2, <3>3, <3>4, AloneGivesUp
  <2>6. CASE Reloads
    <3>1. page_ws' = "closed" /\ wire' = wire /\ UNCHANGED <<mixed, ft, fw_up, font_part>>
      BY <2>6 DEF Reloads
    <3>2. \A u \in Click : Resigns(u)
      BY <2>6 DEF Reloads, Resigns
    <3>3. Kept(0, Len(wire))
      BY <1>0, <3>1, WireType DEF Kept
    <3> QED
      BY <1>0, <2>0, <3>1, <3>2, <3>3, AloneGivesUp
  <2>7. CASE Connects \/ Ends \/ Restarts
    <3>1. ft' = FtIdle /\ fw_up' = FwIdle /\ wire' = <<>>
      BY <2>7 DEF Connects, Ends, Restarts, ConnInv
    <3>2. ASSUME NEW v \in Click PROVE flow'[v].pc # "wait"
      <4>1. CASE Connects \/ Ends
        BY <1>0, <4>1 DEF Connects, Ends, ConnInv, pageVars
      <4>2. CASE Restarts
        BY <1>0, <4>2, UnheardResigns DEF Restarts
      <4> QED
        BY <2>7, <4>1, <4>2
    <3> QED
      BY <3>1, <3>2, AloneAnew
  <2>8. CASE InstallErases \/ InstallWrites \/ InstallEnds
    <3>1. install.pc # "idle" /\ (InstallErases \/ InstallWrites \/ InstallEnds => mixed' = mixed)
      BY <2>8 DEF InstallErases, InstallWrites, InstallEnds
    <3> QED
      BY <2>0, <2>8, <3>1 DEF MixInv
  <2>9. CASE GlyphRead
    <3>1. UNCHANGED <<flow, page_ws, wire, ft, fw_up, font_part, mixed>>
      BY <2>9 DEF GlyphRead, pageVars
    <3>2. AloneOf(w)
      BY <2>0, <3>1, AloneIs
    <3> QED
      BY <3>1, <3>2 DEF AloneOf, Reached, Line, FtGot, FwGot, Filled, Turn, Size
  <2> QED
    BY <1>2, <1>3, <2>1, <2>2, <2>3, <2>4, <2>5, <2>6, <2>7, <2>8, <2>9 DEF ApNext, File
<1> QED
  BY <1>1, <1>3

LEMMA InstallStep ==
  ASSUME ApTypeOK, InstallInv, ApNext
  PROVE  InstallInv'
<1>0. /\ install.off \in Nat /\ install \in InstallType
      /\ install.pc # "idle" => Blocks[install.file] \in Nat /\ Blocks[install.file] > 0
  BY BlocksNat DEF ApTypeOK, PartType, InstallType, InstallInv, File
<1>1. ASSUME NEW f \in FontFile, NEW n, InstallBegins(f, n) PROVE InstallInv'
  <2>1. install' = [pc |-> "erase", file |-> f, off |-> 0, have |-> n]
    BY <1>1 DEF InstallBegins
  <2> QED
    BY <2>1, BlocksNat DEF InstallInv, File
<1>2. CASE InstallErases
  <2>1. install.pc = "erase" /\ install.off < Blocks[install.file]
    BY <1>2 DEF InstallErases, InstallInv
  <2>2. CASE install.off + 1 = Blocks[install.file]
    <3>1. install'.pc = "write" /\ install'.off = 0 /\ install'.file = install.file
      BY <1>0, <1>2, <2>2 DEF InstallErases, InstallType
    <3> QED
      BY <1>0, <2>1, <3>1 DEF InstallInv
  <2>3. CASE install.off + 1 # Blocks[install.file]
    <3>1. install'.pc = "erase" /\ install'.off = install.off + 1 /\ install'.file = install.file
      BY <1>0, <1>2, <2>1, <2>3 DEF InstallErases, InstallType
    <3> QED
      BY <1>0, <2>1, <2>3, <3>1 DEF InstallInv
  <2> QED
    BY <2>2, <2>3
<1>3. CASE InstallWrites
  <2>1. install.pc = "write" /\ install.off < Blocks[install.file]
    BY <1>3 DEF InstallWrites
  <2>2. install'.pc = "write" /\ install'.off = install.off + 1 /\ install'.file = install.file
    BY <1>0, <1>3, <2>1 DEF InstallWrites, InstallType
  <2> QED
    BY <1>0, <2>1, <2>2 DEF InstallInv
<1>4. CASE InstallEnds \/ Restarts
  BY <1>4 DEF InstallEnds, Restarts, InstallInv, NoInstall
<1>5. CASE Receives \/ Tails
  <2>1. UNCHANGED install
    BY <1>5, ReceivesIs DEF Tails, ApTypeOK
  <2> QED
    BY <2>1 DEF InstallInv
<1>6. ASSUME UNCHANGED install PROVE InstallInv'
  BY <1>6 DEF InstallInv
<1> QED
  BY <1>1, <1>2, <1>3, <1>4, <1>5, <1>6
     DEF ApNext, Clicked, Sends, Throws, Breaks, Reloads, Connects, Ends, GlyphRead, DeviceStands

(* What is complete stays.                                                 *)
LEMMA KeptStands ==
  ASSUME KeptInv, UNCHANGED <<installed, font_part, asked, font_ok>>,
         installed.file # NoFile => ft'.phase # "DATA" /\ install'.pc # "write"
  PROVE  KeptInv'
BY DEF KeptInv, WholeOnly, Content

LEMMA HeaderWhole ==
  ASSUME ApTypeOK, KeptInv, installed.file # NoFile
  PROVE  HeaderOf(font_part) = NoFile \/ HeaderOf(font_part) = installed.file
<1>1. Blocks[installed.file] \in Nat /\ Blocks[installed.file] > 0
  BY BlocksNat DEF KeptInv
<1>2. font_part[1] = <<installed.file, 1>>
  BY <1>1 DEF KeptInv, WholeOnly
<1> QED
  BY <1>2 DEF HeaderOf

(* Nothing is said of what is not installed.                               *)
LEMMA NotInstalled ==
  ASSUME KeptInv, installed'.file = NoFile, UNCHANGED asked
  PROVE  KeptInv'
BY DEF KeptInv, WholeOnly, Content

LEMMA KeptReceives ==
  ASSUME ApTypeOK, WireInv, FtInv, MixInv, AloneInv, KeptInv, Receives
  PROVE  KeptInv'
<1>1. UNCHANGED <<pageVars, font_ok, install, mixed>> /\ flow' = flow
  BY ReceivesIs DEF ApTypeOK, pageVars
<1>2. CASE Deaf
  BY <1>1, <1>2, KeptStands DEF Deaf, KeptInv
<1>3. CASE ~Deaf
  <2>1. PICK ok \in BOOLEAN, x \in Frame : x = wire[1] /\ Len(wire) > 0 /\ FrameTaken(x, ok)
    BY <1>3, ReceivesIs DEF ApTypeOK
  <2> DEFINE w == x.w
  <2>2. 1 \in 1..Len(wire) /\ 1 \in DOMAIN wire /\ FrameOK(x) /\ Busy(w) /\ w \in Click
    BY <2>1, WireType DEF Busy, Frame, WireInv, WireFrames, ApTypeOK
  <2>3. w \in 1..clicks /\ flow[w].file \in File /\ Size(w) \in Nat
    BY <2>2, SizeNat DEF FrameOK, ApTypeOK, WireInv
  <2>4. ASSUME w \notin mixed
        PROVE  install.pc = "idle"
               /\ \E k \in Nat : Reached(w, k) /\ Turn(x) = k + 1
    <3>1. PICK k \in Nat : Reached(w, k)
      BY <2>2, <2>4 DEF AloneInv
    <3>2. Turn(x) = k + 1
      BY <2>1, <2>2, <3>1 DEF Reached, Line
    <3> QED
      BY <2>2, <2>4, <3>1, <3>2 DEF MixInv
  <2>5. CASE x.kind = "fw_start" \/ x.kind = "font_start"
    <3>1. UNCHANGED <<font_part, installed, asked>> /\ (ft' = ft \/ ft'.phase = "ERASE")
      BY <2>1, <2>5 DEF FrameTaken, FwStart, FontStart, FtIdle
    <3> QED
      BY <1>1, <3>1, KeptStands DEF KeptInv
  <2>6. CASE x.kind = "binary"
    <3>1. UNCHANGED <<installed, asked>>
      BY <2>1, <2>6 DEF FrameTaken, Binary
    <3>2. CASE ft.phase = "DATA"
      BY <3>1, <3>2, NotInstalled DEF KeptInv
    <3>3. CASE ft.phase # "DATA"
      <4>1. UNCHANGED <<ft, font_part>>
        BY <2>1, <2>6, <3>3 DEF FrameTaken, Binary
      <4> QED
        BY <1>1, <3>1, <4>1, KeptStands DEF KeptInv
    <3> QED
      BY <3>2, <3>3
  <2>7. CASE x.kind = "fw_end"
    <3>1. FwEnd(w, ok) /\ UNCHANGED <<ft, font_part, installed>>
      BY <2>1, <2>7 DEF FrameTaken, FwEnd
    <3>2. CASE UNCHANGED asked
      BY <1>1, <3>1, <3>2, KeptStands DEF KeptInv
    <3>3. CASE asked' # asked
      <4>1. /\ fw_up.active /\ ~fw_up.failed /\ Len(fw_up.data) = Total(fw_up.w)
            /\ asked' = [file |-> flow[w].file, data |-> fw_up.data, alone |-> w \notin mixed]
        BY <3>1, <3>3 DEF FwEnd
      <4>2. ASSUME w \notin mixed PROVE fw_up.data = Content(flow[w].file)
        <5>1. PICK k \in Nat : Reached(w, k) /\ Turn(x) = k + 1
          BY <2>4, <4>2
        <5>2. FwGot(w, k)
          BY <2>2, <2>7, <5>1 DEF Reached, FrameOK
        <5>3. k + 1 = Size(w) + 2
          BY <2>7, <5>1 DEF Turn
        <5>4. fw_up.w = w /\ Len(fw_up.data) = Size(w) /\ Len(fw_up.data) + 1 = k
          BY <2>3, <4>1, <5>2, <5>3 DEF FwGot, Total, Size
        <5>5. \A i \in 1..Size(w) : fw_up.data[i] = <<flow[w].file, i>>
          BY <4>1, <5>2, <5>3, <5>4, <2>3 DEF FwGot
        <5>6. fw_up.data \in Seq(File \X Nat)
          BY DEF ApTypeOK, ThreadType, FwType
        <5>7. fw_up.data = [i \in 1..Size(w) |-> fw_up.data[i]]
          BY <5>4, <5>6, LenProperties
        <5> QED
          BY <5>5, <5>7 DEF Content, Size
      <4>3. asked'.alone => asked'.data = Content(asked'.file)
        BY <4>1, <4>2
      <4> QED
        BY <1>1, <3>1, <4>3 DEF KeptInv, WholeOnly, Content
    <3> QED
      BY <3>2, <3>3
  <2>8. CASE x.kind = "font_end"
    <3>1. FontEnd(w) /\ UNCHANGED <<asked, font_part>>
      BY <2>1, <2>8 DEF FrameTaken, FontEnd
    <3>2. CASE UNCHANGED <<ft, installed>>
      BY <1>1, <3>1, <3>2, KeptStands DEF KeptInv
    <3>3. CASE ~UNCHANGED <<ft, installed>>
      <4>1. /\ ft.phase = "DATA" /\ ft.off = Total(ft.w) /\ ft' = FtIdle
            /\ installed' = [file |-> IF w \in mixed THEN NoFile ELSE flow[w].file, live |-> FALSE]
        BY <3>1, <3>3 DEF FontEnd
      <4>2. CASE w \in mixed
        BY <3>1, <4>1, <4>2, NotInstalled
      <4>3. CASE w \notin mixed
        <5>1. PICK k \in Nat : Reached(w, k) /\ Turn(x) = k + 1
          BY <2>4, <4>3
        <5>2. FtGot(w, k) /\ flow[w].file \in FontFile
          BY <2>2, <2>8, <5>1 DEF Reached, FrameOK
        <5>3. flow[w].progress
          BY <2>2, <2>3, <2>8, <5>2 DEF FrameOK, Turn
        <5>4. ft.w = w
          BY <4>1, <5>2, <5>3 DEF FtGot
        <5>5. Filled(flow[w].file, ft.off) /\ ft.off = Blocks[flow[w].file]
          BY <4>1, <5>2, <5>4 DEF FtGot, Total
        <5>6. \A i \in 1..Blocks[flow[w].file] : font_part[i] = <<flow[w].file, i>>
          BY <5>5 DEF Filled
        <5>7. installed'.file = flow[w].file /\ installed'.live = FALSE /\ ft'.phase = "IDLE"
          BY <4>1, <4>3 DEF FtIdle
        <5>8. install'.pc = "idle"
          BY <1>1, <2>4, <4>3
        <5> QED
          BY <2>3, <3>1, <5>6, <5>7, <5>8 DEF KeptInv, WholeOnly, Content
      <4> QED
        BY <4>2, <4>3
    <3> QED
      BY <3>2, <3>3
  <2> QED
    BY <2>1, <2>5, <2>6, <2>7, <2>8 DEF FrameTaken
<1> QED
  BY <1>2, <1>3

LEMMA KeptStep ==
  ASSUME ApTypeOK, WireInv, FtInv, MixInv, AloneInv, InstallInv, KeptInv, ApNext
  PROVE  KeptInv'
<1>1. CASE Receives
  BY <1>1, KeptReceives
<1>2. CASE Tails
  <2>1. UNCHANGED <<asked, install>>
    BY <1>2 DEF Tails
  <2>2. CASE ft.phase = "ERASE" /\ installed' = [file |-> NoFile, live |-> FALSE]
    BY <2>1, <2>2, NotInstalled
  <2>3. CASE ft.phase # "ERASE"
    <3>1. UNCHANGED <<font_part, installed, ft>> /\ (font_ok' = font_ok \/ font_ok' = Loaded(font_part))
      BY <1>2, <2>3 DEF Tails
    <3>2. CASE font_ok' = font_ok
      BY <2>1, <3>1, <3>2, KeptStands DEF KeptInv
    <3>3. CASE font_ok' = Loaded(font_part) /\ installed.file # NoFile
      BY <2>1, <3>1, <3>3, HeaderWhole DEF Loaded, KeptInv, WholeOnly, Content
    <3>4. CASE installed.file = NoFile
      BY <2>1, <3>1, <3>4, NotInstalled
    <3> QED
      BY <3>1, <3>2, <3>3, <3>4
  <2> QED
    BY <1>2, <2>2, <2>3 DEF Tails, Erases
<1>3. CASE GlyphRead
  <2>1. UNCHANGED <<installed, font_part, asked, ft, install>> /\ font_ok' = HeaderOf(font_part)
    BY <1>3 DEF GlyphRead
  <2>2. CASE installed.file # NoFile
    BY <2>1, <2>2, HeaderWhole DEF KeptInv, WholeOnly, Content
  <2>3. CASE installed.file = NoFile
    BY <2>1, <2>3, NotInstalled
  <2> QED
    BY <2>2, <2>3
<1>4. CASE InstallErases
  BY <1>4, NotInstalled DEF InstallErases, ShellOnly
<1>5. CASE InstallWrites
  <2>1. installed.file = NoFile /\ UNCHANGED <<installed, asked>>
    BY <1>5 DEF InstallWrites, KeptInv, InstallInv, ShellOnly
  <2> QED
    BY <2>1, NotInstalled
<1>6. CASE InstallEnds
  <2>1. UNCHANGED <<installed, asked, font_part, ft, font_ok>> /\ install'.pc = "idle"
    BY <1>6 DEF InstallEnds, ShellOnly, NoInstall
  <2> QED
    BY <2>1, KeptStands DEF KeptInv
<1>7. CASE Restarts
  <2>1. /\ UNCHANGED font_part /\ font_ok' = NoFile /\ install' = NoInstall /\ asked' = NotAsked /\ ft' = FtIdle
        /\ installed'.file = installed.file
    BY <1>7 DEF Restarts, ApTypeOK, PartType, InstalledType
  <2>2. ~asked'.alone /\ install'.pc = "idle" /\ ft'.phase = "IDLE"
    BY <2>1 DEF NotAsked, NoInstall, FtIdle
  <2> QED
    BY <2>1, <2>2 DEF KeptInv, WholeOnly, Content
<1>8. ASSUME UNCHANGED <<installed, font_part, asked, font_ok>>, ft' = ft \/ ft'.phase = "IDLE",
             install' = install \/ install'.pc = "erase"
      PROVE  KeptInv'
  BY <1>8, KeptStands DEF KeptInv
<1>9. ASSUME NEW f, NEW n, InstallBegins(f, n) PROVE KeptInv'
  BY <1>8, <1>9 DEF InstallBegins, ShellOnly
<1>10. CASE Ends
  BY <1>8, <1>10 DEF Ends, FtIdle
<1>11. ASSUME UNCHANGED <<installed, font_part, asked, font_ok, ft, install>> PROVE KeptInv'
  BY <1>8, <1>11
<1> QED
  BY <1>1, <1>2, <1>3, <1>4, <1>5, <1>6, <1>7, <1>9, <1>10, <1>11
     DEF ApNext, Clicked, Sends, Throws, Breaks, Reloads, Connects, DeviceStands, File

LEMMA ApStep == ApInv /\ [ApNext]_apVars => ApInv'
<1> SUFFICES ASSUME ApInv, [ApNext]_apVars PROVE ApInv'
  OBVIOUS
<1>0. ApTypeOK /\ PageType /\ ThreadType /\ PartType /\ WireInv /\ ConnInv /\ FtInv /\ MixInv /\ AloneInv
      /\ InstallInv /\ KeptInv
  BY DEF ApInv, ApTypeOK
<1>1. CASE ApNext
  <2>1. PageType' /\ ThreadType' /\ PartType'
    BY <1>0, <1>1, PageStepType, ThreadStepType, PartStepType
  <2>2. WireInv' /\ ConnInv'
    BY <1>0, <1>1, WireStep, ConnStep
  <2>3. FtInv' /\ MixInv'
    BY <1>0, <1>1, <2>1, FtStep, MixStep
  <2>4. AloneInv'
    BY <1>0, <1>1, <2>1, <2>2, AloneStep
  <2>5. InstallInv' /\ KeptInv'
    BY <1>0, <1>1, InstallStep, KeptStep
  <2> QED
    BY <2>1, <2>2, <2>3, <2>4, <2>5 DEF ApInv, ApTypeOK
<1>2. CASE UNCHANGED apVars
  <2>1. UNCHANGED <<clicks, flow, page_ws, wire, ws_slot, ws_at, ft, fw_up, fw_reboot_pending,
                    font_part, font_ok, install, installed, asked, mixed, upsets, pageVars>>
    BY <1>2 DEF apVars, pageVars
  <2>2. PageType' /\ ThreadType' /\ PartType' /\ ConnInv'
    BY <1>0, <2>1 DEF PageType, ThreadType, PartType, ConnInv
  <2>3. WireInv' /\ \A w, n : Coming(w, n)' <=> Coming(w, n)
    BY <1>0, <2>1, QuietWire
  <2>4. FtInv'
    BY <1>0, <2>1 DEF FtInv, Coming, Unsent, UnderWay, Turn, Size
  <2>5. MixInv'
    BY <1>0, <2>1 DEF MixInv, Busy
  <2>6. AloneInv'
    <3>1. ASSUME NEW w \in Click, Busy(w)', w \notin mixed' PROVE AloneOf(w)'
      <4>1. AloneOf(w)
        BY <1>0, <2>1, <3>1, AloneIs DEF Busy
      <4> QED
        BY <2>1, <4>1 DEF AloneOf, Reached, Line, FtGot, FwGot, Filled, Turn, Size
    <3> QED
      BY <3>1 DEF AloneInv, AloneOf
  <2>7. InstallInv' /\ KeptInv'
    BY <1>0, <2>1, KeptStands DEF KeptInv, InstallInv
  <2> QED
    BY <2>2, <2>3, <2>4, <2>5, <2>6, <2>7 DEF ApInv, ApTypeOK
<1> QED
  BY <1>1, <1>2

LEMMA ApBegins == ApInit => ApInv
<1> SUFFICES ASSUME ApInit PROVE ApInv
  OBVIOUS
<1>1. /\ clicks = 0 /\ flow = [w \in Click |-> NoFlow] /\ page_ws = "closed" /\ wire = <<>>
      /\ ws_slot = "free" /\ ws_at = "recv" /\ ft = FtIdle /\ fw_up = FwIdle
      /\ font_part = [i \in 1..FontMax |-> Blank] /\ install = NoInstall
      /\ installed = [file |-> NoFile, live |-> FALSE] /\ asked = NotAsked /\ mixed = {}
  BY DEF ApInit
<1>2. Len(wire) = 0 /\ wire \in Seq(Frame) /\ DOMAIN wire = {} /\ \A w \in Click : flow[w] = NoFlow
  BY <1>1, EmptySeq
<1>3. ApTypeOK
  <2>1. PageType
    BY <1>1, <1>2, BlocksNat DEF PageType, NoFlow, FlowType
  <2>2. ThreadType
    BY <1>1, FtChanges, FwChanges DEF ThreadType
  <2>3. PartType
    BY <1>1 DEF PartType, PartOf, NoInstall, InstallType, InstalledType
  <2> QED
    BY <2>1, <2>2, <2>3 DEF ApTypeOK
<1>4. WireInv
  <2>1. FlowInv
    BY <1>1, <1>2 DEF FlowInv, NoFlow, Click
  <2> QED
    BY <1>1, <1>2, <2>1 DEF WireInv, WireFrames, WireOrder, WireComes
<1>5. ConnInv /\ FtInv
  BY <1>1 DEF ConnInv, FtInv, FtIdle
<1>6. \A w \in Click : ~Busy(w)
  BY <1>2 DEF Busy, NoFlow
<1>7. MixInv /\ AloneInv /\ InstallInv
  BY <1>1, <1>6 DEF MixInv, AloneInv, InstallInv, NoInstall
<1>8. KeptInv
  BY <1>1 DEF KeptInv, WholeOnly, NotAsked
<1> QED
  BY <1>3, <1>4, <1>5, <1>7, <1>8 DEF ApInv

(* What apollo-v2 takes as complete is whole: the fonts and images of the  *)
(* page, through lost frames and connections, failed writes and restarts,  *)
(* unless another transfer or the shell's installation ran at the same     *)
(* time (ws.c:200, ws.c:229, font_qspi.c), for any files, flows and        *)
(* troubles.                                                               *)
THEOREM WholeOnlyCorrect == ApSpec => []WholeOnly
<1>1. ApInv => WholeOnly
  BY DEF ApInv, KeptInv
<1> QED
  BY <1>1, ApBegins, ApStep, PTL DEF ApSpec

(* What a host of either application was told is complete is kept: the     *)
(* image of the SDO download and what the page sent (fw_download.c, ws.c). *)
THEOREM CompleteCorrect == UpgradeSpec => []CompleteIsKept
<1>1. UpgradeInit => ApInv
  BY ApBegins DEF UpgradeInit
<1>2. ApInv /\ [UpgradeNext]_<<app, vars, sdoVars, apVars, startVars, gwNetVars>> => ApInv'
  <2>1. [UpgradeNext]_<<app, vars, sdoVars, apVars, startVars, gwNetVars>> => [ApNext]_apVars
    BY DEF UpgradeNext
  <2> QED
    BY <2>1, ApStep
<1>3. ApInv => WholeOnly
  BY DEF ApInv, KeptInv
<1>4. UpgradeSpec => []SdoImageKept
  BY ChannelsCorrect, PTL
<1>5. UpgradeSpec => []WholeOnly
  BY <1>1, <1>2, <1>3, PTL DEF UpgradeSpec
<1>6. SdoImageKept /\ WholeOnly => CompleteIsKept
  BY DEF CompleteIsKept
<1> QED
  BY <1>4, <1>5, <1>6, PTL
=============================================================================
