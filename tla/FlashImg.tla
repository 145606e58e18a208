------------------------------ MODULE FlashImg ------------------------------
(***************************************************************************)
(* The flash image writer (Zephyr's flash_img / stream_flash) and the      *)
(* secondary slot it writes, as the three firmware upgrade channels of the *)
(* firmware use them.  The writer is not part of the repository: it is     *)
(* modelled from its use in udp_fw_upgrade.c, can_fw_upgrade.c and         *)
(* ws_io.c.                                                                *)
(*                                                                         *)
(* A slot is a function from positions to cells, the unit being one chunk  *)
(* of image data.  The writer keeps a RAM block of BlockLen chunks and     *)
(* programs the flash only when the block is full or on a flush: a write   *)
(* that answered OK may still be in RAM.  An operation returns the set of  *)
(* its possible outcomes, so that its caller handles each of them.         *)
(***************************************************************************)
EXTENDS Integers, Sequences

CONSTANTS
  Chunk,      \* the units of image data
  Erased,     \* content of a cell after an erase
  Junk,       \* content programmed over a cell that was not erased, or the old image
  SlotLen,    \* cells in the slot
  BlockLen,   \* chunks in the RAM block of the writer
  PageLen     \* cells in an erase page (ROUND_UP(size, 4096))

ASSUME FlashAssumption ==
  /\ SlotLen \in Nat \ {0}
  /\ BlockLen \in Nat \ {0, 1}
  /\ PageLen \in Nat \ {0}

Cell == Chunk \cup {Erased, Junk}
Slot == [1..SlotLen -> Cell]
Ctx  == [written : 0..SlotLen, buf : Seq(Chunk)]

(* flash_img_init: nothing written, the RAM block empty. *)
FreshCtx == [written |-> 0, buf |-> <<>>]

(* Bytes the writer has taken, in flash or still in RAM. *)
Taken(ctx) == ctx.written + Len(ctx.buf)

(* The writer refuses what would not fit in the slot. *)
Writer == {ctx \in Ctx : Taken(ctx) <= SlotLen}

RoundUp(n) == ((n + PageLen - 1) \div PageLen) * PageLen

(* NOR flash: only an erased cell takes the value written to it. *)
Program(s, ctx) ==
  [p \in 1..SlotLen |->
     IF p \in (ctx.written + 1)..Taken(ctx)
     THEN IF s[p] = Erased THEN ctx.buf[p - ctx.written] ELSE Junk
     ELSE s[p]]

Wipe(s, n) == [p \in 1..SlotLen |-> IF p <= n THEN Erased ELSE s[p]]

(* flash_area_erase(fa, 0, ROUND_UP(size, 4096)): fails on a size beyond   *)
(* the slot, or midway with only a prefix erased.                          *)
Erase(s, size) ==
  IF RoundUp(size) > SlotLen
  THEN {[ok |-> FALSE, slot |-> s]}
  ELSE {[ok |-> TRUE, slot |-> Wipe(s, RoundUp(size))]}
       \cup {[ok |-> FALSE, slot |-> Wipe(s, n)] : n \in 0..(RoundUp(size) - 1)}

(* flash_sync: program the RAM block, which stays full when that fails. *)
Sync(s, ctx) ==
  {[ok |-> TRUE, ctx |-> [written |-> Taken(ctx), buf |-> <<>>], slot |-> Program(s, ctx)],
   [ok |-> FALSE, ctx |-> ctx, slot |-> s]}

(* flash_img_buffered_write(ctx, NULL, 0, true) *)
Flush(s, ctx) ==
  IF ctx.buf = <<>> THEN {[ok |-> TRUE, ctx |-> ctx, slot |-> s]} ELSE Sync(s, ctx)

Put(ctx, c) == [written |-> ctx.written, buf |-> Append(ctx.buf, c)]

(* flash_img_buffered_write(ctx, data, len, false).  A block left full by  *)
(* an earlier failure is programmed first; the chunk that fills the block  *)
(* is already in it when programming fails.                                *)
BufferedWrite(s, ctx, c) ==
  IF Taken(ctx) >= SlotLen
  THEN {[ok |-> FALSE, ctx |-> ctx, slot |-> s]}
  ELSE IF Len(ctx.buf) = BlockLen
  THEN {IF o.ok THEN [o EXCEPT !.ctx = Put(@, c)] ELSE o : o \in Sync(s, ctx)}
  ELSE IF Len(ctx.buf) + 1 = BlockLen
  THEN Sync(s, Put(ctx, c))
  ELSE {[ok |-> TRUE, ctx |-> Put(ctx, c), slot |-> s]}

(* What a read-back of the first n cells yields: two contents have the     *)
(* same CRC iff they are equal (CRC16 collisions are not modelled).        *)
ReadBack(s, n) == [p \in 1..n |-> s[p]]
=============================================================================
