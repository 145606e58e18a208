-------------------------------- MODULE Nrf24 --------------------------------
(***************************************************************************)
(* drivers/nrf24l01p/nrf24l01p.c: the driver of the nRF24L01+ and the chip *)
(* behind its SPI bus.  The interrupt thread and the threads that call the *)
(* driver share the chip under data->lock; the radio works at any time.    *)
(*                                                                         *)
(* The SPI commands a caller issues under the lock are one step, because   *)
(* nobody else reaches the chip; the interrupt thread's are two where a    *)
(* frame may arrive in between.  SPI transfers succeed, and a chip without *)
(* power ignores what is written and reads as zero.  Frames are counted,   *)
(* not told apart, and leave the model when they are read: the queue they  *)
(* are put in drops what it cannot take, and nobody waits for it.  An edge *)
(* of the IRQ pin only starts a pass of the interrupt thread sooner than   *)
(* its 50 ms poll does, and may be lost: the poll alone is modelled.       *)
(***************************************************************************)
EXTENDS Integers

CONSTANTS
  Sender,      \* the threads that call nrf24_send
  FifoDepth    \* frames the chip holds

ASSUME DepthAssumption == FifoDepth \in Nat \ {0}

Nobody == "nobody"
TxFlags == {"TX_DS", "MAX_RT"}
Flags == TxFlags \cup {"RX_DR"}

VARIABLES
  powered,     \* the power pin
  prim,        \* CONFIG: "off", "PRX", "PTX"
  ce,          \* the CE pin
  tx_fifo,     \* the caller whose payload is in the TX FIFO, or Nobody
  rx_fifo,     \* frames in the RX FIFO
  flags,       \* STATUS
  tx_done_sem, ready, mode,
  last_status, \* its TX bits, the only ones read
  irq_sem,     \* a wake-up of the blocked interrupt thread is pending
  irq_pc,      \* "idle", "blocked", "lock", "fetch", "clear", "relock"
  acked        \* history: callers whose frame the peer has acknowledged

chipVars == <<powered, prim, ce, tx_fifo, rx_fifo, flags>>
drvVars  == <<tx_done_sem, last_status, ready, mode, irq_sem, irq_pc>>
radioVars == <<chipVars, drvVars, acked>>

Nrf24TypeOK ==
  /\ powered \in BOOLEAN /\ ce \in BOOLEAN /\ ready \in BOOLEAN /\ irq_sem \in BOOLEAN
  /\ prim \in {"off", "PRX", "PTX"} /\ mode \in {"PRX", "PTX", "POWER_DOWN"}
  /\ tx_fifo \in Sender \cup {Nobody} /\ rx_fifo \in 0..FifoDepth
  /\ flags \subseteq Flags /\ last_status \subseteq TxFlags
  /\ tx_done_sem \in {0, 1}
  /\ irq_pc \in {"idle", "blocked", "lock", "fetch", "clear", "relock"}
  /\ acked \subseteq Sender

(* nrf24_init: powered, configured and listening. *)
Nrf24Init ==
  /\ powered = TRUE /\ prim = "PRX" /\ ce = TRUE /\ tx_fifo = Nobody /\ rx_fifo = 0 /\ flags = {}
  /\ tx_done_sem = 0 /\ last_status = {} /\ ready = TRUE /\ mode = "PRX"
  /\ irq_sem = FALSE /\ irq_pc = "idle"
  /\ acked = {}

-----------------------------------------------------------------------------
(* The radio *)
Transmitting == powered /\ prim = "PTX" /\ ce /\ tx_fifo # Nobody /\ "MAX_RT" \notin flags

(* The peer's ACK. *)
RadioAck ==
  /\ Transmitting
  /\ flags' = flags \cup {"TX_DS"}
  /\ acked' = acked \cup {tx_fifo}
  /\ tx_fifo' = Nobody
  /\ UNCHANGED <<powered, prim, ce, rx_fifo, drvVars>>

(* The retransmissions are used up: the payload stays in the FIFO, and is  *)
(* sent again once MAX_RT is cleared with CE still high.  The peer may     *)
(* have had the frame: its ACKs can be lost.                               *)
RadioMaxRt ==
  /\ Transmitting
  /\ flags' = flags \cup {"MAX_RT"}
  /\ UNCHANGED <<powered, prim, ce, tx_fifo, rx_fifo, drvVars, acked>>

(* A frame arrives and is acknowledged; a full FIFO takes none. *)
RadioReceive ==
  /\ powered /\ prim = "PRX" /\ ce
  /\ rx_fifo < FifoDepth
  /\ rx_fifo' = rx_fifo + 1
  /\ flags' = flags \cup {"RX_DR"}
  /\ UNCHANGED <<powered, prim, ce, tx_fifo, drvVars, acked>>

Radio == RadioAck \/ RadioMaxRt \/ RadioReceive

-----------------------------------------------------------------------------
(* The interrupt thread *)
(* It keeps data->lock from the read of STATUS to the clearing of RX_DR. *)
Locked == irq_pc \in {"fetch", "clear"}

Status == IF powered THEN flags ELSE {}

(* Without power it waits for irq_sem for ever, otherwise 50 ms at most. *)
IrqIdle ==
  /\ irq_pc = "idle"
  /\ IF ready
     THEN irq_pc' = "lock" /\ irq_sem' = FALSE
     ELSE irq_pc' = "blocked" /\ UNCHANGED irq_sem
  /\ UNCHANGED <<chipVars, tx_done_sem, last_status, ready, mode, acked>>

IrqWoken ==
  /\ irq_pc = "blocked"
  /\ irq_sem
  /\ irq_sem' = FALSE
  /\ irq_pc' = "idle"
  /\ UNCHANGED <<chipVars, tx_done_sem, last_status, ready, mode, acked>>

(* TX_DS or MAX_RT: the sender is told, and the flags are cleared. *)
TxDone ==
  IF Status \cap TxFlags # {}
  THEN last_status' = Status \cap TxFlags /\ flags' = flags \ TxFlags /\ tx_done_sem' = 1
  ELSE UNCHANGED <<last_status, flags, tx_done_sem>>

IrqNext == irq_pc' = IF "RX_DR" \in Status THEN "fetch" ELSE "idle"

IrqRead ==
  /\ irq_pc = "lock"
  /\ TxDone
  /\ IrqNext
  /\ UNCHANGED <<powered, prim, ce, tx_fifo, rx_fifo, ready, mode, irq_sem, acked>>

(* One frame is read, then FLUSH_RX. *)
IrqFetch ==
  /\ irq_pc = "fetch"
  /\ irq_pc' = "clear"
  /\ rx_fifo' = 0
  /\ UNCHANGED <<powered, prim, ce, tx_fifo, flags, tx_done_sem, last_status, ready, mode, irq_sem, acked>>

(* Mutant: RX_DR is left set. *)
IrqClearForgets ==
  /\ irq_pc = "clear"
  /\ irq_pc' = "relock"
  /\ UNCHANGED <<chipVars, tx_done_sem, last_status, ready, mode, irq_sem, acked>>

(* The lock is given up for the delivery, which never waits. *)
IrqClear ==
  /\ irq_pc = "clear"
  /\ irq_pc' = "relock"
  /\ flags' = flags \ {"RX_DR"}
  /\ UNCHANGED <<powered, prim, ce, tx_fifo, rx_fifo, tx_done_sem, last_status, ready, mode, irq_sem, acked>>

(* STATUS is read again; a TX result that came meanwhile is handled once   *)
(* the loop ends.                                                          *)
IrqRelock ==
  /\ irq_pc = "relock"
  /\ IrqNext
  /\ IF "RX_DR" \in Status THEN UNCHANGED <<last_status, flags, tx_done_sem>> ELSE TxDone
  /\ UNCHANGED <<powered, prim, ce, tx_fifo, rx_fifo, ready, mode, irq_sem, acked>>

IrqThread ==
  IrqIdle \/ IrqWoken \/ IrqRead \/ IrqFetch \/ IrqClear \/ IrqRelock

-----------------------------------------------------------------------------
(* The calls *)
(* CONFIG as a write leaves it. *)
Prim(p) == IF powered THEN p ELSE prim

(* Mutant: a result left over from an earlier send is not dropped. *)
SendBeginStaleSem(t) ==
  /\ ~Locked
  /\ prim' = Prim("PTX") /\ mode' = "PTX"
  /\ flags' = flags \ TxFlags
  /\ tx_fifo' = IF powered THEN t ELSE Nobody
  /\ ce' = TRUE
  /\ UNCHANGED <<powered, rx_fifo, tx_done_sem, last_status, ready, irq_sem, irq_pc>>

(* nrf24_send up to the wait: stale results are dropped, then the payload  *)
(* is written and CE raised.                                               *)
SendBegin(t) ==
  /\ ~Locked
  /\ tx_done_sem' = 0
  /\ prim' = Prim("PTX") /\ mode' = "PTX"
  /\ flags' = flags \ TxFlags
  /\ tx_fifo' = IF powered THEN t ELSE Nobody
  /\ ce' = TRUE
  /\ UNCHANGED <<powered, rx_fifo, last_status, ready, irq_sem, irq_pc>>

(* k_sem_take of tx_done_sem. *)
SendWoken ==
  /\ tx_done_sem = 1
  /\ tx_done_sem' = 0
  /\ UNCHANGED <<chipVars, last_status, ready, mode, irq_sem, irq_pc, acked>>

(* The code nrf24_send returns, after the wait or its timeout. *)
SendResult(timed_out) ==
  IF timed_out THEN "EAGAIN" ELSE IF "MAX_RT" \in last_status THEN "EIO" ELSE "ok"

(* Mutant: FLUSH_TX only when the retransmissions were used up. *)
SendFinishKeepsPayload(timed_out) ==
  /\ ~Locked
  /\ tx_fifo' = IF SendResult(timed_out) = "EIO" THEN Nobody ELSE tx_fifo
  /\ flags' = IF timed_out THEN flags \ TxFlags ELSE flags
  /\ prim' = Prim("PRX") /\ mode' = "PRX" /\ ce' = TRUE
  /\ UNCHANGED <<powered, rx_fifo, tx_done_sem, last_status, ready, irq_sem, irq_pc>>

(* Mutant: after a timeout nrf24_send returns without going back to PRX. *)
SendFinishStaysPtx(timed_out) ==
  /\ ~Locked
  /\ tx_fifo' = IF SendResult(timed_out) = "ok" THEN tx_fifo ELSE Nobody
  /\ flags' = IF timed_out THEN flags \ TxFlags ELSE flags
  /\ IF timed_out
     THEN ce' = FALSE /\ UNCHANGED <<prim, mode>>
     ELSE prim' = Prim("PRX") /\ mode' = "PRX" /\ ce' = TRUE
  /\ UNCHANGED <<powered, rx_fifo, tx_done_sem, last_status, ready, irq_sem, irq_pc>>

(* nrf24_send after the wait: back to PRX, whatever the result. *)
SendFinish(timed_out) ==
  /\ ~Locked
  /\ tx_fifo' = IF SendResult(timed_out) = "ok" THEN tx_fifo ELSE Nobody
  /\ flags' = IF timed_out THEN flags \ TxFlags ELSE flags
  /\ prim' = Prim("PRX") /\ mode' = "PRX" /\ ce' = TRUE
  /\ UNCHANGED <<powered, rx_fifo, tx_done_sem, last_status, ready, irq_sem, irq_pc>>

(* Mutant: the interrupt thread is not told. *)
PowerOnSilent ==
  /\ ~Locked
  /\ powered' = TRUE /\ prim' = "PRX" /\ ce' = TRUE
  /\ tx_fifo' = Nobody /\ rx_fifo' = 0 /\ flags' = {}
  /\ ready' = TRUE /\ mode' = "PRX"
  /\ UNCHANGED <<tx_done_sem, last_status, irq_sem, irq_pc, acked>>

(* nrf24_power_enable(true): the registers are written anew. *)
PowerOn ==
  /\ ~Locked
  /\ powered' = TRUE /\ prim' = "PRX" /\ ce' = TRUE
  /\ tx_fifo' = Nobody /\ rx_fifo' = 0 /\ flags' = {}
  /\ ready' = TRUE /\ mode' = "PRX"
  /\ irq_sem' = TRUE
  /\ UNCHANGED <<tx_done_sem, last_status, irq_pc, acked>>

(* nrf24_power_enable(false). *)
PowerOff ==
  /\ ~Locked
  /\ powered' = FALSE /\ prim' = "off" /\ ce' = FALSE
  /\ tx_fifo' = Nobody /\ rx_fifo' = 0 /\ flags' = {}
  /\ ready' = FALSE /\ mode' = "POWER_DOWN"
  /\ UNCHANGED <<tx_done_sem, last_status, irq_sem, irq_pc, acked>>

(* nrf24_configure: PRIM_RX follows the mode, CE is left alone. *)
Configure ==
  /\ ~Locked
  /\ prim' = Prim(IF mode = "PRX" THEN "PRX" ELSE "PTX")
  /\ tx_fifo' = Nobody /\ rx_fifo' = 0 /\ flags' = {}
  /\ UNCHANGED <<powered, ce, drvVars, acked>>

(* nrf24_start_rx *)
StartRx ==
  /\ ~Locked
  /\ prim' = Prim("PRX") /\ ce' = TRUE /\ mode' = "PRX"
  /\ UNCHANGED <<powered, tx_fifo, rx_fifo, flags, tx_done_sem, last_status, ready, irq_sem, irq_pc, acked>>
=============================================================================
