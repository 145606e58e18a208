--------------------------- MODULE Devices_proofs ---------------------------
(***************************************************************************)
(* Proofs about the two models of one device each: first HandlerRadio, for *)
(* any number of senders, any depth of the FIFO and any number of retries; *)
(* then History and CoHistory, for any number of samples, callers and      *)
(* files, any length of the queue and any sizes.                           *)
(***************************************************************************)
EXTENDS HandlerRadio, CoHistory, WellFoundedInduction, FiniteSetTheorems, SequenceTheorems, TLAPS

-----------------------------------------------------------------------------
(* The radio of the handheld *)

-----------------------------------------------------------------------------
(* Types *)
(* The driver and the chip, step by step. *)
LEMMA RadioTyped == Nrf24TypeOK /\ Radio => Nrf24TypeOK'
<1> SUFFICES ASSUME Nrf24TypeOK, Radio PROVE Nrf24TypeOK'
  OBVIOUS
<1> USE DepthAssumption DEF Nrf24TypeOK, Flags, drvVars
<1>1. CASE RadioAck
  BY <1>1 DEF RadioAck, Transmitting, TxFlags
<1>2. CASE RadioMaxRt
  BY <1>2 DEF RadioMaxRt, Transmitting, TxFlags
<1>3. CASE RadioReceive
  BY <1>3 DEF RadioReceive
<1> QED
  BY <1>1, <1>2, <1>3 DEF Radio

LEMMA TxDoneTyped ==
  flags \subseteq Flags /\ last_status \subseteq TxFlags /\ tx_done_sem \in {0, 1} /\ TxDone
    => flags' \subseteq Flags /\ last_status' \subseteq TxFlags /\ tx_done_sem' \in {0, 1}
BY DEF TxDone

LEMMA IrqTyped == Nrf24TypeOK /\ IrqThread => Nrf24TypeOK'
<1> SUFFICES ASSUME Nrf24TypeOK, IrqThread PROVE Nrf24TypeOK'
  OBVIOUS
<1> USE DEF Nrf24TypeOK, chipVars
<1>1. CASE IrqIdle
  BY <1>1 DEF IrqIdle
<1>2. CASE IrqWoken
  BY <1>2 DEF IrqWoken
<1>3. CASE IrqRead
  BY <1>3, TxDoneTyped DEF IrqRead, IrqNext
<1>4. CASE IrqFetch
  BY <1>4, DepthAssumption DEF IrqFetch
<1>5. CASE IrqClear
  BY <1>5 DEF IrqClear
<1>6. CASE IrqRelock
  BY <1>6, TxDoneTyped DEF IrqRelock, IrqNext
<1> QED
  BY <1>1, <1>2, <1>3, <1>4, <1>5, <1>6 DEF IrqThread

LEMMA CallTyped ==
  ASSUME Nrf24TypeOK, acked' \subseteq Sender,
         \/ \E t \in Sender : SendBegin(t)
         \/ SendWoken
         \/ \E timed_out \in BOOLEAN : SendFinish(timed_out)
         \/ PowerOn \/ PowerOff \/ Configure \/ StartRx
  PROVE  Nrf24TypeOK'
<1> USE DEF Nrf24TypeOK, chipVars, drvVars
<1>1. CASE \E t \in Sender : SendBegin(t)
  BY <1>1 DEF SendBegin, Prim
<1>2. CASE SendWoken
  BY <1>2 DEF SendWoken
<1>3. CASE \E timed_out \in BOOLEAN : SendFinish(timed_out)
  BY <1>3 DEF SendFinish, Prim
<1>4. CASE PowerOn
  BY <1>4, DepthAssumption DEF PowerOn
<1>5. CASE PowerOff
  <2>1. rx_fifo' \in 0..FifoDepth /\ tx_fifo' = Nobody
    BY <1>5, DepthAssumption DEF PowerOff
  <2>2. powered' \in BOOLEAN /\ ce' \in BOOLEAN /\ ready' \in BOOLEAN
    BY <1>5, Zenon DEF PowerOff
  <2> QED
    BY <1>5, <2>1, <2>2 DEF PowerOff
<1>6. CASE Configure
  BY <1>6, DepthAssumption DEF Configure, Prim
<1>7. CASE StartRx
  BY <1>7, DepthAssumption DEF StartRx, Prim
<1> QED
  BY <1>1, <1>2, <1>3, <1>4, <1>5, <1>6, <1>7

(* A thread that sends. *)
LEMMA SenderTyped ==
  ASSUME NEW t \in Sender, TypeOK, SendStart(t) \/ Sending(t)
  PROVE  TypeOK'
<1> USE DEF TypeOK, HandlerTypeOK, Goto
<1>1. CASE SendStart(t)
  <2>1. Nrf24TypeOK'
    BY <1>1 DEF SendStart, Nrf24TypeOK, radioVars, chipVars, drvVars
  <2> QED
    BY <1>1, <2>1 DEF SendStart, sendPc, Thread
<1>2. CASE Attempt(t)
  <2>1. Nrf24TypeOK'
    BY <1>2, CallTyped DEF Attempt, Nrf24TypeOK
  <2> QED
    BY <1>2, <2>1 DEF Attempt, sendPc, Thread
<1>3. CASE Woken(t)
  <2>1. Nrf24TypeOK'
    BY <1>3, CallTyped DEF Woken, SendWoken, Nrf24TypeOK
  <2> QED
    BY <1>3, <2>1 DEF Woken, sendPc, Thread
<1>4. CASE TimedOut(t)
  <2>1. Nrf24TypeOK'
    BY <1>4 DEF TimedOut, Nrf24TypeOK, radioVars, chipVars, drvVars
  <2> QED
    BY <1>4, <2>1 DEF TimedOut, sendPc, Thread
<1>5. CASE Finish(t)
  <2>1. acked' \subseteq Sender
    BY <1>5 DEF Finish, Nrf24TypeOK
  <2>2. \E timed_out \in BOOLEAN : SendFinish(timed_out)
    BY <1>5 DEF Finish
  <2>3. Nrf24TypeOK'
    BY <2>1, <2>2, CallTyped
  <2>4. attempt' \in [Sender -> 0..Retries]
    BY <1>5, ThreadAssumption DEF Finish
  <2> QED
    BY <1>5, <2>3, <2>4 DEF Finish, sendPc, Thread
<1> QED
  BY <1>1, <1>2, <1>3, <1>4, <1>5 DEF Sending

(* A thread that changes the power of the radio. *)
LEMMA PowerTyped ==
  ASSUME NEW t \in Thread, TypeOK, Powering(t)
  PROVE  TypeOK'
<1>1. acked' \subseteq Sender /\ (PowerOn \/ PowerOff \/ Configure \/ StartRx)
  BY DEF Powering, RadioOff, RadioOn, RadioConfigure, RadioListen, PowerOn, PowerOff, Configure,
         StartRx, TypeOK, Nrf24TypeOK
<1>2. Nrf24TypeOK'
  BY <1>1, CallTyped DEF TypeOK
<1>3. HandlerTypeOK'
  BY DEF Powering, RadioOff, RadioOn, RadioConfigure, RadioListen, TypeOK, HandlerTypeOK, Goto, initPc
<1> QED
  BY <1>2, <1>3 DEF TypeOK

(* The key works, the sleep and the wake-up leave the radio alone. *)
Control == LinkKey \/ LinkSwitch \/ Sleep \/ SleepPower \/ Wake \/ Awake

LEMMA ControlKeeps == Control => UNCHANGED radioVars
BY DEF Control, LinkKey, LinkSwitch, Sleep, SleepPower, Wake, Awake

LEMMA RadioKept == Nrf24TypeOK /\ UNCHANGED radioVars => Nrf24TypeOK'
BY DEF Nrf24TypeOK, radioVars, chipVars, drvVars

LEMMA ControlTyped == TypeOK /\ Control => TypeOK'
<1> SUFFICES ASSUME TypeOK, Control PROVE HandlerTypeOK'
  BY ControlKeeps, RadioKept DEF TypeOK
<1> USE ThreadAssumption DEF TypeOK, HandlerTypeOK, Goto, Thread, initPc
<1>1. CASE LinkKey \/ Sleep \/ SleepPower
  BY <1>1 DEF LinkKey, Sleep, SleepPower
<1>2. CASE LinkSwitch
  BY <1>2 DEF LinkSwitch, SwitchTo
<1>3. CASE Wake \/ Awake
  BY <1>3 DEF Wake, Awake
<1> QED
  BY <1>1, <1>2, <1>3 DEF Control

LEMMA InitTyped == Init => TypeOK
<1> SUFFICES ASSUME Init PROVE TypeOK
  OBVIOUS
<1>1. Nrf24TypeOK
  <2>1. rx_fifo \in 0..FifoDepth
    BY DepthAssumption DEF Init, Nrf24Init
  <2>2. flags \subseteq Flags /\ last_status \subseteq TxFlags /\ acked \subseteq Sender
    BY DEF Init, Nrf24Init
  <2>3. tx_fifo \in Sender \cup {Nobody} /\ tx_done_sem \in {0, 1}
    BY DEF Init, Nrf24Init
  <2>4. powered \in BOOLEAN /\ ce \in BOOLEAN /\ ready \in BOOLEAN /\ irq_sem \in BOOLEAN
    BY Zenon DEF Init, Nrf24Init
  <2>5. /\ prim \in {"off", "PRX", "PTX"} /\ mode \in {"PRX", "PTX", "POWER_DOWN"}
        /\ irq_pc \in {"idle", "blocked", "lock", "fetch", "clear", "relock"}
    BY DEF Init, Nrf24Init
  <2> QED
    BY <2>1, <2>2, <2>3, <2>4, <2>5 DEF Nrf24TypeOK
<1>2. HandlerTypeOK
  <2>1. pc \in [Thread -> {"idle"} \cup initPc \cup {"off"}]
    BY DEF Init, SwitchTo, initPc
  <2>2. attempt \in [Sender -> 0..Retries]
    BY ThreadAssumption DEF Init
  <2>3. sleeping \in BOOLEAN /\ waking \in BOOLEAN /\ linksw_work \in BOOLEAN
    BY Zenon DEF Init
  <2> QED
    BY <2>1, <2>2, <2>3 DEF Init, HandlerTypeOK
<1> QED
  BY <1>1, <1>2 DEF TypeOK

LEMMA NextTyped == TypeOK /\ [Next]_vars => TypeOK'
<1> SUFFICES ASSUME TypeOK, [Next]_vars PROVE TypeOK'
  OBVIOUS
<1>1. CASE (IrqThread \/ Radio) /\ UNCHANGED handlerVars
  BY <1>1, IrqTyped, RadioTyped DEF TypeOK, HandlerTypeOK, handlerVars
<1>2. CASE UNCHANGED vars
  BY <1>2, RadioKept DEF TypeOK, HandlerTypeOK, handlerVars, vars
<1> QED
  BY <1>1, <1>2, SenderTyped, PowerTyped, ControlTyped DEF Next, Control

(* The type invariant: every variable of driver, chip and threads keeps    *)
(* its type; in particular a frame is not retried more than Retries times. *)
THEOREM TypeCorrect == Spec => []TypeOK
BY InitTyped, NextTyped, PTL DEF Spec

-----------------------------------------------------------------------------
(* The inductive invariant *)
(* A step of a thread that enters or leaves no send. *)
LEMMA GotoKeepsInSend ==
  ASSUME NEW t \in Thread, NEW l, TypeOK, Goto(t, l),
         pc[t] \notin {"wait", "done", "timeout"}, l \notin {"wait", "done", "timeout"}
  PROVE  InSend' = InSend /\ \A u \in InSend : pc'[u] = pc[u]
<1>1. \A u \in Sender : u # t => pc'[u] = pc[u]
  BY DEF Goto, TypeOK, HandlerTypeOK, Thread
<1>2. pc'[t] = l
  BY DEF Goto, TypeOK, HandlerTypeOK
<1> QED
  BY <1>1, <1>2 DEF InSend

(* Nothing happens to the radio, and nobody enters or leaves a send. *)
LEMMA RadioKeptInv ==
  ASSUME IndInv, TypeOK', UNCHANGED radioVars,
         InSend' = InSend, \A u \in InSend : pc'[u] = pc[u]
  PROVE  IndInv'
<1> USE DEF IndInv, radioVars, chipVars, drvVars
<1>1. OneSend'
  BY DEF OneSend
<1>2. NothingLeftToSend'
  BY DEF NothingLeftToSend
<1>3. ResultIsOwn'
  BY DEF ResultIsOwn
<1>4. IdleInPrx'
  BY DEF IdleInPrx
<1>5. NoPhantomFrame' /\ RxFlagHonest'
  BY DEF NoPhantomFrame, RxFlagHonest
<1> QED
  BY <1>1, <1>2, <1>3, <1>4, <1>5

LEMMA ControlInv == IndInv /\ Control => IndInv'
<1> SUFFICES ASSUME IndInv, Control PROVE IndInv'
  OBVIOUS
<1>1. TypeOK'
  BY ControlTyped DEF IndInv
<1>2. InSend' = InSend /\ \A u \in InSend : pc'[u] = pc[u]
  <2> USE ThreadAssumption DEF IndInv
  <2>1. CASE LinkKey
    BY <2>1 DEF LinkKey, InSend
  <2>2. CASE LinkSwitch
    BY <2>2, GotoKeepsInSend DEF LinkSwitch, SwitchTo, Thread
  <2>3. CASE Sleep
    BY <2>3, GotoKeepsInSend DEF Sleep, Thread
  <2>4. CASE SleepPower
    BY <2>4, GotoKeepsInSend DEF SleepPower, Thread
  <2>5. CASE Wake
    BY <2>5, GotoKeepsInSend DEF Wake, Thread
  <2>6. CASE Awake
    BY <2>6, GotoKeepsInSend DEF Awake, Thread
  <2> QED
    BY <2>1, <2>2, <2>3, <2>4, <2>5, <2>6 DEF Control
<1> QED
  BY <1>1, <1>2, ControlKeeps, RadioKeptInv

(* A thread that sends. *)
LEMMA SenderInv ==
  ASSUME NEW t \in Sender, IndInv, SendStart(t) \/ Sending(t)
  PROVE  IndInv'
<1>t. TypeOK'
  BY SenderTyped DEF IndInv
<1>p. DOMAIN pc = Thread /\ pc = [u \in Thread |-> pc[u]] /\ t \in Thread
  BY DEF IndInv, TypeOK, HandlerTypeOK, Thread
<1>1. CASE SendStart(t)
  <2>1. InSend' = InSend /\ \A u \in InSend : pc'[u] = pc[u]
    BY <1>1, <1>p, GotoKeepsInSend DEF SendStart, IndInv
  <2> QED
    BY <1>1, <1>t, <2>1, RadioKeptInv DEF SendStart
<1>2. CASE Attempt(t)
  <2>1. InSend' = {t} /\ pc'[t] = "wait"
    BY <1>2, <1>p DEF Attempt, Goto, InSend, Thread
  <2>2. OneSend'
    BY <2>1 DEF OneSend
  <2>3. NothingLeftToSend'
    BY <1>2, <2>1 DEF Attempt, SendBegin, NothingLeftToSend
  <2>4. ResultIsOwn'
    BY <1>2, <2>1 DEF Attempt, SendBegin, ResultIsOwn, TxFlags
  <2>5. IdleInPrx'
    BY <2>1 DEF IdleInPrx
  <2>6. NoPhantomFrame' /\ RxFlagHonest'
    BY <1>2 DEF Attempt, SendBegin, Locked, NoPhantomFrame, RxFlagHonest, IndInv
  <2> QED
    BY <1>t, <2>2, <2>3, <2>4, <2>5, <2>6 DEF IndInv
<1>3. CASE Woken(t) \/ TimedOut(t)
  <2>1. InSend' = InSend /\ \A u \in InSend : u # t => pc'[u] = pc[u]
    BY <1>3, <1>p DEF Woken, TimedOut, Goto, InSend, Thread
  <2>2. pc'[t] = "done" => tx_done_sem = 1
    BY <1>3, <1>p DEF Woken, TimedOut, SendWoken, Goto, Thread
  <2>3. UNCHANGED <<chipVars, last_status, ready, mode, irq_pc, acked>> /\ (tx_done_sem' = 1 => tx_done_sem = 1)
    BY <1>3 DEF Woken, TimedOut, SendWoken, radioVars, drvVars
  <2>4. t \in InSend
    BY <1>3 DEF Woken, TimedOut, InSend
  <2>5. ResultIsOwn'
    BY <2>1, <2>2, <2>3, <2>4 DEF ResultIsOwn, IndInv, OneSend, chipVars
  <2>6. OneSend' /\ NothingLeftToSend' /\ IdleInPrx'
    BY <2>1, <2>3 DEF IndInv, OneSend, NothingLeftToSend, IdleInPrx, chipVars
  <2>7. NoPhantomFrame' /\ RxFlagHonest'
    BY <2>3 DEF IndInv, NoPhantomFrame, RxFlagHonest, chipVars
  <2> QED
    BY <1>t, <2>5, <2>6, <2>7 DEF IndInv
<1>4. CASE Finish(t)
  <2>1. t \in InSend
    BY <1>4 DEF Finish, InSend
  <2>2. InSend' = {}
    BY <1>4, <1>p, <2>1 DEF Finish, Goto, InSend, Thread, IndInv, OneSend
  <2>3. OneSend' /\ ResultIsOwn'
    BY <2>2 DEF OneSend, ResultIsOwn
  <2>4. tx_fifo' = Nobody
    BY <1>4, <2>1 DEF Finish, SendFinish, SendResult, IndInv, ResultIsOwn
  <2>5. IdleInPrx'
    BY <1>4 DEF Finish, SendFinish, Prim, IdleInPrx
  <2>6. NoPhantomFrame' /\ RxFlagHonest'
    BY <1>4 DEF Finish, SendFinish, Locked, NoPhantomFrame, RxFlagHonest, IndInv
  <2> QED
    BY <1>t, <2>3, <2>4, <2>5, <2>6 DEF IndInv, NothingLeftToSend
<1> QED
  BY <1>1, <1>2, <1>3, <1>4 DEF Sending

(* A thread that changes the power of the radio. *)
LEMMA PowerInv ==
  ASSUME NEW t \in Thread, IndInv, Powering(t)
  PROVE  IndInv'
<1>1. TypeOK'
  BY PowerTyped DEF IndInv
<1>2. InSend' = InSend /\ \A u \in InSend : pc'[u] = pc[u]
  <2>1. PICK l : Goto(t, l) /\ l \in {"idle", "configure", "listen", "woken"}
    BY DEF Powering, RadioOff, RadioOn, RadioConfigure, RadioListen
  <2>2. pc[t] \in {"off", "on", "configure", "listen"}
    BY DEF Powering, RadioOff, RadioOn, RadioConfigure, RadioListen
  <2> QED
    BY <2>1, <2>2, GotoKeepsInSend DEF IndInv
<1>3. ~Locked /\ UNCHANGED <<tx_done_sem, last_status, irq_pc, acked>>
  BY DEF Powering, RadioOff, RadioOn, RadioConfigure, RadioListen, PowerOff, PowerOn, Configure,
         StartRx, drvVars
<1>4. \/ tx_fifo' = Nobody /\ flags' = {}
      \/ UNCHANGED <<tx_fifo, flags, rx_fifo>>
  BY DEF Powering, RadioOff, RadioOn, RadioConfigure, RadioListen, PowerOff, PowerOn, Configure, StartRx
<1>5. OneSend' /\ NothingLeftToSend' /\ ResultIsOwn'
  BY <1>2, <1>3, <1>4 DEF IndInv, OneSend, NothingLeftToSend, ResultIsOwn
<1>6. IdleInPrx'
  <2>1. CASE RadioOff(t)
    BY <2>1 DEF RadioOff, PowerOff, IdleInPrx
  <2>2. CASE RadioOn(t)
    BY <2>2 DEF RadioOn, PowerOn, IdleInPrx
  <2>3. CASE RadioConfigure(t)
    BY <2>3, <1>2 DEF RadioConfigure, Configure, Prim, IdleInPrx, IndInv, drvVars
  <2>4. CASE RadioListen(t)
    BY <2>4 DEF RadioListen, StartRx, Prim, IdleInPrx
  <2> QED
    BY <2>1, <2>2, <2>3, <2>4 DEF Powering
<1>7. NoPhantomFrame' /\ RxFlagHonest'
  BY <1>3, <1>4 DEF Locked, NoPhantomFrame, RxFlagHonest, IndInv
<1> QED
  BY <1>1, <1>5, <1>6, <1>7 DEF IndInv

(* The radio. *)
LEMMA RadioInv == IndInv /\ Radio /\ UNCHANGED handlerVars => IndInv'
<1> SUFFICES ASSUME IndInv, Radio, UNCHANGED handlerVars PROVE IndInv'
  OBVIOUS
<1>1. TypeOK'
  BY RadioTyped DEF IndInv, TypeOK, HandlerTypeOK, handlerVars
<1>2. pc' = pc /\ InSend' = InSend
  BY DEF handlerVars, InSend
<1>3. UNCHANGED <<powered, prim, ce, mode, tx_done_sem, last_status, irq_pc>>
  BY DEF Radio, RadioAck, RadioMaxRt, RadioReceive, drvVars
<1>4. OneSend' /\ IdleInPrx'
  BY <1>2, <1>3 DEF IndInv, OneSend, IdleInPrx
<1>5. NothingLeftToSend'
  BY <1>2 DEF Radio, RadioAck, RadioMaxRt, RadioReceive, IndInv, NothingLeftToSend
<1>6. ResultIsOwn'
  <2>1. CASE RadioAck
    BY <2>1, <1>2, <1>3 DEF RadioAck, Transmitting, IndInv, OneSend, NothingLeftToSend, ResultIsOwn
  <2>2. CASE RadioMaxRt \/ RadioReceive
    BY <2>2, <1>2, <1>3 DEF RadioMaxRt, RadioReceive, IndInv, ResultIsOwn
  <2> QED
    BY <2>1, <2>2 DEF Radio
<1>7. NoPhantomFrame' /\ RxFlagHonest'
  BY <1>3 DEF Radio, RadioAck, RadioMaxRt, RadioReceive, IndInv, NoPhantomFrame, RxFlagHonest,
             TypeOK, Nrf24TypeOK
<1> QED
  BY <1>1, <1>4, <1>5, <1>6, <1>7 DEF IndInv

(* A completion is recorded with the result of the frame it is about. *)
LEMMA TxDoneOwn ==
  ASSUME OneSend, ResultIsOwn, TxDone, UNCHANGED <<pc, tx_fifo, acked>>
  PROVE  ResultIsOwn'
<1> USE DEF ResultIsOwn, InSend
<1>1. CASE Status \cap TxFlags # {}
  BY <1>1 DEF TxDone, Status, TxFlags
<1>2. CASE Status \cap TxFlags = {}
  BY <1>2 DEF TxDone
<1> QED
  BY <1>1, <1>2

(* The interrupt thread. *)
LEMMA IrqInv == IndInv /\ IrqThread /\ UNCHANGED handlerVars => IndInv'
<1> SUFFICES ASSUME IndInv, IrqThread, UNCHANGED handlerVars PROVE IndInv'
  OBVIOUS
<1>1. TypeOK'
  BY IrqTyped DEF IndInv, TypeOK, HandlerTypeOK, handlerVars
<1>2. pc' = pc /\ InSend' = InSend
  BY DEF handlerVars, InSend
<1>3. UNCHANGED <<powered, prim, ce, tx_fifo, mode, acked>>
  BY DEF IrqThread, IrqIdle, IrqWoken, IrqRead, IrqFetch, IrqClear, IrqRelock, chipVars
<1>4. OneSend' /\ NothingLeftToSend' /\ IdleInPrx'
  BY <1>2, <1>3 DEF IndInv, OneSend, NothingLeftToSend, IdleInPrx
<1>5. TxDone \/ (flags' \subseteq flags /\ UNCHANGED <<tx_done_sem, last_status>>)
  BY DEF IrqThread, IrqIdle, IrqWoken, IrqRead, IrqFetch, IrqClear, IrqRelock, chipVars
<1>6. ResultIsOwn'
  BY <1>2, <1>3, <1>5, TxDoneOwn DEF IndInv, ResultIsOwn
<1>7. NoPhantomFrame' /\ RxFlagHonest'
  <2> USE DEF IndInv, NoPhantomFrame, RxFlagHonest
  <2>1. CASE IrqIdle \/ IrqWoken
    BY <2>1 DEF IrqIdle, IrqWoken, chipVars
  <2>2. CASE IrqRead \/ IrqRelock
    BY <2>2 DEF IrqRead, IrqRelock, IrqNext, TxDone, Status
  <2>3. CASE IrqFetch
    BY <2>3 DEF IrqFetch
  <2>4. CASE IrqClear
    BY <2>4 DEF IrqClear
  <2> QED
    BY <2>1, <2>2, <2>3, <2>4 DEF IrqThread
<1> QED
  BY <1>1, <1>4, <1>6, <1>7 DEF IndInv

LEMMA InitInv == Init => IndInv
<1> SUFFICES ASSUME Init PROVE IndInv
  OBVIOUS
<1>1. InSend = {}
  <2>1. \A t \in Sender : pc[t] = "idle"
    BY ThreadAssumption DEF Init, Thread
  <2> QED
    BY <2>1 DEF InSend
<1>2. OneSend /\ ResultIsOwn
  BY <1>1 DEF OneSend, ResultIsOwn
<1>3. NothingLeftToSend /\ NoPhantomFrame /\ RxFlagHonest
  BY DEF Init, Nrf24Init, NothingLeftToSend, NoPhantomFrame, RxFlagHonest
<1>4. IdleInPrx
  BY Zenon DEF Init, Nrf24Init, IdleInPrx
<1> QED
  BY <1>2, <1>3, <1>4, InitTyped DEF IndInv

LEMMA NextInv == IndInv /\ [Next]_vars => IndInv'
<1> SUFFICES ASSUME IndInv, [Next]_vars PROVE IndInv'
  OBVIOUS
<1>1. CASE UNCHANGED vars
  <2>1. TypeOK'
    BY <1>1, NextTyped DEF IndInv
  <2> QED
    BY <1>1, <2>1, RadioKeptInv DEF vars, handlerVars, InSend
<1> QED
  BY <1>1, SenderInv, PowerInv, ControlInv, IrqInv, RadioInv DEF Next, Control

(* The inductive invariant holds in every reachable state. *)
THEOREM InvCorrect == Spec => []IndInv
BY InitInv, NextInv, PTL DEF Spec

(* nrf24_send reports success only for a frame the peer acknowledged,      *)
(* whatever completions of earlier sends, timeouts and changes of power    *)
(* come between.                                                           *)
THEOREM SendCorrect == Spec => []SentMeansAcked
<1>1. IndInv => SentMeansAcked
  BY DEF IndInv, ResultIsOwn, SentMeansAcked, SendResult, InSend
<1> QED
  BY <1>1, InvCorrect, PTL

(* A frame whose send has returned is not in the chip any more. *)
THEOREM FlushCorrect == Spec => []NothingLeftToSend
<1>1. IndInv => NothingLeftToSend
  BY DEF IndInv
<1> QED
  BY <1>1, InvCorrect, PTL

(* A powered radio that sends nothing listens. *)
THEOREM ListenCorrect == Spec => []ListensWhenIdle
<1>1. IndInv => ListensWhenIdle
  BY DEF IndInv, IdleInPrx, ListensWhenIdle
<1> QED
  BY <1>1, InvCorrect, PTL

(* The interrupt thread reads a payload only when the chip holds one. *)
THEOREM FetchCorrect == Spec => []NoPhantomFrame
<1>1. IndInv => NoPhantomFrame
  BY DEF IndInv
<1> QED
  BY <1>1, InvCorrect, PTL

-----------------------------------------------------------------------------
(* The history recorder *)

-----------------------------------------------------------------------------
(* The inductive invariant *)

(* Nothing fails, no file is removed by hand, the clock goes forward. *)
Calm == Only({"disable"})
Have == Stored(dir) \cup Pending
Busy == wpc \in {"open", "rotate", "write"}

(* Files and cache: the file in use is the newest. *)
FileInv ==
  /\ clock \in Nat /\ IsFiniteSet(DOMAIN dir) /\ DOMAIN dir \subseteq Nat
  /\ \A f \in DOMAIN dir : f <= clock /\ dir[f] \subseteq Nat \ {None}
  /\ cache \subseteq Nat \ {None}
  /\ his_cur_name # NoName => his_cur_name \in DOMAIN dir /\ \A f \in DOMAIN dir : f <= his_cur_name
  /\ his_fp_open => his_cur_name # NoName
  /\ cache # {} => his_fp_open
(* The order of the names is that of the samples. *)
FilesSorted ==
  /\ \A f \in DOMAIN dir : \A g \in DOMAIN dir : f < g => \A x \in dir[f] : \A y \in dir[g] : x < y
  /\ \A f \in DOMAIN dir : f # his_cur_name => \A x \in dir[f] : \A y \in cache : x < y
(* The queue has the last samples, the work item the one before them. *)
QueueInv ==
  /\ accepted \in Nat /\ hand \in Nat /\ his_msgq \in Seq(Nat) /\ Len(his_msgq) <= accepted
  /\ \A i \in 1..Len(his_msgq) : his_msgq[i] + Len(his_msgq) = accepted + i
  /\ hand # None => hand + Len(his_msgq) = accepted
  /\ hand # None <=> Busy
  /\ wpc \in {"rotate", "write"} => his_fp_open
  /\ \A x \in Stored(dir) \cup cache : x + Len(his_msgq) <= accepted /\ (hand # None => x < hand)

HisInv == Calm => FileInv /\ FilesSorted /\ QueueInv /\ OldestLost

-----------------------------------------------------------------------------
(* Names *)

(* A set of numbers has a least element: the library's statement for any *)
(* well-founded relation, of "less than".                                *)
LEMMA LeastOf ==
  ASSUME NEW T, T \subseteq Nat, T # {}
  PROVE  \E x \in T : \A y \in T : x <= y
<1> DEFINE R == OpToRel(<, Nat)
<1>1. IsWellFoundedOn(R, Nat)
  BY NatLessThanWellFounded, Zenon
<1>2. \A x \in Nat : \A y \in Nat : y < x => <<y, x>> \in R
  BY DEF OpToRel
<1> HIDE DEF R
<1>3. PICK x \in T : \A y \in T : ~(<<y, x>> \in R)
  BY <1>1, WFMin
<1>4. ASSUME NEW y \in T PROVE x <= y
  <2>1. x \in Nat /\ y \in Nat
    OBVIOUS
  <2>2. ~(y < x)
    BY <1>2, <1>3, <1>4, <2>1
  <2> QED
    BY <2>1, <2>2
<1> QED
  BY <1>4

(* A set of names has a largest, the names being no later than the clock. *)
LEMMA MaxOf ==
  ASSUME NEW S, S \subseteq Nat, S # {}, NEW c \in Nat, \A x \in S : x <= c
  PROVE  Max(S) \in S /\ \A x \in S : x <= Max(S)
<1> DEFINE T == {n \in Nat : \A x \in S : x <= n}
<1>1. PICK m \in T : \A y \in T : m <= y
  <2>1. c \in T /\ T \subseteq Nat
    OBVIOUS
  <2> HIDE DEF T
  <2> QED
    BY <2>1, LeastOf
<1>2. m \in S
  <2> SUFFICES ASSUME m \notin S PROVE FALSE
    OBVIOUS
  <2>1. \A x \in S : x < m
    BY <1>1
  <2>2. m \in Nat
    BY <1>1
  <2>3. PICK e \in S : TRUE
    OBVIOUS
  <2>4. e \in Nat /\ e < m
    BY <2>1, <2>3
  <2>5. m - 1 \in Nat
    BY <2>2, <2>4
  <2>6. ASSUME NEW x \in S PROVE x <= m - 1
    <3>1. x < m /\ x \in Nat
      BY <2>1
    <3> QED
      BY <2>2, <3>1
  <2>7. m - 1 \in T
    BY <2>5, <2>6
  <2> QED
    BY <1>1, <2>2, <2>7
<1>3. \A x \in S : m >= x
  BY <1>1
<1>4. Max(S) \in S /\ \A x \in S : Max(S) >= x
  BY <1>2, <1>3 DEF Max
<1> QED
  BY <1>4

(* Rotation keeps the larger names, the largest among them. *)
LEMMA KeptLargest ==
  ASSUME NEW S, S \subseteq Nat, IsFiniteSet(S)
  PROVE  /\ Kept(S) \subseteq S
         /\ \A a \in Kept(S) : \A b \in S \ Kept(S) : b < a
         /\ \A m \in S : (\A x \in S : x <= m) => m \in Kept(S)
<1> DEFINE Above(a) == {b \in S : b > a}
<1>1. \A a \in S : a \in Kept(S) <=> Cardinality(Above(a)) < MaxFiles
  BY DEF Kept
<1>2. \A a \in S : IsFiniteSet(Above(a)) /\ Cardinality(Above(a)) \in Nat
  <2> SUFFICES ASSUME NEW a \in S PROVE IsFiniteSet(Above(a)) /\ Cardinality(Above(a)) \in Nat
    OBVIOUS
  <2>1. Above(a) \subseteq S
    OBVIOUS
  <2> HIDE DEF Above
  <2> QED
    BY <2>1, FS_Subset, FS_CardinalityType
<1>3. MaxFiles \in Nat \ {0}
  BY HistoryAssumption
<1>4. ASSUME NEW a \in Kept(S), NEW b \in S \ Kept(S)
      PROVE  b < a
  <2>1. a \in S /\ a \in Nat /\ b \in Nat
    BY DEF Kept
  <2> SUFFICES ASSUME a < b PROVE FALSE
    BY <1>4, <2>1
  <2>2. ASSUME NEW x \in Above(b) PROVE x \in Above(a)
    <3>1. x \in S /\ x > b /\ x \in Nat
      OBVIOUS
    <3>2. x > a
      BY <2>1, <3>1
    <3> QED
      BY <3>1, <3>2
  <2> HIDE DEF Above
  <2>3. Cardinality(Above(b)) <= Cardinality(Above(a))
    BY <1>2, <2>1, <2>2, FS_Subset
  <2>4. Cardinality(Above(a)) < MaxFiles /\ ~(Cardinality(Above(b)) < MaxFiles)
    BY <1>1, <1>4, <2>1
  <2>5. Cardinality(Above(a)) \in Nat /\ Cardinality(Above(b)) \in Nat
    BY <1>2, <2>1
  <2> QED
    BY <1>3, <2>3, <2>4, <2>5
<1>5. ASSUME NEW m \in S, \A x \in S : x <= m
      PROVE  m \in Kept(S)
  <2>1. \A x \in S : x \in Nat /\ m \in Nat /\ x <= m
    BY <1>5
  <2>2. \A x \in S : ~(x > m)
    BY <2>1
  <2>3. Above(m) = {}
    BY <2>2
  <2>4. Cardinality({}) = 0
    BY FS_EmptySet
  <2> HIDE DEF Above
  <2> QED
    BY <1>1, <1>3, <1>5, <2>3, <2>4
<1>6. Kept(S) \subseteq S
  BY DEF Kept
<1> QED
  BY <1>4, <1>5, <1>6

-----------------------------------------------------------------------------
(* Samples *)

LEMMA InitCalm == HisInit => HisInv
<1> SUFFICES ASSUME HisInit PROVE FileInv /\ FilesSorted /\ QueueInv /\ OldestLost
  BY DEF HisInv
<1>1. DOMAIN dir = {} /\ IsFiniteSet({})
  BY FS_EmptySet DEF HisInit
<1>2. FileInv
  BY <1>1 DEF FileInv, HisInit
<1>3. FilesSorted
  BY <1>1 DEF FilesSorted, HisInit
<1>4. QueueInv
  <2>1. Stored(dir) = {} /\ Len(<<>>) = 0 /\ <<>> \in Seq(Nat)
    BY <1>1 DEF Stored
  <2> QED
    BY <2>1 DEF QueueInv, HisInit, None, Busy
<1>5. OldestLost
  BY DEF OldestLost, HisInit
<1> QED
  BY <1>2, <1>3, <1>4, <1>5

(* Nothing of files and samples moves. *)
LEMMA SamplesStand ==
  ASSUME FileInv, FilesSorted, QueueInv, OldestLost,
         UNCHANGED <<clock, accepted, his_msgq, dir, fileVars, hand>>,
         wpc' = wpc \/ {wpc, wpc'} \cap {"open", "rotate", "write"} = {}
  PROVE  FileInv' /\ FilesSorted' /\ QueueInv' /\ OldestLost'
<1>1. FileInv' /\ FilesSorted'
  BY DEF FileInv, FilesSorted, fileVars
<1>2. Busy' <=> Busy
  BY DEF Busy
<1>3. QueueInv'
  BY <1>2 DEF QueueInv, fileVars, Stored
<1>4. OldestLost'
  BY DEF OldestLost, Pending, Stored, fileVars
<1> QED
  BY <1>1, <1>3, <1>4

(* What the work item has and what is stored are the same samples. *)
LEMMA SameSamples ==
  ASSUME OldestLost, accepted' = accepted, \A x : x \in Have' <=> x \in Have
  PROVE  OldestLost'
BY DEF OldestLost, Have

(* The file takes what is cached for it. *)
LEMMA FlushedFiles ==
  ASSUME FileInv, FilesSorted
  PROVE  /\ DOMAIN Flushed = DOMAIN dir
         /\ \A x : x \in Stored(Flushed) <=> x \in Stored(dir) \cup cache
         /\ \A f \in DOMAIN dir : Flushed[f] \subseteq Nat \ {None} /\ Flushed[f] \subseteq Stored(Flushed)
         /\ \A f \in DOMAIN dir : \A g \in DOMAIN dir :
              f < g => \A x \in Flushed[f] : \A y \in Flushed[g] : x < y
<1>1. CASE his_fp_open
  <2>1. his_cur_name \in DOMAIN dir /\ his_cur_name \in Nat /\ \A f \in DOMAIN dir : f <= his_cur_name /\ f \in Nat
    BY <1>1 DEF FileInv
  <2>2. /\ DOMAIN Flushed = DOMAIN dir
        /\ \A f \in DOMAIN dir : Flushed[f] = IF f = his_cur_name THEN dir[f] \cup cache ELSE dir[f]
    BY <1>1, <2>1 DEF Flushed
  <2>3. \A x : x \in Stored(Flushed) <=> x \in Stored(dir) \cup cache
    BY <2>1, <2>2 DEF Stored
  <2>4. \A f \in DOMAIN dir : Flushed[f] \subseteq Nat \ {None}
    BY <2>2 DEF FileInv
  <2>5. \A f \in DOMAIN dir : Flushed[f] \subseteq Stored(Flushed)
    BY <2>2 DEF Stored
  <2>6. ASSUME NEW f \in DOMAIN dir, NEW g \in DOMAIN dir, f < g, NEW x \in Flushed[f], NEW y \in Flushed[g]
        PROVE  x < y
    <3>1. f # his_cur_name /\ x \in dir[f]
      BY <2>1, <2>2, <2>6
    <3>2. y \in dir[g] \/ y \in cache
      BY <2>2
    <3> QED
      BY <2>6, <3>1, <3>2 DEF FilesSorted
  <2> QED
    BY <2>2, <2>3, <2>4, <2>5, <2>6
<1>2. CASE ~his_fp_open
  <2>1. Flushed = dir /\ cache = {}
    BY <1>2 DEF Flushed, FileInv
  <2> QED
    BY <2>1 DEF FileInv, FilesSorted, Stored
<1> QED
  BY <1>1, <1>2

(* The samples of the queue, by their numbers. *)
LEMMA QueueSamples ==
  ASSUME NEW q \in Seq(Nat), NEW a \in Nat, Len(q) <= a, \A i \in 1..Len(q) : q[i] + Len(q) = a + i, NEW x
  PROVE  x \in {q[i] : i \in DOMAIN q} <=> x \in Nat /\ x <= a /\ a < x + Len(q)
<1>1. Len(q) \in Nat /\ DOMAIN q = 1..Len(q) /\ \A i \in 1..Len(q) : q[i] \in Nat
  OBVIOUS
<1>2. ASSUME NEW i \in DOMAIN q, x = q[i] PROVE x \in Nat /\ x <= a /\ a < x + Len(q)
  BY <1>1, <1>2
<1>3. ASSUME x \in Nat, x <= a, a < x + Len(q) PROVE x \in {q[i] : i \in DOMAIN q}
  <2> DEFINE i == x + Len(q) - a
  <2>1. i \in 1..Len(q)
    BY <1>1, <1>3
  <2>2. q[i] + Len(q) = a + i /\ q[i] \in Nat
    BY <1>1, <2>1
  <2>3. q[i] = x
    BY <1>1, <1>3, <2>1, <2>2
  <2> QED
    BY <1>1, <2>1, <2>3
<1> QED
  BY <1>2, <1>3

-----------------------------------------------------------------------------
(* A sample enters the queue as the newest. *)
LEMMA PutCalm ==
  ASSUME NEW s \in Sampler, FileInv, FilesSorted, QueueInv, OldestLost, Put(s)
  PROVE  FileInv' /\ FilesSorted' /\ QueueInv' /\ OldestLost'
<1> UNCHANGED <<clock, dir, cache, his_cur_name, his_cur_size, his_fp_open, wpc, hand>>
  BY DEF Put, fileVars, workVars
<1>1. FileInv' /\ FilesSorted'
  BY DEF FileInv, FilesSorted
<1>2. Busy' <=> Busy
  BY DEF Busy
<1>3. CASE ~Room
  <2> UNCHANGED <<accepted, his_msgq>>
    BY <1>3 DEF Put
  <2>1. QueueInv'
    BY <1>2 DEF QueueInv, Stored
  <2>2. OldestLost'
    BY DEF OldestLost, Pending, Stored
  <2> QED
    BY <1>1, <2>1, <2>2
<1>4. CASE Room
  <2> DEFINE n == Len(his_msgq)
  <2>1. accepted' = accepted + 1 /\ his_msgq' = Append(his_msgq, accepted + 1)
    BY <1>4 DEF Put
  <2>2. accepted \in Nat /\ his_msgq \in Seq(Nat) /\ n \in Nat /\ n <= accepted
    BY DEF QueueInv
  <2>3. his_msgq' \in Seq(Nat) /\ Len(his_msgq') = n + 1 /\ accepted' \in Nat
    BY <2>1, <2>2
  <2>4. \A i \in 1..n + 1 : his_msgq'[i] = IF i = n + 1 THEN accepted + 1 ELSE his_msgq[i]
    BY <2>1, <2>2
  <2>5. ASSUME NEW i \in 1..n + 1 PROVE his_msgq'[i] + (n + 1) = accepted + 1 + i
    <3>1. CASE i = n + 1
      BY <2>2, <2>4, <3>1
    <3>2. CASE i # n + 1
      <4>1. i \in 1..n /\ his_msgq'[i] = his_msgq[i] /\ his_msgq[i] \in Nat
        BY <2>2, <2>4, <3>2, SMTT(30)
      <4>2. his_msgq[i] + n = accepted + i
        BY <4>1 DEF QueueInv
      <4> QED
        BY <2>2, <4>1, <4>2
    <3> QED
      BY <3>1, <3>2
  <2>6. ASSUME NEW x \in (Stored(dir) \cup cache) PROVE x \in Nat /\ x + n <= accepted /\ (hand # None => x < hand)
    BY DEF QueueInv, FileInv, Stored
  <2>7. hand \in Nat /\ (hand # None => hand + n = accepted) /\ (hand # None <=> Busy)
        /\ (wpc \in {"rotate", "write"} => his_fp_open)
    BY DEF QueueInv
  <2>8. QueueInv'
    <3>1. Stored(dir)' = Stored(dir)
      BY DEF Stored
    <3>2. \A x \in (Stored(dir) \cup cache)' : x + (n + 1) <= accepted + 1 /\ (hand # None => x < hand)
      BY <2>2, <2>6, <3>1
    <3>3. hand # None => hand + (n + 1) = accepted + 1
      BY <2>2, <2>7
    <3>4. n + 1 <= accepted + 1
      BY <2>2
    <3> HIDE DEF n
    <3> QED
      BY <1>2, <2>1, <2>3, <2>5, <2>7, <3>2, <3>3, <3>4 DEF QueueInv
  <2>9. OldestLost'
    <3>1. \A x : x \in {his_msgq'[i] : i \in DOMAIN his_msgq'}
                  <=> x \in {his_msgq[i] : i \in DOMAIN his_msgq} \/ x = accepted + 1
      <4>1. DOMAIN his_msgq' = 1..n + 1 /\ DOMAIN his_msgq = 1..n /\ n \in Nat
        BY <2>2, <2>3
      <4>2. n + 1 \in 1..n + 1 /\ \A i \in 1..n : i \in 1..n + 1 /\ i # n + 1
        BY <4>1
      <4>3. \A i \in 1..n + 1 : i \in 1..n \/ i = n + 1
        BY <4>1
      <4> QED
        BY <2>4, <4>1, <4>2, <4>3
    <3>2. \A x : x \in Have' <=> x \in Have \/ x = accepted + 1
      BY <3>1 DEF Have, Pending, Stored
    <3>3. ASSUME NEW x \in 1..accepted + 1, x \notin Have', NEW y \in Have' PROVE x < y
      <4>1. x \in 1..accepted /\ x \notin Have
        BY <2>2, <3>2, <3>3
      <4>2. CASE y \in Have
        BY <4>1, <4>2 DEF OldestLost, Have
      <4>3. CASE y = accepted + 1
        BY <2>2, <4>1, <4>3
      <4> QED
        BY <3>2, <3>3, <4>2, <4>3
    <3> QED
      BY <2>1, <3>3 DEF OldestLost, Have
  <2> QED
    BY <1>1, <2>8, <2>9
<1> QED
  BY <1>3, <1>4

(* The work item takes the oldest sample of the queue. *)
LEMMA GetCalm ==
  ASSUME FileInv, FilesSorted, QueueInv, OldestLost, WorkGet
  PROVE  FileInv' /\ FilesSorted' /\ QueueInv' /\ OldestLost'
<1> UNCHANGED <<clock, accepted, dir, cache, his_cur_name, his_cur_size, his_fp_open>>
  BY DEF WorkGet, At, fileVars, sampleVars
<1>1. FileInv' /\ FilesSorted'
  BY DEF FileInv, FilesSorted
<1>2. CASE his_msgq = <<>>
  <2>1. UNCHANGED <<hand, his_msgq>> /\ wpc = "get" /\ wpc' = "close"
    BY <1>2 DEF WorkGet, At
  <2>2. ~Busy /\ ~Busy'
    BY <2>1 DEF Busy
  <2>3. QueueInv'
    BY <2>1, <2>2 DEF QueueInv, Stored
  <2>4. OldestLost'
    BY <2>1 DEF OldestLost, Pending, Stored
  <2> QED
    BY <1>1, <2>3, <2>4
<1>3. CASE his_msgq # <<>>
  <2> DEFINE n == Len(his_msgq)
  <2>1. hand' = Head(his_msgq) /\ his_msgq' = Tail(his_msgq) /\ wpc = "get" /\ wpc' = "open"
    BY <1>3 DEF WorkGet, At
  <2>2. accepted \in Nat /\ his_msgq \in Seq(Nat) /\ n \in Nat /\ n <= accepted /\ n > 0
    <3>1. accepted \in Nat /\ his_msgq \in Seq(Nat) /\ n <= accepted
      BY DEF QueueInv
    <3> QED
      BY <1>3, <3>1
  <2>3. his_msgq' \in Seq(Nat) /\ Len(his_msgq') = n - 1 /\ \A i \in 1..n - 1 : his_msgq'[i] = his_msgq[i + 1]
    BY <1>3, <2>1, <2>2
  <2>4. 1 \in 1..n /\ hand' = his_msgq[1] /\ hand' \in Nat
    BY <1>3, <2>1, <2>2
  <2>5. hand' + n = accepted + 1
    BY <2>4 DEF QueueInv
  <2>6. hand' # 0 /\ hand' + (n - 1) = accepted
    BY <2>2, <2>4, <2>5
  <2>7. ASSUME NEW i \in 1..n - 1 PROVE his_msgq'[i] + (n - 1) = accepted + i
    <3>1. i + 1 \in 1..n /\ his_msgq[i + 1] \in Nat
      BY <2>2
    <3>2. his_msgq[i + 1] + n = accepted + (i + 1)
      BY <3>1 DEF QueueInv
    <3>3. his_msgq'[i] = his_msgq[i + 1] /\ i \in Nat
      BY <2>2, <2>3
    <3> DEFINE v == his_msgq[i + 1]
    <3>4. v \in Nat /\ v + n = accepted + (i + 1) /\ his_msgq'[i] = v
      BY <3>1, <3>2, <3>3
    <3> HIDE DEF n, v
    <3>5. v + (n - 1) = accepted + i
      BY <2>2, <3>3, <3>4
    <3> QED
      BY <3>4, <3>5
  <2>8. Busy' /\ ~Busy
    BY <2>1 DEF Busy
  <2>9. hand = None
    BY <2>8 DEF QueueInv
  <2>10. ASSUME NEW x \in (Stored(dir) \cup cache) PROVE x + (n - 1) <= accepted /\ x < hand'
    <3>1. x \in Nat /\ x + n <= accepted
      BY DEF QueueInv, FileInv, Stored
    <3> QED
      BY <2>2, <2>4, <2>5, <3>1
  <2>11. QueueInv'
    <3>1. Stored(dir)' = Stored(dir)
      BY DEF Stored
    <3>2. n - 1 <= accepted
      BY <2>2
    <3> HIDE DEF n
    <3> QED
      BY <2>1, <2>3, <2>4, <2>6, <2>7, <2>8, <2>10, <2>2, <3>1, <3>2 DEF QueueInv, None
  <2>12. OldestLost'
    <3>1. \A x : x \in {his_msgq[i] : i \in DOMAIN his_msgq} <=> x \in Nat /\ x <= accepted /\ accepted < x + n
      BY <2>2, QueueSamples DEF QueueInv
    <3>2. n - 1 <= accepted
      BY <2>2
    <3>3. \A i \in 1..Len(his_msgq') : his_msgq'[i] + Len(his_msgq') = accepted + i
      BY <2>3, <2>7
    <3>4. \A x : x \in {his_msgq'[i] : i \in DOMAIN his_msgq'} <=> x \in Nat /\ x <= accepted /\ accepted < x + (n - 1)
      <4> DEFINE q == his_msgq'
      <4>1. q \in Seq(Nat) /\ Len(q) <= accepted /\ \A i \in 1..Len(q) : q[i] + Len(q) = accepted + i
        BY <2>3, <3>2, <3>3
      <4>2. Len(q) = n - 1
        BY <2>3
      <4> HIDE DEF q
      <4>3. \A x : x \in {q[i] : i \in DOMAIN q} <=> x \in Nat /\ x <= accepted /\ accepted < x + Len(q)
        BY <2>2, <4>1, QueueSamples
      <4> QED
        BY <4>2, <4>3 DEF q
    <3>5. \A x : x \in {his_msgq[i] : i \in DOMAIN his_msgq} <=> x \in {his_msgq'[i] : i \in DOMAIN his_msgq'} \/ x = hand'
      <4> SUFFICES ASSUME NEW x
                   PROVE  (x \in Nat /\ x <= accepted /\ accepted < x + n)
                          <=> (x \in Nat /\ x <= accepted /\ accepted < x + (n - 1)) \/ x = hand'
        BY <3>1, <3>4
      <4> QED
        BY <2>2, <2>4, <2>5
    <3>6. \A x : x \in Have' <=> x \in Have
      BY <2>6, <2>9, <3>5, ZenonT(40) DEF Have, Pending, Stored, None
    <3> QED
      BY <3>6, SameSamples
  <2> QED
    BY <1>1, <2>11, <2>12
<1> QED
  BY <1>2, <1>3

-----------------------------------------------------------------------------
(* A file is opened, the cache having been taken by its own. *)
LEMMA OpenedCalm ==
  ASSUME FileInv, FilesSorted, QueueInv, OldestLost,
         UNCHANGED <<accepted, his_msgq, hand>>, wpc = "open", wpc' \in {"write", "rotate"},
         his_fp_open', cache' = {}, clock' \in Nat, clock <= clock',
         his_cur_name' \in Nat, his_cur_name' <= clock',
         \A f \in DOMAIN dir : f <= his_cur_name',
         DOMAIN dir' = DOMAIN dir \cup {his_cur_name'},
         \A f \in DOMAIN dir : dir'[f] = Flushed[f],
         his_cur_name' \notin DOMAIN dir => dir'[his_cur_name'] = {}
  PROVE  FileInv' /\ FilesSorted' /\ QueueInv' /\ OldestLost'
<1> DEFINE name == his_cur_name'
<1>1. /\ DOMAIN Flushed = DOMAIN dir
      /\ \A x : x \in Stored(Flushed) <=> x \in Stored(dir) \cup cache
      /\ \A f \in DOMAIN dir : Flushed[f] \subseteq Nat \ {None} /\ Flushed[f] \subseteq Stored(Flushed)
      /\ \A f \in DOMAIN dir : \A g \in DOMAIN dir :
           f < g => \A x \in Flushed[f] : \A y \in Flushed[g] : x < y
  BY FlushedFiles
<1>2. \A x : x \in Stored(dir)' <=> x \in Stored(dir) \cup cache
  <2>1. \A x : x \in Stored(dir)' <=> \E f \in DOMAIN dir' : x \in dir'[f]
    BY DEF Stored
  <2>2. \A x : x \in Stored(Flushed) <=> \E f \in DOMAIN dir : x \in Flushed[f]
    BY <1>1 DEF Stored
  <2> QED
    BY <1>1, <2>1, <2>2
<1>3. FileInv'
  <2>1. IsFiniteSet(DOMAIN dir')
    BY FS_AddElement DEF FileInv
  <2>2. ASSUME NEW f \in DOMAIN dir' PROVE f \in Nat /\ f <= clock' /\ f <= name /\ dir'[f] \subseteq Nat \ {None}
    <3>1. CASE f \in DOMAIN dir
      <4>1. f \in Nat /\ f <= clock /\ clock \in Nat
        BY <3>1 DEF FileInv
      <4>2. f <= name /\ dir'[f] \subseteq Nat \ {None}
        BY <1>1, <3>1
      <4>3. f <= clock'
        BY <4>1
      <4> QED
        BY <4>1, <4>2, <4>3
    <3>2. CASE f \notin DOMAIN dir
      <4>1. f = name /\ dir'[f] = {}
        BY <2>2, <3>2
      <4> QED
        BY <4>1
    <3> QED
      BY <3>1, <3>2
  <2>3. name \in DOMAIN dir' /\ name # NoName
    BY HistoryAssumption
  <2> QED
    BY <2>1, <2>2, <2>3 DEF FileInv
<1>4. FilesSorted'
  <2>1. ASSUME NEW f \in DOMAIN dir', NEW g \in DOMAIN dir', f < g, NEW x \in dir'[f], NEW y \in dir'[g]
        PROVE  x < y
    <3>1. f \in DOMAIN dir /\ g \in DOMAIN dir
      BY <2>1
    <3>2. x \in Flushed[f] /\ y \in Flushed[g]
      BY <3>1
    <3> QED
      BY <1>1, <2>1, <3>1, <3>2
  <2> QED
    BY <2>1 DEF FilesSorted
<1>5. Busy /\ Busy'
  BY DEF Busy
<1>6. QueueInv'
  <2>1. \A x \in Stored(dir)' \cup cache' : x + Len(his_msgq) <= accepted /\ (hand # None => x < hand)
    BY <1>2 DEF QueueInv
  <2>2. wpc' \in {"rotate", "write"} => his_fp_open'
    OBVIOUS
  <2> QED
    BY <1>5, <2>1, <2>2 DEF QueueInv
<1>7. OldestLost'
  <2>1. \A x : x \in Have' <=> x \in Have
    BY <1>2 DEF Have, Pending
  <2> QED
    BY <2>1, SameSamples
<1> QED
  BY <1>3, <1>4, <1>6, <1>7

(* The last file, or the one with the largest name. *)
LEMMA FoundCalm ==
  ASSUME FileInv, FilesSorted, QueueInv, OldestLost, NEW broken, Found(Flushed, broken) # NoName
  PROVE  /\ Found(Flushed, broken) \in DOMAIN dir
         /\ \A f \in DOMAIN dir : f <= Found(Flushed, broken)
<1> DEFINE name == Found(Flushed, broken)
<1>1. DOMAIN Flushed = DOMAIN dir
  BY FlushedFiles
<1>2. name = his_cur_name \/ (DOMAIN dir # {} /\ name = Max(DOMAIN dir))
  BY <1>1 DEF Found
<1>3. CASE name = his_cur_name
  BY <1>3 DEF FileInv
<1>4. CASE DOMAIN dir # {} /\ name = Max(DOMAIN dir)
  <2>1. clock \in Nat /\ DOMAIN dir \subseteq Nat /\ \A f \in DOMAIN dir : f <= clock
    BY DEF FileInv
  <2> QED
    BY <1>4, <2>1, MaxOf
<1> QED
  BY <1>2, <1>3, <1>4

LEMMA OpenFoundCalm ==
  ASSUME FileInv, FilesSorted, QueueInv, OldestLost, OpenFound
  PROVE  FileInv' /\ FilesSorted' /\ QueueInv' /\ OldestLost'
<1>1. UNCHANGED <<clock, accepted, his_msgq, hand>> /\ wpc = "open" /\ wpc' = "write"
      /\ his_fp_open' /\ cache' = {} /\ dir' = Flushed
  BY DEF OpenFound, At, sampleVars
<1>2. PICK broken \in Broken : Found(Flushed, broken) # NoName /\ his_cur_name' = Found(Flushed, broken)
  BY DEF OpenFound
<1>3. his_cur_name' \in DOMAIN dir /\ \A f \in DOMAIN dir : f <= his_cur_name'
  BY <1>2, FoundCalm
<1>4. DOMAIN Flushed = DOMAIN dir
  BY FlushedFiles
<1>5. clock \in Nat /\ his_cur_name' \in Nat /\ his_cur_name' <= clock
  BY <1>3 DEF FileInv
<1>6. DOMAIN dir' = DOMAIN dir \cup {his_cur_name'} /\ \A f \in DOMAIN dir : dir'[f] = Flushed[f]
  BY <1>1, <1>3, <1>4
<1>7. clock' \in Nat /\ clock <= clock' /\ his_cur_name' <= clock'
  BY <1>1, <1>5
<1> QED
  BY <1>1, <1>3, <1>5, <1>6, <1>7, OpenedCalm

(* A new name is later than all others. *)
LEMMA OpenNewCalm ==
  ASSUME FileInv, FilesSorted, QueueInv, OldestLost, OpenNew
  PROVE  FileInv' /\ FilesSorted' /\ QueueInv' /\ OldestLost'
<1>1. UNCHANGED <<his_msgq, hand>> /\ his_fp_open' /\ cache' = {}
  BY DEF OpenNew
<1>2. PICK name \in {clock, clock + 1} :
        /\ clock' = name /\ his_cur_name' = name
        /\ dir' = IF name \notin DOMAIN dir
                  THEN [f \in DOMAIN dir \cup {name} |-> IF f = name THEN {} ELSE Flushed[f]] ELSE Flushed
        /\ At("open", IF (IF name \notin DOMAIN dir THEN 0 ELSE Cardinality(Flushed[name])) = 0
                      THEN "rotate" ELSE "write")
  BY DEF OpenNew
<1>3. UNCHANGED accepted /\ wpc = "open" /\ wpc' \in {"write", "rotate"}
  BY <1>2 DEF At, sampleVars
<1>4. clock \in Nat /\ \A f \in DOMAIN dir : f \in Nat /\ f <= clock
  BY DEF FileInv
<1>5. name \in Nat /\ clock <= name /\ \A f \in DOMAIN dir : f <= name
  BY <1>4
<1>6. DOMAIN Flushed = DOMAIN dir
  BY FlushedFiles
<1>7. DOMAIN dir' = DOMAIN dir \cup {name} /\ \A f \in DOMAIN dir : dir'[f] = Flushed[f]
  <2>1. CASE name \in DOMAIN dir
    BY <1>2, <1>6, <2>1
  <2>2. CASE name \notin DOMAIN dir
    <3>1. dir' = [f \in DOMAIN dir \cup {name} |-> IF f = name THEN {} ELSE Flushed[f]]
      BY <1>2, <2>2
    <3> QED
      BY <2>2, <3>1
  <2> QED
    BY <2>1, <2>2
<1>8. name \notin DOMAIN dir => dir'[name] = {}
  BY <1>2
<1>9. clock' \in Nat /\ clock <= clock' /\ his_cur_name' \in Nat /\ his_cur_name' <= clock'
  BY <1>2, <1>5
<1>10. \A f \in DOMAIN dir : f <= his_cur_name'
  BY <1>2, <1>5
<1> QED
  BY <1>1, <1>2, <1>3, <1>7, <1>8, <1>9, <1>10, OpenedCalm

-----------------------------------------------------------------------------
(* The oldest files go, and no other sample is as old as theirs. *)
LEMMA RotateCalm ==
  ASSUME FileInv, FilesSorted, QueueInv, OldestLost, WorkRotate
  PROVE  FileInv' /\ FilesSorted' /\ QueueInv' /\ OldestLost'
<1> DEFINE K == Kept(DOMAIN dir)
<1> UNCHANGED <<clock, accepted, his_msgq, cache, his_cur_name, his_cur_size, his_fp_open, hand>>
  BY DEF WorkRotate, At, fileVars, sampleVars
<1>1. wpc = "rotate" /\ wpc' = "write" /\ dir' = Restrict(dir, K)
  BY DEF WorkRotate, At
<1>2. IsFiniteSet(DOMAIN dir) /\ DOMAIN dir \subseteq Nat
  BY DEF FileInv
<1>3. /\ K \subseteq DOMAIN dir
      /\ \A a \in K : \A b \in DOMAIN dir \ K : b < a
      /\ \A m \in DOMAIN dir : (\A x \in DOMAIN dir : x <= m) => m \in K
  BY <1>2, KeptLargest
<1> HIDE DEF K
<1>4. DOMAIN dir' = K /\ \A f \in K : dir'[f] = dir[f]
  BY <1>1, <1>3 DEF Restrict
<1>5. his_fp_open /\ his_cur_name # NoName /\ his_cur_name \in K
  BY <1>1, <1>3 DEF FileInv, QueueInv
<1>6. Busy /\ Busy' /\ hand # None
  BY <1>1 DEF Busy, QueueInv
<1>7. FileInv'
  <2>1. IsFiniteSet(K)
    BY <1>2, <1>3, FS_Subset
  <2> QED
    BY <1>3, <1>4, <1>5, <2>1 DEF FileInv
<1>8. FilesSorted'
  BY <1>3, <1>4 DEF FilesSorted
<1>9. \A x : x \in Stored(dir)' <=> \E f \in K : x \in dir[f]
  BY <1>4 DEF Stored
<1>10. \A x : x \in Stored(dir) <=> \E f \in DOMAIN dir : x \in dir[f]
  BY DEF Stored
<1>11. QueueInv'
  <2>1. \A x \in Stored(dir)' \cup cache' : x \in Stored(dir) \cup cache
    BY <1>3, <1>9, <1>10
  <2> QED
    BY <1>1, <1>5, <1>6, <2>1 DEF QueueInv
<1>12. ASSUME NEW x \in Stored(dir), x \notin Stored(dir)', NEW y \in Have'
       PROVE  x < y
  <2>1. PICK f \in DOMAIN dir \ K : x \in dir[f]
    BY <1>9, <1>10, <1>12
  <2>2. f # his_cur_name
    BY <1>5
  <2>3. x \in Nat /\ x + Len(his_msgq) <= accepted /\ x < hand
    BY <1>6 DEF QueueInv, FileInv, Stored
  <2>4. CASE y \in Stored(dir)'
    <3>1. PICK g \in K : y \in dir[g]
      BY <1>9, <2>4
    <3>2. f < g /\ g \in DOMAIN dir
      BY <1>3
    <3> QED
      BY <2>1, <3>1, <3>2 DEF FilesSorted
  <2>5. CASE y \in cache
    BY <2>1, <2>2, <2>5 DEF FilesSorted
  <2>6. CASE y = hand
    BY <2>3, <2>6
  <2>7. CASE y \in {his_msgq[i] : i \in DOMAIN his_msgq}
    <3>1. y \in Nat /\ accepted < y + Len(his_msgq) /\ accepted \in Nat /\ Len(his_msgq) \in Nat
      BY <2>7, QueueSamples, SMTT(30) DEF QueueInv
    <3> QED
      BY <2>3, <3>1
  <2> QED
    BY <1>12, <2>4, <2>5, <2>6, <2>7 DEF Have, Pending
<1>13. OldestLost'
  <2>1. \A y : y \in Have' => y \in Have
    BY <1>3, <1>9, <1>10 DEF Have, Pending
  <2>2. \A x : x \in Have /\ x \notin Have' => x \in Stored(dir) /\ x \notin Stored(dir)'
    BY DEF Have, Pending
  <2>3. ASSUME NEW x \in 1..accepted, x \notin Have', NEW y \in Have' PROVE x < y
    <3>1. CASE x \in Have
      BY <1>12, <2>2, <2>3, <3>1
    <3>2. CASE x \notin Have
      BY <2>1, <2>3, <3>2 DEF OldestLost, Have
    <3> QED
      BY <3>1, <3>2
  <2> QED
    BY <2>3 DEF OldestLost, Have
<1> QED
  BY <1>7, <1>8, <1>11, <1>13

(* A sample goes from the work item into the open file. *)
LEMMA WriteCalm ==
  ASSUME FileInv, FilesSorted, QueueInv, OldestLost, WorkWrite, "error" \notin scenario
  PROVE  FileInv' /\ FilesSorted' /\ QueueInv' /\ OldestLost'
<1> UNCHANGED <<clock, accepted, his_msgq, dir, his_cur_name, his_fp_open>>
  BY DEF WorkWrite, At, sampleVars
<1>1. wpc = "write" /\ wpc' = "get" /\ cache' = cache \cup {hand} /\ hand' = None
  BY DEF WorkWrite, At
<1>2. Busy /\ ~Busy' /\ hand # None /\ his_fp_open /\ hand \in Nat
  BY <1>1 DEF Busy, QueueInv
<1>3. FileInv'
  <2>1. cache' \subseteq Nat \ {None}
    BY <1>1, <1>2 DEF FileInv
  <2> QED
    BY <1>2, <2>1 DEF FileInv
<1>4. \A x : x \in Stored(dir)' <=> x \in Stored(dir)
  BY DEF Stored
<1>5. FilesSorted'
  <2>1. \A f \in DOMAIN dir : \A x \in dir[f] : x < hand
    BY <1>2 DEF QueueInv, Stored
  <2> QED
    BY <1>1, <2>1 DEF FilesSorted
<1>6. QueueInv'
  <2>1. hand + Len(his_msgq) <= accepted
    BY <1>2 DEF QueueInv
  <2>2. \A x \in Stored(dir)' \cup cache' : x + Len(his_msgq) <= accepted
    BY <1>1, <1>4, <2>1 DEF QueueInv
  <2> QED
    BY <1>1, <1>2, <2>2 DEF QueueInv, None
<1>7. \A x : x \in Have' <=> x \in Have
  BY <1>1, <1>2, <1>4 DEF Have, Pending
<1>8. OldestLost'
  BY <1>7, SameSamples
<1> QED
  BY <1>3, <1>5, <1>6, <1>8

(* The open file takes its cache. *)
LEMMA FlushCalm ==
  ASSUME FileInv, FilesSorted, QueueInv, OldestLost,
         UNCHANGED <<clock, accepted, his_msgq, his_cur_name, hand>>, dir' = Flushed, cache' = {},
         (his_fp_open' = his_fp_open) \/ ~his_fp_open',
         ~Busy, ~Busy'
  PROVE  FileInv' /\ FilesSorted' /\ QueueInv' /\ OldestLost'
<1>1. /\ DOMAIN Flushed = DOMAIN dir
      /\ \A x : x \in Stored(Flushed) <=> x \in Stored(dir) \cup cache
      /\ \A f \in DOMAIN dir : Flushed[f] \subseteq Nat \ {None} /\ Flushed[f] \subseteq Stored(Flushed)
      /\ \A f \in DOMAIN dir : \A g \in DOMAIN dir :
           f < g => \A x \in Flushed[f] : \A y \in Flushed[g] : x < y
  BY FlushedFiles
<1>2. FileInv'
  BY <1>1 DEF FileInv
<1>3. FilesSorted'
  BY <1>1 DEF FilesSorted
<1>4. \A x : x \in Stored(dir)' <=> x \in Stored(dir) \cup cache
  BY <1>1
<1>5. QueueInv'
  <2>1. \A x \in Stored(dir)' \cup cache' : x + Len(his_msgq) <= accepted /\ (hand # None => x < hand)
    BY <1>4 DEF QueueInv
  <2>2. ~(wpc' \in {"rotate", "write"})
    BY DEF Busy
  <2> QED
    BY <2>1, <2>2 DEF QueueInv
<1>6. \A x : x \in Have' <=> x \in Have
  BY <1>4 DEF Have, Pending
<1> QED
  BY <1>2, <1>3, <1>5, <1>6, SameSamples

-----------------------------------------------------------------------------
(* Steps *)

LEMMA CalmStep ==
  ASSUME HisInv, [HisNext]_hisVars
  PROVE  HisInv'
<1>1. scenario' = scenario
  BY DEF HisNext, DiSample, AdcSample, Take, Put, HisWork, WorkStart, WorkGet, WorkReuse, OpenFound,
         OpenNew, OpenFails, WorkRotate, WorkWrite, WorkClose, WorkCheck, WorkFsync, At, HistorySync,
         SyncRequest, SyncSubmit, SyncFlush, SyncTest, Caller, EnableWrite, EnableSubmit, SetTimestamp,
         Delete, Restart, hisVars
<1> SUFFICES ASSUME Calm PROVE FileInv' /\ FilesSorted' /\ QueueInv' /\ OldestLost'
  BY <1>1 DEF HisInv, Calm, Only
<1>2. FileInv /\ FilesSorted /\ QueueInv /\ OldestLost
  BY DEF HisInv
<1>3. {"error", "delete", "restart", "settime"} \cap scenario = {}
  <2>1. scenario \subseteq {"disable"} \cup Sampler \cup Syncer
    BY DEF Calm, Only
  <2>2. Syncer \cap {"error", "delete", "restart", "settime"} = {}
    BY HistoryAssumption
  <2> QED
    BY <2>1, <2>2 DEF Sampler
<1> DEFINE Stand == /\ UNCHANGED <<clock, accepted, his_msgq, dir, fileVars, hand>>
                    /\ wpc' = wpc \/ {wpc, wpc'} \cap {"open", "rotate", "write"} = {}
<1>4. Stand => FileInv' /\ FilesSorted' /\ QueueInv' /\ OldestLost'
  BY <1>2, SamplesStand
<1>5. CASE \E s \in Sampler : Take(s)
  <2>1. UNCHANGED <<clock, accepted, his_msgq, dir, fileVars, hand, wpc>>
    BY <1>5 DEF Take, workVars
  <2> QED
    BY <1>4, <2>1
<1>6. CASE \E s \in Sampler : Put(s)
  BY <1>2, <1>6, PutCalm
<1>7. CASE WorkStart
  <2>1. UNCHANGED <<clock, accepted, his_msgq, dir, fileVars, hand>> /\ wpc = "idle" /\ wpc' = "get"
    BY <1>7 DEF WorkStart, At, sampleVars
  <2> QED
    BY <1>4, <2>1
<1>8. CASE WorkGet
  BY <1>2, <1>8, GetCalm
<1>9. CASE WorkReuse
  <2>1. UNCHANGED <<clock, accepted, his_msgq, dir, fileVars, hand>> /\ wpc = "open" /\ wpc' = "write" /\ his_fp_open
    BY <1>9 DEF WorkReuse, At, sampleVars
  <2>2. FileInv' /\ FilesSorted' /\ OldestLost'
    BY <1>2, <2>1 DEF FileInv, FilesSorted, OldestLost, Pending, Stored, fileVars
  <2>3. QueueInv'
    BY <1>2, <2>1 DEF QueueInv, Busy, Stored, fileVars
  <2> QED
    BY <2>2, <2>3
<1>10. CASE OpenFound
  BY <1>2, <1>10, OpenFoundCalm
<1>11. CASE OpenNew
  BY <1>2, <1>11, OpenNewCalm
<1>12. CASE OpenFails
  BY <1>3, <1>12 DEF OpenFails, Broken
<1>13. CASE WorkRotate
  BY <1>2, <1>13, RotateCalm
<1>14. CASE WorkWrite
  BY <1>2, <1>3, <1>14, WriteCalm
<1>15. CASE WorkClose
  <2>1. UNCHANGED <<clock, accepted, his_msgq, his_cur_name, his_cur_size, hand>> /\ wpc = "close" /\ wpc' = "check"
    BY <1>15 DEF WorkClose, At, sampleVars
  <2>2. ~Busy /\ ~Busy'
    BY <2>1 DEF Busy
  <2>3. CASE closing
    BY <1>2, <1>15, <2>1, <2>2, <2>3, FlushCalm DEF WorkClose
  <2>4. CASE ~closing
    <3>1. UNCHANGED <<dir, fileVars>>
      BY <1>15, <2>1, <2>4 DEF WorkClose, fileVars
    <3> QED
      BY <1>4, <2>1, <3>1
  <2> QED
    BY <2>3, <2>4
<1>16. CASE WorkCheck
  <2>1. UNCHANGED <<clock, accepted, his_msgq, dir, fileVars, hand>> /\ wpc = "check" /\ wpc' \in {"fsync", "idle"}
    BY <1>16 DEF WorkCheck, At, sampleVars
  <2> QED
    BY <1>4, <2>1
<1>17. CASE WorkFsync
  <2>1. UNCHANGED <<clock, accepted, his_msgq, his_cur_name, his_fp_open, hand>> /\ wpc = "fsync" /\ wpc' = "idle"
        /\ dir' = Flushed /\ cache' = {}
    BY <1>17 DEF WorkFsync, At, sampleVars
  <2>2. ~Busy /\ ~Busy'
    BY <2>1 DEF Busy
  <2> QED
    BY <1>2, <2>1, <2>2, FlushCalm
<1>18. CASE \E s \in Syncer : HistorySync(s)
  <2>1. UNCHANGED <<clock, accepted, his_msgq, dir, fileVars, hand, wpc>>
    BY <1>18 DEF HistorySync, SyncRequest, SyncSubmit, SyncFlush, SyncTest, Caller, sampleVars, workVars
  <2> QED
    BY <1>4, <2>1
<1>19. CASE EnableWrite \/ EnableSubmit
  <2>1. UNCHANGED <<clock, accepted, his_msgq, dir, fileVars, hand, wpc>>
    BY <1>19 DEF EnableWrite, EnableSubmit, sampleVars, workVars
  <2> QED
    BY <1>4, <2>1
<1>20. CASE SetTimestamp \/ Delete \/ Restart
  BY <1>3, <1>20 DEF SetTimestamp, Delete, Restart
<1>21. CASE UNCHANGED hisVars
  <2>1. UNCHANGED <<clock, accepted, his_msgq, dir, fileVars, hand, wpc>>
    BY <1>21 DEF hisVars, sampleVars, workVars
  <2> QED
    BY <1>4, <2>1
<1>22. (DiSample \/ AdcSample) => \E s \in Sampler : Take(s)
  BY DEF DiSample, AdcSample, Sampler
<1> QED
  BY <1>5, <1>6, <1>7, <1>8, <1>9, <1>10, <1>11, <1>12, <1>13, <1>14, <1>15, <1>16, <1>17, <1>18, <1>19,
     <1>20, <1>21, <1>22 DEF HisNext, HisWork

LEMMA CalmLoss == HisInv => LossIsOldest
BY DEF HisInv, Calm, LossIsOldest

(* In every behaviour in which nothing fails, the clock is not set back and  *)
(* no file is removed by hand, each sample that got into the queue of        *)
(* history.c is queued, cached or on flash, or it is older than all that     *)
(* are: no opening, flush or rotation loses one that is newer.               *)
THEOREM LossIsOldestCorrect == HisSpec => []LossIsOldest
<1>1. HisInit => HisInv
  BY InitCalm
<1>2. HisInv /\ [HisNext]_hisVars => HisInv'
  BY CalmStep
<1> QED
  BY <1>1, <1>2, CalmLoss, PTL DEF HisSpec

(* The same of canopen-io's copy of history.c. *)
THEOREM CoLossIsOldestCorrect == HisInit /\ [][CoHisNext]_hisVars => []LossIsOldest
<1>1. CoHisNext => HisNext
  BY DEF CoHisNext, HisNext, co_send_history_data, co_ensure_file, co_cleanup_old_files, co_his_flush,
         co_history_enable_write, co_history_sync, co_set_timestamp, co_hist_del, HisWork
<1>2. HisInit => HisInv
  BY InitCalm
<1>3. HisInv /\ [CoHisNext]_hisVars => HisInv'
  BY <1>1, CalmStep
<1> QED
  BY <1>2, <1>3, CalmLoss, PTL
=============================================================================
