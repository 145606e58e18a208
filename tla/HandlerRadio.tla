----------------------------- MODULE HandlerRadio -----------------------------
(***************************************************************************)
(* The threads of angle-handler that use the radio: rf24.c's senders, and  *)
(* gpio.c's link switch, sleep and wake-up.  The system work queue, Work,  *)
(* sends the state of the button and also switches links and wakes up; the *)
(* main thread, Main, connects at boot and goes to sleep; the other        *)
(* senders are the heartbeat and the ADC thread.  On the CAN link nothing  *)
(* of the radio is used.                                                   *)
(***************************************************************************)
EXTENDS Nrf24

CONSTANTS Work, Main, Retries   \* RF24_TX_RETRIES

ASSUME ThreadAssumption ==
  Work \in Sender /\ Main \notin Sender /\ Nobody \notin Sender /\ Retries \in Nat

Thread == Sender \cup {Main}

VARIABLES
  pc,
  attempt,       \* retries of the sender's frame
  connect_type,  \* "CAN", "RF24"
  sleeping,
  waking,
  linksw_work    \* the link key was pressed, its work has not run

sendPc == {"attempt", "wait", "done", "timeout"}
initPc == {"on", "configure", "listen"}

handlerVars == <<pc, attempt, connect_type, sleeping, waking, linksw_work>>
vars == <<radioVars, handlerVars>>

(* nrf24_send is between its two sections: rf24_tx_mutex is held. *)
InSend == {t \in Sender : pc[t] \in {"wait", "done", "timeout"}}

HandlerTypeOK ==
  /\ pc \in [Thread -> {"idle", "sleep", "off", "woken"} \cup sendPc \cup initPc]
  /\ attempt \in [Sender -> 0..Retries]
  /\ connect_type \in {"CAN", "RF24"}
  /\ sleeping \in BOOLEAN /\ waking \in BOOLEAN /\ linksw_work \in BOOLEAN

TypeOK == Nrf24TypeOK /\ HandlerTypeOK

(* connect_switch for the link chosen: rf24_deinit or rf24_init. *)
SwitchTo(type) == IF type = "CAN" THEN "off" ELSE "on"

(* The driver is initialised; main is in connect_switch with the link of   *)
(* the settings.                                                           *)
Init ==
  /\ Nrf24Init
  /\ connect_type \in {"CAN", "RF24"}
  /\ pc = [t \in Thread |-> IF t = Main THEN SwitchTo(connect_type) ELSE "idle"]
  /\ attempt = [t \in Sender |-> 0]
  /\ sleeping = FALSE /\ waking = FALSE /\ linksw_work = FALSE

Goto(t, l) == pc' = [pc EXCEPT ![t] = l]

-----------------------------------------------------------------------------
(* rf24_data_send *)
(* send_handler_state and the heartbeat: nothing is sent in sleep. *)
SendStart(t) ==
  /\ pc[t] = "idle"
  /\ ~sleeping
  /\ connect_type = "RF24"
  /\ Goto(t, "attempt")
  /\ UNCHANGED <<radioVars, attempt, connect_type, sleeping, waking, linksw_work>>

Attempt(t) ==
  /\ pc[t] = "attempt"
  /\ InSend = {}
  /\ SendBegin(t)
  /\ Goto(t, "wait")
  /\ UNCHANGED <<acked, attempt, connect_type, sleeping, waking, linksw_work>>

Woken(t) ==
  /\ pc[t] = "wait"
  /\ SendWoken
  /\ Goto(t, "done")
  /\ UNCHANGED <<attempt, connect_type, sleeping, waking, linksw_work>>

TimedOut(t) ==
  /\ pc[t] = "wait"
  /\ tx_done_sem = 0
  /\ Goto(t, "timeout")
  /\ UNCHANGED <<radioVars, attempt, connect_type, sleeping, waking, linksw_work>>

(* A failed attempt is repeated after a back-off, outside the mutex. *)
Finish(t) ==
  LET ret == SendResult(pc[t] = "timeout") IN
  /\ pc[t] \in {"done", "timeout"}
  /\ SendFinish(pc[t] = "timeout")
  /\ \/ /\ ret = "ok" \/ attempt[t] = Retries
        /\ Goto(t, "idle")
        /\ attempt' = [attempt EXCEPT ![t] = 0]
        /\ acked' = acked \ {t}
     \/ /\ ret # "ok" /\ attempt[t] < Retries
        /\ Goto(t, "attempt")
        /\ attempt' = [attempt EXCEPT ![t] = @ + 1]
        /\ UNCHANGED acked
  /\ UNCHANGED <<connect_type, sleeping, waking, linksw_work>>

-----------------------------------------------------------------------------
(* Power: each step is one call of the driver *)
RadioOff(t) ==
  /\ pc[t] = "off"
  /\ PowerOff
  /\ Goto(t, "idle")
  /\ UNCHANGED <<attempt, connect_type, sleeping, waking, linksw_work>>

(* rf24_init *)
RadioOn(t) ==
  /\ pc[t] = "on"
  /\ PowerOn
  /\ Goto(t, "configure")
  /\ UNCHANGED <<attempt, connect_type, sleeping, waking, linksw_work>>

RadioConfigure(t) ==
  /\ pc[t] = "configure"
  /\ Configure
  /\ Goto(t, "listen")
  /\ UNCHANGED <<attempt, connect_type, sleeping, waking, linksw_work>>

RadioListen(t) ==
  /\ pc[t] = "listen"
  /\ StartRx
  /\ Goto(t, IF t = Work /\ waking THEN "woken" ELSE "idle")
  /\ UNCHANGED <<attempt, connect_type, sleeping, waking, linksw_work>>

(* linksw_irq: the key is ignored in sleep; its work runs 20 ms later. *)
LinkKey ==
  /\ ~sleeping
  /\ linksw_work' = TRUE
  /\ UNCHANGED <<radioVars, pc, attempt, connect_type, sleeping, waking>>

(* linksw_work_handler *)
LinkSwitch ==
  /\ pc[Work] = "idle"
  /\ linksw_work
  /\ linksw_work' = FALSE
  /\ connect_type' = IF connect_type = "CAN" THEN "RF24" ELSE "CAN"
  /\ Goto(Work, SwitchTo(connect_type'))
  /\ UNCHANGED <<radioVars, attempt, sleeping, waking>>

(* system_sleep: the threads have 100 ms to stop, then the power goes. *)
Sleep ==
  /\ pc[Main] = "idle"
  /\ ~sleeping
  /\ sleeping' = TRUE
  /\ Goto(Main, "sleep")
  /\ UNCHANGED <<radioVars, attempt, connect_type, waking, linksw_work>>

SleepPower ==
  /\ pc[Main] = "sleep"
  /\ Goto(Main, IF connect_type = "RF24" THEN "off" ELSE "idle")
  /\ UNCHANGED <<radioVars, attempt, connect_type, sleeping, waking, linksw_work>>

(* sleep_work_handler and system_wake: the power key. *)
Wake ==
  /\ pc[Work] = "idle"
  /\ sleeping
  /\ waking' = TRUE
  /\ Goto(Work, IF connect_type = "RF24" THEN "on" ELSE "woken")
  /\ UNCHANGED <<radioVars, attempt, connect_type, sleeping, linksw_work>>

Awake ==
  /\ pc[Work] = "woken"
  /\ sleeping' = FALSE
  /\ waking' = FALSE
  /\ Goto(Work, "idle")
  /\ UNCHANGED <<radioVars, attempt, connect_type, linksw_work>>

-----------------------------------------------------------------------------
(* What a thread does once it has begun. *)
Sending(t) == Attempt(t) \/ Woken(t) \/ TimedOut(t) \/ Finish(t)
Powering(t) == RadioOff(t) \/ RadioOn(t) \/ RadioConfigure(t) \/ RadioListen(t)

Next ==
  \/ \E t \in Sender : SendStart(t) \/ Sending(t)
  \/ \E t \in Thread : Powering(t)
  \/ LinkKey \/ LinkSwitch \/ Sleep \/ SleepPower \/ Wake \/ Awake
  \/ IrqThread /\ UNCHANGED handlerVars
  \/ Radio /\ UNCHANGED handlerVars

Spec == Init /\ [][Next]_vars

(* The interrupt thread is cooperative, runs before every sender, and      *)
(* nobody keeps data->lock: a send waits without it.                       *)
FairSpec == Spec /\ WF_vars(IrqThread /\ UNCHANGED handlerVars)

-----------------------------------------------------------------------------
(* nrf24l01p.c:717: the result and the semaphore go through shared state   *)
(* that an earlier, late or repeated completion also sets; a send reported *)
(* as done is one whose frame the peer acknowledged.                       *)
SentMeansAcked ==
  \A t \in Sender : pc[t] = "done" /\ SendResult(FALSE) = "ok" => t \in acked

(* nrf24l01p.c:775: a frame whose send has returned, with whatever result, *)
(* is not in the chip any more and cannot be sent later.                   *)
NothingLeftToSend == tx_fifo # Nobody => tx_fifo \in InSend

(* nrf24l01p.c:787: however sends and changes of power and link interleave, *)
(* a powered radio that sends nothing listens.                             *)
ListensWhenIdle == powered /\ InSend = {} => prim = "PRX" /\ ce

(* nrf24l01p.c:331: the interrupt thread reads a payload only when the     *)
(* chip holds one; RX_DR never outlives the frame it stands for.           *)
NoPhantomFrame == irq_pc = "fetch" => powered /\ rx_fifo > 0

(* What the invariants above rest on.                                      *)
(* rf24_tx_mutex: one thread is in nrf24_send at a time. *)
OneSend == \A t, u \in InSend : t = u

(* What the flags, the semaphore and last_status say of a success is about *)
(* the frame of the thread that is in nrf24_send.                          *)
ResultIsOwn ==
  \A t \in InSend :
    \/ "TX_DS" \in flags
    \/ (tx_done_sem = 1 \/ pc[t] = "done") /\ "MAX_RT" \notin last_status
    => t \in acked /\ tx_fifo = Nobody

(* The driver knows that an idle radio is in PRX. *)
IdleInPrx == powered /\ InSend = {} => prim = "PRX" /\ ce /\ mode = "PRX"

(* RX_DR stands for a frame in the FIFO, except between its flush and the  *)
(* clearing of the flag.                                                   *)
RxFlagHonest == "RX_DR" \in flags => rx_fifo > 0 \/ irq_pc = "clear"

(* The inductive invariant of the proofs. *)
IndInv ==
  TypeOK /\ OneSend /\ NothingLeftToSend /\ ResultIsOwn /\ IdleInPrx /\ NoPhantomFrame /\ RxFlagHonest

(* nrf24l01p.c:302-312: a received frame is served while the radio is in   *)
(* use, also after the thread was blocked for want of power.               *)
RxServed == ("RX_DR" \in flags) ~> ("RX_DR" \notin flags)

(* nrf24l01p.c:330: the loop empties the FIFO frame by frame and loses     *)
(* none: what a turn takes out of it is the one frame it has read.         *)
RxLossless == [][irq_pc = "fetch" => rx_fifo' >= rx_fifo - 1]_vars
=============================================================================
