------------------------------- MODULE GwBox -------------------------------
(***************************************************************************)
(* The gateway n2e-gw beside its radio traffic: the parameters, which the  *)
(* UDP configuration port and the shell change, save and hand to the       *)
(* radio, the factory reset, the start in main.c, and the three LEDs.      *)
(* Flash is external: settings behind an FCB whose sectors are erased      *)
(* under it keep nothing until the next start.                             *)
(***************************************************************************)
EXTENDS Naturals, Sequences, FiniteSets, SequencesExt

CONSTANTS
  Addr,       \* RF24 addresses, as pairs: the copy of five bytes is not atomic
  Net,        \* values of one network parameter
  Orders,     \* bound: the commands, sequences of <<thread, command, value>>
  MaxStarts   \* bound: restarts

Setter == {"cfg", "shell"}     \* the library's RX thread, the shell
Field == {"ip_addr", "data_port", "host_ip", "host_port"}
DefaultAddr == <<0, 0>>
Defaults == [rf24_addr |-> DefaultAddr, net |-> [f \in Field |-> 0]]

Order == (Setter \X {"rf"} \X Addr) \cup (Setter \X {"ip", "port", "host", "reset"} \X (Net \cup {0}))

ASSUME GwAssumption ==
  /\ MaxStarts \in Nat /\ Net \subseteq Nat /\ Addr \subseteq Nat \X Nat
  /\ Orders \subseteq Seq(Order)

VARIABLES
  orders,      \* what is still to come
  gw_params, saved, chipAddr,
  fcbGone,     \* the settings partition was erased since the start
  job,         \* what each thread does: command, value, the step it is at
  ready,       \* nrf24 answers; chosen at each start
  started,     \* main has come to its loop
  starts,
  led_err, error_latched, err_selftest_work,
  led_rf24, blinking, led_blink_work,
  recent,      \* rf24_last_activity is less than 400 ms old
  blinker,     \* the work handler between its steps
  active       \* threads in gw_led_rf24_activity that saw no blinking

paramVars == <<orders, gw_params, saved, chipAddr, fcbGone, job, ready, started, starts>>
errVars == <<led_err, error_latched, err_selftest_work>>
blinkVars == <<led_rf24, blinking, led_blink_work, recent, blinker, active>>
gwVars == <<paramVars, errVars, blinkVars>>

NoJob == [op |-> "none", at |-> 0, value |-> 0]
LedsOff == led_rf24' = TRUE /\ blinking' = FALSE /\ led_blink_work' = FALSE /\ recent' = FALSE
           /\ blinker' = "idle" /\ active' = {}

GwInit ==
  /\ orders \in Orders
  /\ gw_params = Defaults /\ saved = Defaults /\ chipAddr = DefaultAddr /\ fcbGone = FALSE
  /\ job = [t \in Setter |-> NoJob] /\ ready \in BOOLEAN /\ started = FALSE /\ starts = 0
  /\ led_err = TRUE /\ error_latched = FALSE /\ err_selftest_work = TRUE     \* gw_led_init
  /\ led_rf24 = TRUE /\ blinking = FALSE /\ led_blink_work = FALSE
  /\ recent = FALSE /\ blinker = "idle" /\ active = {}

-----------------------------------------------------------------------------
(* main.c: load, LEDs, radio, network, loop *)

ErrorOn == error_latched' = TRUE /\ led_err' = TRUE /\ UNCHANGED err_selftest_work

(* gw_rf24_init, net_init.                                                 *)
MainStarts ==
  /\ ~started /\ started' = TRUE
  /\ IF ready THEN chipAddr' = gw_params.rf24_addr /\ UNCHANGED errVars
     ELSE ErrorOn /\ UNCHANGED chipAddr
  /\ UNCHANGED <<orders, gw_params, saved, fcbGone, job, ready, starts, blinkVars>>

Restarts ==
  /\ gw_params' = saved /\ chipAddr' = DefaultAddr /\ fcbGone' = FALSE
  /\ job' = [t \in Setter |-> NoJob] /\ ready' \in BOOLEAN /\ started' = FALSE
  /\ led_err' = TRUE /\ error_latched' = FALSE /\ err_selftest_work' = TRUE /\ LedsOff

PowerCycled ==
  /\ starts < MaxStarts /\ starts' = starts + 1
  /\ Restarts /\ UNCHANGED <<orders, saved>>

-----------------------------------------------------------------------------
(* app_cmd_handler; cmd_gw_ip, cmd_gw_port, cmd_gw_reset, cmd_rf24_addr    *)

Steps(t, op) ==
  CASE op = "rf" /\ t = "cfg" -> <<"copy1", "copy2", "saverf", "config">>
    [] op = "rf" /\ t = "shell" -> <<"copy1", "copy2", "config", "saverf">>
    [] op = "host" -> <<"host_ip", "host_port", "saveip_addr", "savedata_port", "savehost_ip", "savehost_port">>
    [] op \in {"ip", "port"} ->
         <<IF op = "ip" THEN "ip_addr" ELSE "data_port",
           "saveip_addr", "savedata_port", "savehost_ip", "savehost_port">>
    [] op = "reset" -> IF t = "cfg" THEN <<"erase", "reboot">> ELSE <<"erase">>

SaveOf(f) ==
  CASE f = "ip_addr" -> "saveip_addr" [] f = "data_port" -> "savedata_port"
    [] f = "host_ip" -> "savehost_ip" [] f = "host_port" -> "savehost_port"

Take ==
  /\ started /\ orders # <<>> /\ job[Head(orders)[1]] = NoJob
  /\ job' = [job EXCEPT ![Head(orders)[1]] = [op |-> Head(orders)[2], at |-> 1, value |-> Head(orders)[3]]]
  /\ orders' = Tail(orders)
  /\ UNCHANGED <<gw_params, saved, chipAddr, fcbGone, ready, started, starts, errVars, blinkVars>>

Advance(t) ==
  job' = IF job[t].at = Len(Steps(t, job[t].op)) THEN [job EXCEPT ![t] = NoJob]
         ELSE [job EXCEPT ![t].at = @ + 1]

Store(to) == saved' = IF fcbGone THEN saved ELSE to

(* A mutant: the value of the command is saved.                            *)
SaveAddrOf(t) == Store([saved EXCEPT !.rf24_addr = job[t].value])

(* persist_save_rf24_config: what is in RAM by now.                        *)
SaveAddr(t) == Store([saved EXCEPT !.rf24_addr = gw_params.rf24_addr])

(* One of the bytes of the address; one parameter of the network.          *)
Copied(i, v) == [gw_params EXCEPT !.rf24_addr[i] = v[i]]
WithNet(p, f, v) == [p EXCEPT !.net[f] = v]

Work(t) ==
  LET step == Steps(t, job[t].op)[job[t].at]
      v == job[t].value IN
  /\ job[t] # NoJob /\ step # "reboot"
  /\ Advance(t)
  /\ \/ step = "copy1" /\ gw_params' = Copied(1, v) /\ UNCHANGED <<saved, chipAddr, fcbGone>>
     \/ step = "copy2" /\ gw_params' = Copied(2, v) /\ UNCHANGED <<saved, chipAddr, fcbGone>>
     \/ step \in Field /\ gw_params' = WithNet(gw_params, step, v) /\ UNCHANGED <<saved, chipAddr, fcbGone>>
     \/ step = "saverf" /\ SaveAddr(t) /\ UNCHANGED <<gw_params, chipAddr, fcbGone>>
     \/ step = "config" /\ chipAddr' = (IF ready THEN gw_params.rf24_addr ELSE chipAddr)
        /\ UNCHANGED <<gw_params, saved, fcbGone>>
     \/ step = "erase" /\ saved' = Defaults /\ fcbGone' = TRUE /\ UNCHANGED <<gw_params, chipAddr>>
     \/ \E f \in Field : /\ step = SaveOf(f)
                         /\ Store(WithNet(saved, f, gw_params.net[f]))
                         /\ UNCHANGED <<gw_params, chipAddr, fcbGone>>
  /\ UNCHANGED <<orders, ready, started, starts, errVars, blinkVars>>

(* UDP_CMD_FACTORY_RESET restarts 100 ms after the erase.                  *)
ResetReboots ==
  /\ job["cfg"].op = "reset" /\ job["cfg"].at = 2
  /\ Restarts /\ UNCHANGED <<orders, saved, starts>>

-----------------------------------------------------------------------------
(* led.c *)

SelfTestEnds ==
  /\ err_selftest_work /\ err_selftest_work' = FALSE /\ led_err' = FALSE
  /\ UNCHANGED <<error_latched, paramVars, blinkVars>>

(* k_sys_fatal_error_handler: a thread faults, the others go on.           *)
Fault == started /\ ~error_latched /\ ErrorOn /\ UNCHANGED <<paramVars, blinkVars>>

Activity(t) ==
  /\ started /\ t \notin active
  /\ recent' = TRUE /\ active' = IF blinking THEN active ELSE active \cup {t}
  /\ UNCHANGED <<led_rf24, blinking, led_blink_work, blinker, paramVars, errVars>>

BlinkStarts(t) ==
  /\ t \in active /\ active' = active \ {t}
  /\ blinking' = TRUE /\ led_rf24' = FALSE /\ led_blink_work' = TRUE
  /\ UNCHANGED <<recent, blinker, paramVars, errVars>>

(* 400 ms without a frame.                                                 *)
FallsSilent ==
  /\ recent /\ recent' = FALSE
  /\ UNCHANGED <<led_rf24, blinking, led_blink_work, blinker, active, paramVars, errVars>>

(* A mutant: the end of the blinking is noted, the LED left as it is.      *)
BlinkTurnDark ==
  /\ led_blink_work /\ blinker = "idle"
  /\ IF recent THEN led_rf24' = ~led_rf24 /\ UNCHANGED <<led_blink_work, blinker>>
     ELSE led_blink_work' = FALSE /\ blinker' = "ending" /\ UNCHANGED led_rf24
  /\ UNCHANGED <<blinking, recent, active, paramVars, errVars>>

(* led_blink_work_handler.                                                 *)
BlinkTurn ==
  /\ led_blink_work /\ blinker = "idle"
  /\ IF recent THEN led_rf24' = ~led_rf24 /\ UNCHANGED <<led_blink_work, blinker>>
     ELSE led_blink_work' = FALSE /\ blinker' = "ending" /\ led_rf24' = TRUE
  /\ UNCHANGED <<blinking, recent, active, paramVars, errVars>>

BlinkEnds ==
  /\ blinker = "ending" /\ blinker' = "idle" /\ blinking' = FALSE
  /\ UNCHANGED <<led_rf24, led_blink_work, recent, active, paramVars, errVars>>

GwNext ==
  \/ MainStarts \/ PowerCycled \/ Take \/ \E t \in Setter : Work(t)
  \/ ResetReboots \/ SelfTestEnds \/ Fault
  \/ \E t \in {"rx", "tx"} : Activity(t) \/ BlinkStarts(t)
  \/ FallsSilent \/ BlinkTurn \/ BlinkEnds

(* The system work queue runs, and a thread leaves gw_led_rf24_activity.   *)
GwFairness == WF_gwVars(BlinkTurn \/ BlinkEnds) /\ WF_gwVars(\E t \in {"rx", "tx"} : BlinkStarts(t))
GwSpec == GwInit /\ [][GwNext]_gwVars /\ GwFairness

-----------------------------------------------------------------------------
(* Properties *)

(* persist.c, rf24.c: when both threads are done, RAM, flash and the radio *)
(* have the same address, and flash the network parameters in RAM, however *)
(* the commands of the two interleave, each saving all it finds.           *)
ParamsAgree ==
  started /\ ~fcbGone /\ (\A t \in Setter : job[t] = NoJob) =>
    saved = gw_params /\ (ready => chipAddr = gw_params.rf24_addr)

(* led.c:32: when the traffic stops, the LED is on and stays on, whichever *)
(* of the threads and the handler saw `blinking` first.                    *)
LedSettles == <>[](~recent /\ active = {}) => <>[]led_rf24

(* led.c:40: a latched error is shown.                                     *)
ErrorStays == error_latched => led_err
=============================================================================
