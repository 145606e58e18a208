----------------------------- MODULE CoRegisters -----------------------------
(***************************************************************************)
(* The outputs and the address of canopen-io.  Register 0 has a second     *)
(* copy here, object 0x2002 of the object dictionary, which the CANopen    *)
(* main loop writes for SDOs and RPDO1 and mb_set_do for everyone else     *)
(* (app_od.c, dio.c, function.c, udp.c, shell.c, main.c of canopen-io).    *)
(*                                                                         *)
(* A handler is the sequence of its stores.  A preemptible thread makes    *)
(* one at a time, the cooperative ones (Modbus on the work queue, network  *)
(* events) all at once, when reg_lock is free where they take it.          *)
(***************************************************************************)
EXTENDS IoRegisters, Sequences

CONSTANTS
  SpareBit,       \* a bit of the register above DO_NUM
  CoInstallation  \* the sets of <<thread, command>> that are in use

CoThread == {"main", "udp", "ws", "shell"}
co_Asked == ({"main"} \X {"do", "save", "reboot"}) \cup Asked

ASSUME CoAssumption ==
  /\ Bit # {} /\ SpareBit \in Nat \ Bit
  /\ CoInstallation \subseteq SUBSET co_Asked
  /\ NoThread \notin CoThread

VARIABLES
  coMay,      \* the installation; never changes
  io,         \* register 0 (do), 0x2002 (od), pins, address (ip), settings (stored), reg_lock
  todo,       \* what each preemptible thread still has to do
  coReboot,   \* reboot_pending, or a restart under way
  confirm,    \* a factory reset by UDP would be taken for its confirmation
  dark,       \* history: the link went down, no write of the outputs since
  overlap_do  \* history: a write of the outputs met another one

coVars == <<coMay, io, todo, coReboot, confirm, dark, overlap_do>>

Word == SUBSET (Bit \cup {SpareBit})
CoBoot(settings) ==
  [do |-> {}, od |-> {}, pins |-> {}, ip |-> AtBoot(settings), stored |-> settings, reg_lock |-> NoThread]

(* The 5 s of the confirmation are measured from 0: in the first 5 s after *)
(* a start one command is enough.                                          *)
CoInit ==
  /\ coMay \in CoInstallation
  /\ io = CoBoot(Erased) /\ todo = [t \in CoThread |-> <<>>]
  /\ coReboot = FALSE /\ confirm = TRUE /\ dark = TRUE /\ overlap_do = FALSE

-----------------------------------------------------------------------------
(* Stores *)

(* Register 0 and the object; the outputs, "left" those still to be set; an *)
(* octet; reg_lock and mb_handle_export.                                    *)
CoStore ==
  [op : {"do", "od"}, v : Word, waits : BOOLEAN] \cup [op : {"pins"}, v : Word, left : SUBSET Bit, waits : {FALSE}]
    \cup [op : {"octet"}, n : 1..2, o : Octets, waits : BOOLEAN]
    \cup [op : {"lock"}, waits : {TRUE}] \cup [op : {"export", "give"}, waits : {FALSE}]

Put(field, v) == [op |-> field, v |-> v, waits |-> FALSE]
PutLocked(field, v) == [op |-> field, v |-> v, waits |-> TRUE]
Pins(v) == [op |-> "pins", v |-> v, left |-> Bit, waits |-> FALSE]
Octet(n, o, waits) == [op |-> "octet", n |-> n, o |-> o, waits |-> waits]
TakeLock == [op |-> "lock", waits |-> TRUE]
GiveLock == [op |-> "give", waits |-> FALSE]
Export == [op |-> "export", waits |-> FALSE]

(* mb_handle_export writes the address if it is valid. *)
Export_ip(s) == [s EXCEPT !.stored = IF Valid(s.ip) THEN s.ip ELSE @]

Effect(s, t, x) ==
  CASE x.op = "do" -> [s EXCEPT !.do = x.v]
    [] x.op = "od" -> [s EXCEPT !.od = x.v]
    [] x.op = "octet" -> [s EXCEPT !.ip[x.n] = x.o]
    [] x.op = "lock" -> [s EXCEPT !.reg_lock = t]
    [] x.op = "give" -> [s EXCEPT !.reg_lock = NoThread]
    [] x.op = "export" -> Export_ip(s)

OnOutputs(x) == x.op \in {"do", "od", "pins"}
OutputsBusy == \E t \in CoThread : \E n \in DOMAIN todo[t] : OnOutputs(todo[t][n])
LockFree == io.reg_lock = NoThread

CoTypeOK ==
  /\ coMay \in CoInstallation
  /\ io \in [do : Word, od : Word, pins : SUBSET Bit, ip : [1..2 -> Octets],
             stored : [1..2 -> Octets] \cup {Erased}, reg_lock : CoThread \cup {NoThread}]
  /\ todo \in [CoThread -> Seq(CoStore)]
  /\ {coReboot, confirm, dark, overlap_do} \subseteq BOOLEAN

-----------------------------------------------------------------------------
(* Handlers *)

mb_set_do(v) == <<Put("od", v), Pins(v)>>

(* Mutant: an SDO does not reach the register. *)
co_io_set_do_only(v) == mb_set_do(v)

co_io_set_do(v) == <<PutLocked("do", v)>> \o mb_set_do(v)

(* The object first, then what follows from it. *)
do_write(v) == <<Put("od", v)>> \o co_io_set_do(v)

(* The register keeps the bits that no output has. *)
io_write_holding(v) == IF v = io.do THEN <<>> ELSE <<Put("do", v)>> \o mb_set_do(v \cap Bit)

(* Under the lock, taken when the register is read. *)
io_write_do_bit(b, on) == LET v == WithBit(io.do, b, on) \cap Bit IN
  <<Put("do", v)>> \o mb_set_do(v) \o <<GiveLock>>

holding_reg_save == <<TakeLock, Export, GiveLock>>

cmd_ip(a) == <<Octet(1, a[1], FALSE), Octet(2, a[2], FALSE)>> \o holding_reg_save
SET_IP(a) == <<Octet(1, a[1], TRUE), Octet(2, a[2], TRUE)>> \o holding_reg_save
co_cfg_ip(a) == <<Octet(1, a[1], FALSE), Octet(2, a[2], FALSE)>>

Use(t, command) == todo[t] = <<>> /\ <<t, command>> \in coMay
Begins(t, stores) ==
  /\ todo' = [todo EXCEPT ![t] = stores]
  /\ IF \E n \in DOMAIN stores : OnOutputs(stores[n])
     THEN dark' = FALSE /\ overlap_do' = (overlap_do \/ OutputsBusy)
     ELSE UNCHANGED <<dark, overlap_do>>
  /\ UNCHANGED <<coMay, coReboot, confirm>>
Starts(t, stores) == Begins(t, stores) /\ UNCHANGED io

(* SDO and RPDO1, in canopennode_process of the main loop. *)
SdoDo == Use("main", "do") /\ \E v \in Word : Starts("main", do_write(v))

(* 0x2004:5, refused while a firmware is being downloaded. *)
SdoSave == Use("main", "save") /\ Starts("main", holding_reg_save)

WebDo(t) ==
  /\ Use(t, "bit") /\ LockFree /\ io' = [io EXCEPT !.reg_lock = t]
  /\ \E b \in Bit, on \in BOOLEAN : Begins(t, io_write_do_bit(b, on))
WebReg(t) == Use(t, "whole") /\ \E v \in Word : Starts(t, io_write_holding(v))
WebCfg == Use("ws", "ip") /\ \E a \in Address : Starts("ws", co_cfg_ip(a))
ShellIp == Use("shell", "ip") /\ \E a \in Address : Starts("shell", cmd_ip(a))
UdpIp == Use("udp", "ip") /\ \E a \in Address : Starts("udp", SET_IP(a))
WebOrShellSave(t) == Use(t, "save") /\ Starts(t, holding_reg_save)

(* The outputs are set one after the other. *)
Stores(t) == LET x == Head(todo[t]) IN
  /\ todo[t] # <<>> /\ (x.waits => LockFree)
  /\ IF x.op = "pins"
     THEN \E b \in x.left :
            /\ \A c \in x.left : b <= c
            /\ io' = [io EXCEPT !.pins = WithBit(@, b, b \in x.v)]
            /\ todo' = [todo EXCEPT ![t] = IF x.left = {b} THEN Tail(@)
                                          ELSE <<[x EXCEPT !.left = @ \ {b}]>> \o Tail(@)]
     ELSE io' = Effect(io, t, x) /\ todo' = [todo EXCEPT ![t] = Tail(@)]
  /\ UNCHANGED <<coMay, coReboot, confirm, dark, overlap_do>>

AtOnce(do_, v) ==
  /\ io' = [io EXCEPT !.do = do_, !.od = v, !.pins = v]
  /\ UNCHANGED <<coMay, todo, coReboot, confirm>>

(* coil_wr_cb, holding_reg_wr_cb for register 0. *)
CoModbusDo ==
  /\ \/ /\ <<"modbus", "bit">> \in coMay /\ LockFree
        /\ \E b \in Bit, on \in BOOLEAN : LET v == WithBit(io.do, b, on) \cap Bit IN AtOnce(v, v)
     \/ /\ <<"modbus", "whole">> \in coMay
        /\ \E v \in Word : v # io.do /\ AtOnce(v, v \cap Bit)
  /\ dark' = FALSE /\ overlap_do' = (overlap_do \/ OutputsBusy)

CoModbusSave ==
  /\ <<"modbus", "save">> \in coMay
  /\ io' = Export_ip(io)
  /\ UNCHANGED <<coMay, todo, coReboot, confirm, dark, overlap_do>>

(* NET_EVENT_IF_DOWN *)
CoLinkDown ==
  /\ LockFree /\ AtOnce({}, {})
  /\ dark' = TRUE /\ overlap_do' = OutputsBusy

(* settings_factory_reset and the restart after it; by UDP it takes two    *)
(* commands within 5 s.                                                    *)
CoFactoryReset(t) ==
  /\ Use(t, "reset")
  /\ IF t = "udp" /\ ~confirm THEN confirm' = TRUE /\ UNCHANGED <<io, coReboot>>
     ELSE io' = [io EXCEPT !.stored = Erased] /\ coReboot' = TRUE /\ UNCHANGED confirm
  /\ UNCHANGED <<coMay, todo, dark, overlap_do>>

FiveSeconds ==
  /\ confirm' = FALSE
  /\ UNCHANGED <<coMay, io, todo, coReboot, dark, overlap_do>>

(* 0x2004:6, HOLDING_REBOOT_IDX, /api/reboot, the shell. *)
CoRequestReboot ==
  /\ <<"main", "reboot">> \in coMay /\ coReboot' = TRUE
  /\ UNCHANGED <<coMay, io, todo, confirm, dark, overlap_do>>

(* The housekeeping thread, and settings_load_subtree at the start. *)
CoReboots ==
  /\ coReboot /\ coReboot' = FALSE /\ confirm' = TRUE
  /\ io' = CoBoot(io.stored) /\ todo' = [t \in CoThread |-> <<>>]
  /\ dark' = TRUE /\ overlap_do' = FALSE
  /\ UNCHANGED coMay

CoNext ==
  \/ SdoDo \/ SdoSave \/ WebCfg \/ ShellIp \/ UdpIp
  \/ \E t \in {"ws", "shell"} : WebDo(t) \/ WebReg(t) \/ WebOrShellSave(t)
  \/ \E t \in CoThread : Stores(t) \/ CoFactoryReset(t)
  \/ CoModbusDo \/ CoModbusSave \/ CoLinkDown \/ FiveSeconds \/ CoRequestReboot \/ CoReboots

CoSpec == CoInit /\ [][CoNext]_coVars

-----------------------------------------------------------------------------
(* Properties *)

(* function.c:7: register 0, object 0x2002 and the outputs say the same    *)
(* once the writes of SDOs, RPDOs, Modbus, web, shell and the link are     *)
(* through, and a lost link leaves the outputs off; unless two writes met  *)
(* that reg_lock does not keep apart.  Writes of single bits, Modbus bits  *)
(* and the link never do.                                                  *)
CoOutputsAgree ==
  /\ ~overlap_do /\ ~OutputsBusy =>
       /\ io.pins = io.do \cap Bit /\ io.od \cap Bit = io.pins
       /\ dark => io.pins = {}
  /\ overlap_do => \E c \in coMay : c[2] \in {"whole", "do"}

(* function.c:7, without the exception.                                    *)
OdSynchronised == ~OutputsBusy => io.pins = io.do \cap Bit /\ io.od = io.do

(* Where every client that changes the address also saves it, what a       *)
(* restart would load is the address of the registers whenever no command  *)
(* is under way and the settings were not erased.                          *)
CoAddressPersists ==
  (/\ \A c \in coMay : c[2] = "ip" => c[1] \in {"udp", "shell"}
   /\ \A t \in CoThread : todo[t] = <<>>
   /\ io.stored # Erased)
    => io.ip = io.stored
=============================================================================
