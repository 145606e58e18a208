----------------------------- MODULE IoRegisters -----------------------------
(***************************************************************************)
(* The holding registers of io-edge-hub, the outputs that follow register  *)
(* 0 and the address that is persisted: function.c, dio.c, udp.c, the link *)
(* events of main.c, and the commands of web and shell that write them.    *)
(*                                                                         *)
(* Modbus requests (system work queue) and link events (net_mgmt) run on   *)
(* cooperative threads: their stores to registers and pins are one step,   *)
(* once reg_lock is free where they take it.  The UDP, WebSocket and shell *)
(* threads are preemptible; their commands are cut at every store.         *)
(***************************************************************************)
EXTENDS Naturals

CONSTANTS
  Bit,            \* the outputs, DO_NUM
  Address,        \* addresses the clients set, <<first octet, last octet>>
  DefaultIp,      \* the initialiser of holding_reg
  BadOctet,       \* an octet ip_addr_valid refuses in both places
  Installation,   \* the sets of <<thread, command>> that are in use
  NoThread

(* What each thread can be asked for: a bit of DO, all of it or any other  *)
(* register, the address, to save, the factory settings.  The web server's *)
(* thread does what the WebSocket threads do, "ws" stands for one of them. *)
app_cmd_handler == {"ip", "reset"}
web_cmd_exec == {"bit", "whole", "ip"}
ws_handle_cmd == web_cmd_exec \cup {"save", "reset"}
shell_commands == {"bit", "whole", "ip", "save", "reset"}
modbus_user_callbacks == {"bit", "whole", "ip", "save"}

Asked == ({"udp"} \X app_cmd_handler) \cup ({"ws"} \X ws_handle_cmd)
           \cup ({"shell"} \X shell_commands) \cup ({"modbus"} \X modbus_user_callbacks)
Preemptible == {"udp", "ws", "shell"}
Erased == <<>>
Idle == [at |-> "idle"]

ASSUME IoAssumption ==
  /\ Bit \subseteq Nat
  /\ Address \subseteq [1..2 -> Nat] /\ DefaultIp \in Address
  /\ \A a \in Address : BadOctet \notin {a[1], a[2]}
  /\ Installation \subseteq SUBSET Asked
  /\ NoThread \notin Preemptible

VARIABLES
  may,      \* the installation; never changes
  do,       \* holding_reg[HOLDING_DO_IDX]
  pins,     \* the DO outputs that are on
  ip,       \* holding_reg[HOLDING_IP_OCTET1_IDX..]
  stored,   \* modbus/ip in the settings partition, or Erased
  reg_lock,
  job,      \* the command a preemptible thread executes
  reboot,   \* reboot_pending, or udp.c's sys_reboot under way
  cleared   \* history: the link went down, no write of DO has begun since

ioVars == <<may, do, pins, ip, stored, reg_lock, job, reboot, cleared>>

Octets == {BadOctet} \cup UNION {{a[1], a[2]} : a \in Address}
Valid(a) == BadOctet \notin {a[1], a[2]}
AtBoot(s) == IF s = Erased THEN DefaultIp ELSE s
WithBit(s, b, on) == IF on THEN s \cup {b} ELSE s \ {b}

Job ==
  {Idle}
    \cup [at : {"drive"}, do : SUBSET Bit, todo : SUBSET Bit, locked : BOOLEAN]
    \cup [at : {"octets"}, ip : Address, next : 1..2]
    \cup [at : {"save", "export"}]

IoTypeOK ==
  /\ may \in Installation
  /\ do \subseteq Bit /\ pins \subseteq Bit
  /\ ip \in [1..2 -> Octets]
  /\ stored = Erased \/ (stored \in [1..2 -> Octets] /\ Valid(stored))
  /\ reg_lock \in Preemptible \cup {NoThread}
  /\ job \in [Preemptible -> Job]
  /\ reboot \in BOOLEAN /\ cleared \in BOOLEAN

IoInit ==
  /\ may \in Installation
  /\ do = {} /\ pins = {} /\ ip = DefaultIp /\ stored = Erased
  /\ reg_lock = NoThread
  /\ job = [t \in Preemptible |-> Idle]
  /\ reboot = FALSE /\ cleared = TRUE

Begin(t, command) == job[t] = Idle /\ <<t, command>> \in may
Goto(t, j) == job' = [job EXCEPT ![t] = j]
Free == reg_lock = NoThread

-----------------------------------------------------------------------------
(* DO: io_write_do_bit, io_write_holding, mb_set_do *)

(* Mutant: a bit is written as io_write_holding writes a register. *)
WriteBitUnlocked(t) == \E b \in Bit, on \in BOOLEAN :
  /\ Begin(t, "bit")
  /\ Goto(t, [at |-> "drive", do |-> WithBit(do, b, on), todo |-> Bit, locked |-> TRUE])
  /\ cleared' = FALSE
  /\ UNCHANGED <<may, do, pins, ip, stored, reg_lock, reboot>>

(* WebSocket "do", shell io do set: reg_lock is held until the register is *)
(* stored, after the pins.                                                 *)
WriteBit(t) == \E b \in Bit, on \in BOOLEAN :
  /\ Begin(t, "bit") /\ Free
  /\ reg_lock' = t
  /\ Goto(t, [at |-> "drive", do |-> WithBit(do, b, on), todo |-> Bit, locked |-> TRUE])
  /\ cleared' = FALSE
  /\ UNCHANGED <<may, do, pins, ip, stored, reboot>>

(* WebSocket "reg", shell io reg: the register first, without the lock, *)
(* and nothing if it has the value already.                             *)
WriteWhole(t) == \E s \in SUBSET Bit :
  /\ Begin(t, "whole") /\ s # do
  /\ do' = s
  /\ Goto(t, [at |-> "drive", do |-> s, todo |-> Bit, locked |-> FALSE])
  /\ cleared' = FALSE
  /\ UNCHANGED <<may, pins, ip, stored, reg_lock, reboot>>

(* mb_set_do, one output after the other. *)
DrivePin(t) ==
  /\ job[t].at = "drive"
  /\ \E b \in job[t].todo :
       /\ \A c \in job[t].todo : b <= c
       /\ pins' = WithBit(pins, b, b \in job[t].do)
       /\ Goto(t, [job[t] EXCEPT !.todo = @ \ {b}])
  /\ UNCHANGED <<may, do, ip, stored, reg_lock, reboot, cleared>>

Driven(t) ==
  /\ job[t].at = "drive" /\ job[t].todo = {}
  /\ IF job[t].locked THEN do' = job[t].do /\ reg_lock' = NoThread
                      ELSE UNCHANGED <<do, reg_lock>>
  /\ Goto(t, Idle)
  /\ UNCHANGED <<may, pins, ip, stored, reboot, cleared>>

(* coil_wr_cb and holding_reg_wr_cb for register 0. *)
ModbusDo ==
  /\ \/ /\ <<"modbus", "bit">> \in may /\ Free
        /\ \E b \in Bit, on \in BOOLEAN : do' = WithBit(do, b, on)
     \/ /\ <<"modbus", "whole">> \in may
        /\ \E s \in SUBSET Bit : s # do /\ do' = s
  /\ pins' = do'
  /\ cleared' = FALSE
  /\ UNCHANGED <<may, ip, stored, reg_lock, job, reboot>>

(* NET_EVENT_IF_DOWN: register, then pins. *)
LinkDown ==
  /\ Free
  /\ do' = {} /\ pins' = {} /\ cleared' = TRUE
  /\ UNCHANGED <<may, ip, stored, reg_lock, job, reboot>>

-----------------------------------------------------------------------------
(* The address: four octets, written one by one, and the settings *)

(* UDP SET_IP, shell io ip, the web's cfg. *)
SetIp(t) == \E a \in Address :
  /\ Begin(t, "ip")
  /\ Goto(t, [at |-> "octets", ip |-> a, next |-> 1])
  /\ UNCHANGED <<may, do, pins, ip, stored, reg_lock, reboot, cleared>>

(* Mutant: the octets are saved before the last one is stored. *)
StoreOctetEarly(t) == LET i == job[t].next IN
  /\ job[t].at = "octets"
  /\ t = "udp" => Free
  /\ ip' = [ip EXCEPT ![i] = job[t].ip[i]]
  /\ Goto(t, IF i = 1 THEN [job[t] EXCEPT !.next = 2] ELSE Idle)
  /\ stored' = IF i = 1 /\ Valid(ip') THEN ip' ELSE stored
  /\ UNCHANGED <<may, do, pins, reg_lock, reboot, cleared>>

(* SET_IP stores each octet under the lock, the other two without; SET_IP *)
(* and io ip go on to save.                                               *)
StoreOctet(t) == LET i == job[t].next IN
  /\ job[t].at = "octets"
  /\ t = "udp" => Free
  /\ ip' = [ip EXCEPT ![i] = job[t].ip[i]]
  /\ Goto(t, IF i = 1 THEN [job[t] EXCEPT !.next = 2]
             ELSE IF t = "ws" THEN Idle ELSE [at |-> "save"])
  /\ UNCHANGED <<may, do, pins, stored, reg_lock, reboot, cleared>>

(* The save commands of web and shell. *)
Save(t) ==
  /\ Begin(t, "save")
  /\ Goto(t, [at |-> "save"])
  /\ UNCHANGED <<may, do, pins, ip, stored, reg_lock, reboot, cleared>>

(* holding_reg_save takes the lock, exports, and gives it back. *)
SaveLock(t) ==
  /\ job[t].at = "save" /\ Free
  /\ reg_lock' = t
  /\ Goto(t, [at |-> "export"])
  /\ UNCHANGED <<may, do, pins, ip, stored, reboot, cleared>>

(* mb_handle_export writes the octets as one value, if they are valid. *)
Exported == stored' = IF Valid(ip) THEN ip ELSE stored

SaveExport(t) ==
  /\ job[t].at = "export"
  /\ Exported
  /\ reg_lock' = NoThread
  /\ Goto(t, Idle)
  /\ UNCHANGED <<may, do, pins, ip, reboot, cleared>>

(* FC06 stores any value; FC16 of all octets is one step of the work queue; *)
(* CONFIG_SAVE exports without the lock.                                    *)
ModbusIp ==
  /\ \/ /\ <<"modbus", "ip">> \in may /\ UNCHANGED stored
        /\ \/ \E i \in 1..2, o \in Octets : ip' = [ip EXCEPT ![i] = o]
           \/ ip' \in Address
     \/ /\ <<"modbus", "save">> \in may
        /\ Exported /\ UNCHANGED ip
  /\ UNCHANGED <<may, do, pins, reg_lock, job, reboot, cleared>>

(* settings_factory_reset, with the restart it leads to. *)
FactoryReset(t) ==
  /\ Begin(t, "reset")
  /\ stored' = Erased
  /\ reboot' = TRUE
  /\ UNCHANGED <<may, do, pins, ip, reg_lock, job, cleared>>

(* HOLDING_REBOOT_IDX, /api/reboot. *)
RequestReboot ==
  /\ reboot' = TRUE
  /\ UNCHANGED <<may, do, pins, ip, stored, reg_lock, job, cleared>>

(* The outputs start inactive, the settings are loaded over the defaults. *)
Reboot ==
  /\ reboot
  /\ do' = {} /\ pins' = {} /\ ip' = AtBoot(stored)
  /\ reg_lock' = NoThread
  /\ job' = [t \in Preemptible |-> Idle]
  /\ reboot' = FALSE /\ cleared' = TRUE
  /\ UNCHANGED <<may, stored>>

IoThread(t) ==
  \/ WriteBit(t) \/ WriteWhole(t) \/ DrivePin(t) \/ Driven(t)
  \/ SetIp(t) \/ StoreOctet(t) \/ Save(t) \/ SaveLock(t) \/ SaveExport(t)
  \/ FactoryReset(t)

IoNext ==
  \/ \E t \in Preemptible : IoThread(t)
  \/ ModbusDo \/ LinkDown \/ ModbusIp \/ RequestReboot \/ Reboot

IoSpec == IoInit /\ [][IoNext]_ioVars

-----------------------------------------------------------------------------
(* Properties *)

(* No two kinds of writer of DO meet: single bits only, or Modbus alone. *)
LockedWrites ==
  \/ \A c \in may : c[2] # "whole"
  \/ \A c \in may : c[2] \in {"bit", "whole"} => c[1] = "modbus"

(* Whenever nobody holds reg_lock, each output is what register 0 says,    *)
(* although pins and register change in separate steps of several threads. *)
OutputsFollow == (LockedWrites /\ Free) => pins = do

(* After a lost link the outputs stay off until a write begins (main.c:86): *)
(* no write that was under way turns one on again.                          *)
DownMeansOff == (LockedWrites /\ cleared) => (pins = {} /\ do = {})

(* The two together: what the register says is what the pins do.            *)
RegistersAgree == OutputsFollow /\ DownMeansOff

(* A step changes one bit of register 0 at most, clears it, or is a write of *)
(* the whole register: a bit write never takes back another one (the lost    *)
(* update of function.c:26).                                                 *)
NoLostBit ==
  [][LockedWrites =>
       \/ do' = {}
       \/ \E b \in Bit, on \in BOOLEAN : do' = WithBit(do, b, on)
       \/ <<"modbus", "whole">> \in may]_ioVars

(* Where every client that changes the address also saves it, what a restart *)
(* would load is the address of the registers whenever no command is under   *)
(* way and the settings were not erased.                                     *)
AddressPersists ==
  (/\ \A c \in may : c[2] = "ip" => c[1] \in {"udp", "shell"}
   /\ \A t \in Preemptible : job[t] = Idle
   /\ stored # Erased)
    => ip = stored

(* function.c:29 wants reg_lock to keep a half-written address out of the   *)
(* settings; true only while the thread that sets addresses alone saves.    *)
PersistedWhole == stored \in Address \cup {Erased}
=============================================================================
