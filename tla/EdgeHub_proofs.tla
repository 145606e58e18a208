--------------------------- MODULE EdgeHub_proofs ---------------------------
(***************************************************************************)
(* Proofs about IoRegisters and CoRegisters, for any number of outputs,    *)
(* any addresses and every installation, and about the two applications    *)
(* put together: every behaviour of MCEdgeHub is one of each part, so that *)
(* what is said here and in Servers_proofs of the parts holds of           *)
(* io-edge-hub and canopen-io.                                             *)
(***************************************************************************)
EXTENDS MCEdgeHub, Servers_proofs


-----------------------------------------------------------------------------
(* Types *)

LEMMA AddressTyped == \A a \in Address : a \in [1..2 -> Octets] /\ Valid(a)
<1> SUFFICES ASSUME NEW a \in Address PROVE a \in [1..2 -> Octets] /\ Valid(a)
  OBVIOUS
<1>1. a \in [1..2 -> Nat]
  BY IoAssumption
<1>2. a[1] \in Octets /\ a[2] \in Octets
  BY DEF Octets
<1>3. \A i \in 1..2 : i = 1 \/ i = 2
  OBVIOUS
<1> QED
  BY <1>1, <1>2, <1>3, IoAssumption DEF Valid

LEMMA BitTyped ==
  ASSUME NEW s \in SUBSET Bit, NEW b \in Bit, NEW on \in BOOLEAN
  PROVE  WithBit(s, b, on) \in SUBSET Bit
BY DEF WithBit

(* The outputs, step by step. *)
LEMMA DoTyped ==
  ASSUME IoTypeOK, NEW t \in Preemptible,
         WriteBit(t) \/ WriteWhole(t) \/ DrivePin(t) \/ Driven(t)
  PROVE  IoTypeOK'
<1> USE DEF IoTypeOK, Goto
<1>1. CASE WriteBit(t)
  <2>1. PICK b \in Bit, on \in BOOLEAN :
          Goto(t, [at |-> "drive", do |-> WithBit(do, b, on), todo |-> Bit, locked |-> TRUE])
    BY <1>1 DEF WriteBit
  <2>2. WithBit(do, b, on) \in SUBSET Bit
    BY BitTyped
  <2>3. job' \in [Preemptible -> Job]
    BY <2>1, <2>2 DEF Job
  <2> QED
    BY <1>1, <2>3 DEF WriteBit, Valid
<1>2. CASE WriteWhole(t)
  <2>1. PICK s \in SUBSET Bit :
          /\ do' = s
          /\ Goto(t, [at |-> "drive", do |-> s, todo |-> Bit, locked |-> FALSE])
    BY <1>2 DEF WriteWhole
  <2>2. job' \in [Preemptible -> Job]
    BY <2>1 DEF Job
  <2> QED
    BY <1>2, <2>1, <2>2 DEF WriteWhole, Valid
<1>3. CASE DrivePin(t)
  <2>1. /\ job[t] \in [at : {"drive"}, do : SUBSET Bit, todo : SUBSET Bit, locked : BOOLEAN]
        /\ UNCHANGED <<may, do, ip, stored, reg_lock, reboot, cleared>>
    BY <1>3 DEF DrivePin, Job, Idle
  <2>2. PICK b \in job[t].todo : /\ pins' = WithBit(pins, b, b \in job[t].do)
                                 /\ Goto(t, [job[t] EXCEPT !.todo = @ \ {b}])
    BY <1>3 DEF DrivePin
  <2>3. job' \in [Preemptible -> Job]
    BY <2>1, <2>2 DEF Job
  <2>4. pins' \subseteq Bit
    <3>1. pins \in SUBSET Bit /\ b \in Bit /\ (b \in job[t].do) \in BOOLEAN
      BY <2>1, <2>2
    <3> QED
      BY <2>2, <3>1 DEF WithBit
  <2> QED
    BY <2>1, <2>3, <2>4 DEF Valid
<1>4. CASE Driven(t)
  BY <1>4 DEF Driven, Job, Idle, Valid
<1> QED
  BY <1>1, <1>2, <1>3, <1>4

(* The address and the settings. *)
LEMMA IpTyped ==
  ASSUME IoTypeOK, NEW t \in Preemptible,
         SetIp(t) \/ StoreOctet(t) \/ Save(t) \/ SaveLock(t) \/ SaveExport(t) \/ FactoryReset(t)
  PROVE  IoTypeOK'
<1> USE DEF IoTypeOK, Goto
<1>1. CASE SetIp(t)
  BY <1>1 DEF SetIp, Job, Valid
<1>2. CASE StoreOctet(t)
  <2>1. job[t] \in [at : {"octets"}, ip : Address, next : 1..2]
    BY <1>2 DEF StoreOctet, Job, Idle
  <2>2. job[t].ip \in [1..2 -> Octets] /\ job[t].next \in 1..2
    BY <2>1, AddressTyped
  <2>3. ip' \in [1..2 -> Octets]
    BY <1>2, <2>2 DEF StoreOctet
  <2>4. job' \in [Preemptible -> Job]
    BY <1>2, <2>1 DEF StoreOctet, Job
  <2> QED
    BY <1>2, <2>3, <2>4 DEF StoreOctet, Valid
<1>3. CASE Save(t)
  BY <1>3 DEF Save, Job, Valid
<1>4. CASE SaveLock(t)
  BY <1>4 DEF SaveLock, Job, Valid
<1>5. CASE SaveExport(t)
  BY <1>5 DEF SaveExport, Exported, Job, Valid
<1>6. CASE FactoryReset(t)
  BY <1>6 DEF FactoryReset
<1> QED
  BY <1>1, <1>2, <1>3, <1>4, <1>5, <1>6

(* The cooperative threads and the restart. *)
LEMMA RestTyped ==
  ASSUME IoTypeOK, ModbusDo \/ LinkDown \/ ModbusIp \/ RequestReboot \/ Reboot
  PROVE  IoTypeOK'
<1> USE DEF IoTypeOK
<1>1. CASE ModbusDo
  BY <1>1, BitTyped DEF ModbusDo, Valid
<1>2. CASE LinkDown
  BY <1>2 DEF LinkDown, Valid
<1>3. CASE ModbusIp
  <2>1. ip' \in [1..2 -> Octets]
    BY <1>3, AddressTyped DEF ModbusIp
  <2>2. stored' = Erased \/ (stored' \in [1..2 -> Octets] /\ Valid(stored)')
    BY <1>3 DEF ModbusIp, Exported, Valid
  <2> QED
    BY <1>3, <2>1, <2>2 DEF ModbusIp
<1>4. CASE RequestReboot
  BY <1>4 DEF RequestReboot, Valid
<1>5. CASE Reboot
  <2>1. ip' \in [1..2 -> Octets]
    BY <1>5, IoAssumption, AddressTyped DEF Reboot, AtBoot
  <2> QED
    BY <1>5, <2>1 DEF Reboot, Job, Valid
<1> QED
  BY <1>1, <1>2, <1>3, <1>4, <1>5

LEMMA IoStepTyped == IoTypeOK /\ [IoNext]_ioVars => IoTypeOK'
<1> SUFFICES ASSUME IoTypeOK, [IoNext]_ioVars PROVE IoTypeOK'
  OBVIOUS
<1>1. CASE UNCHANGED ioVars
  BY <1>1 DEF ioVars, IoTypeOK, Valid
<1>2. ASSUME NEW t \in Preemptible, IoThread(t) PROVE IoTypeOK'
  BY <1>2, DoTyped, IpTyped DEF IoThread
<1>3. CASE ModbusDo \/ LinkDown \/ ModbusIp \/ RequestReboot \/ Reboot
  BY <1>3, RestTyped
<1> QED
  BY <1>1, <1>2, <1>3 DEF IoNext

LEMMA IoInitTyped == IoInit => IoTypeOK
BY IoAssumption, AddressTyped DEF IoInit, IoTypeOK, Job

(* Every variable keeps its type, and what the settings hold is never an   *)
(* address with an octet ip_addr_valid refuses.                             *)
THEOREM IoTypeCorrect == IoSpec => []IoTypeOK
<1> QED
  BY IoInitTyped, IoStepTyped, PTL DEF IoSpec

-----------------------------------------------------------------------------
(* The inductive invariant.  A write of one bit that is under way has the  *)
(* lock, is one bit away from the register, and has brought the outputs it *)
(* has passed to its own value; an export has the lock; and when no write  *)
(* is under way outputs and register agree.                                *)

Driving(t) == job[t].at = "drive"

DriveInv(t) ==
  Driving(t) =>
    /\ job[t].locked /\ reg_lock = t /\ ~cleared
    /\ \E b \in Bit, on \in BOOLEAN : job[t].do = WithBit(do, b, on)
    /\ pins = (do \cap job[t].todo) \cup (job[t].do \ job[t].todo)
    /\ \E c \in may : c[1] \in Preemptible /\ c[2] = "bit"

ExportInv(t) == job[t].at = "export" => reg_lock = t

IoInv ==
  LockedWrites =>
    /\ \A t \in Preemptible : DriveInv(t) /\ ExportInv(t)
    /\ (\A t \in Preemptible : ~Driving(t)) => pins = do
    /\ cleared => pins = {} /\ do = {}

LEMMA WithBitSame ==
  ASSUME NEW s \in SUBSET Bit
  PROVE  s = {} \/ \E b \in Bit, on \in BOOLEAN : s = WithBit(s, b, on)
<1> SUFFICES ASSUME NEW b \in Bit, b \in s PROVE s = WithBit(s, b, TRUE)
  OBVIOUS
<1> QED
  BY DEF WithBit

(* One thread writes a bit at a time, and where one may, nobody writes the *)
(* whole register.                                                         *)
LEMMA OneDriver ==
  ASSUME IoTypeOK, IoInv, LockedWrites
  PROVE  /\ \A t \in Preemptible : Driving(t) => reg_lock = t
         /\ Free => pins = do /\ \A t \in Preemptible : ~Driving(t) /\ job[t].at # "export"
         /\ \A c \in may : c[2] = "whole" =>
              c[1] = "modbus" /\ \A t \in Preemptible : ~Driving(t)
<1>1. "modbus" \notin Preemptible /\ NoThread \notin Preemptible
  BY IoAssumption DEF Preemptible
<1>2. \A t \in Preemptible : Driving(t) => reg_lock = t
  BY DEF IoInv, DriveInv
<1>3. Free => \A t \in Preemptible : ~Driving(t) /\ job[t].at # "export"
  BY <1>1, <1>2 DEF IoInv, ExportInv, Free
<1>4. Free => pins = do
  BY <1>3 DEF IoInv
<1>5. ASSUME NEW c \in may, c[2] = "whole"
      PROVE  c[1] = "modbus" /\ \A t \in Preemptible : ~Driving(t)
  <2>1. \A d \in may : d[2] \in {"bit", "whole"} => d[1] = "modbus"
    BY <1>5 DEF LockedWrites
  <2>2. ASSUME NEW t \in Preemptible, Driving(t) PROVE FALSE
    BY <1>1, <2>1, <2>2 DEF IoInv, DriveInv
  <2> QED
    BY <1>5, <2>1, <2>2
<1> QED
  BY <1>2, <1>3, <1>4, <1>5

LEMMA IoInvInit == IoInit => IoInv
BY DEF IoInit, IoInv, DriveInv, ExportInv, Driving, Idle

LEMMA WriteBitInv ==
  ASSUME IoTypeOK, IoInv, LockedWrites, NEW t \in Preemptible, WriteBit(t)
  PROVE  IoInv'
<1>1. PICK b \in Bit, on \in BOOLEAN :
        Goto(t, [at |-> "drive", do |-> WithBit(do, b, on), todo |-> Bit, locked |-> TRUE])
  BY DEF WriteBit
<1>2. /\ Free /\ reg_lock' = t /\ cleared' = FALSE
      /\ UNCHANGED <<may, do, pins>> /\ <<t, "bit">> \in may
  BY DEF WriteBit, Begin
<1>3. pins = do /\ \A u \in Preemptible : ~Driving(u) /\ job[u].at # "export"
  BY <1>2, OneDriver
<1>4. /\ job'[t] = [at |-> "drive", do |-> WithBit(do, b, on), todo |-> Bit, locked |-> TRUE]
      /\ \A u \in Preemptible : u # t => job'[u] = job[u]
  BY <1>1 DEF Goto, IoTypeOK
<1>5. do \subseteq Bit /\ WithBit(do, b, on) \subseteq Bit
  BY BitTyped DEF IoTypeOK
<1>6. DriveInv(t)'
  <2>1. \E c \in may' : c[1] \in Preemptible /\ c[2] = "bit"
    BY <1>2
  <2>2. pins' = (do' \cap job'[t].todo) \cup (job'[t].do \ job'[t].todo)
    BY <1>2, <1>3, <1>4, <1>5
  <2>3. job'[t].do = WithBit(do', b, on)
    BY <1>2, <1>4
  <2> QED
    BY <1>2, <1>4, <2>1, <2>2, <2>3 DEF DriveInv
<1>7. \A u \in Preemptible : u # t => DriveInv(u)' /\ ExportInv(u)'
  BY <1>3, <1>4 DEF DriveInv, ExportInv, Driving
<1>8. ExportInv(t)' /\ Driving(t)'
  BY <1>4 DEF ExportInv, Driving
<1> QED
  BY <1>2, <1>6, <1>7, <1>8 DEF IoInv

LEMMA DrivePinInv ==
  ASSUME IoTypeOK, IoInv, LockedWrites, NEW t \in Preemptible, DrivePin(t)
  PROVE  IoInv'
<1>1. /\ job[t] \in [at : {"drive"}, do : SUBSET Bit, todo : SUBSET Bit, locked : BOOLEAN]
      /\ UNCHANGED <<may, do, reg_lock, cleared>>
  BY DEF DrivePin, IoTypeOK, Job, Idle
<1>2. PICK b \in job[t].todo : /\ pins' = WithBit(pins, b, b \in job[t].do)
                               /\ Goto(t, [job[t] EXCEPT !.todo = @ \ {b}])
  BY DEF DrivePin
<1>3. /\ job'[t] = [job[t] EXCEPT !.todo = @ \ {b}]
      /\ \A u \in Preemptible : u # t => job'[u] = job[u]
  BY <1>2 DEF Goto, IoTypeOK
<1>4. /\ job'[t].at = "drive" /\ job'[t].do = job[t].do
      /\ job'[t].todo = job[t].todo \ {b} /\ job'[t].locked = job[t].locked
  BY <1>1, <1>3
<1>5. Driving(t) /\ DriveInv(t)
  BY <1>1 DEF Driving, IoInv
<1>6. \A u \in Preemptible : u # t => ~Driving(u) /\ job[u].at # "export"
  BY <1>5 DEF IoInv, DriveInv, ExportInv
<1>7. pins' = (do' \cap job'[t].todo) \cup (job'[t].do \ job'[t].todo)
  <2>1. pins = (do \cap job[t].todo) \cup (job[t].do \ job[t].todo)
    BY <1>5 DEF DriveInv
  <2>2. CASE b \in job[t].do
    BY <1>1, <1>2, <1>4, <2>1, <2>2 DEF WithBit
  <2>3. CASE b \notin job[t].do
    BY <1>1, <1>2, <1>4, <2>1, <2>3 DEF WithBit
  <2> QED
    BY <2>2, <2>3
<1>8. DriveInv(t)' /\ ExportInv(t)' /\ Driving(t)' /\ ~cleared'
  BY <1>1, <1>4, <1>5, <1>7 DEF DriveInv, ExportInv, Driving
<1>9. \A u \in Preemptible : u # t => DriveInv(u)' /\ ExportInv(u)'
  BY <1>3, <1>6 DEF DriveInv, ExportInv, Driving
<1> QED
  BY <1>8, <1>9 DEF IoInv

LEMMA DrivenInv ==
  ASSUME IoTypeOK, IoInv, LockedWrites, NEW t \in Preemptible, Driven(t)
  PROVE  /\ IoInv'
         /\ \E b \in Bit, on \in BOOLEAN : do' = WithBit(do, b, on)
<1>1. Driving(t) /\ DriveInv(t)
  BY DEF Driven, Driving, IoInv
<1>2. /\ job[t].locked /\ job[t].todo = {} /\ reg_lock = t /\ ~cleared /\ pins = job[t].do
      /\ \E b \in Bit, on \in BOOLEAN : job[t].do = WithBit(do, b, on)
  BY <1>1 DEF DriveInv, Driven
<1>3. do' = job[t].do /\ UNCHANGED <<may, pins, cleared>>
  BY <1>2 DEF Driven
<1>4. job'[t] = Idle /\ \A u \in Preemptible : u # t => job'[u] = job[u]
  BY DEF Driven, Goto, IoTypeOK
<1>5. \A u \in Preemptible : u # t => ~Driving(u) /\ job[u].at # "export"
  BY <1>2 DEF IoInv, DriveInv, ExportInv
<1>6. \A u \in Preemptible : ~Driving(u)' /\ job'[u].at # "export"
  BY <1>4, <1>5 DEF Driving, Idle
<1> QED
  BY <1>2, <1>3, <1>6 DEF IoInv, DriveInv, ExportInv

(* The commands that leave the outputs alone. *)
LEMMA IpInv ==
  ASSUME IoTypeOK, IoInv, LockedWrites, NEW t \in Preemptible,
         SetIp(t) \/ StoreOctet(t) \/ Save(t) \/ SaveLock(t) \/ SaveExport(t) \/ FactoryReset(t)
  PROVE  IoInv'
<1>1. UNCHANGED <<may, do, pins, cleared>>
  BY DEF SetIp, StoreOctet, Save, SaveLock, SaveExport, FactoryReset
<1>2. /\ ~Driving(t) /\ ~Driving(t)'
      /\ job'[t].at = "export" => reg_lock' = t \/ (job[t].at = "export" /\ UNCHANGED reg_lock)
  <2>1. CASE SetIp(t)
    BY <2>1 DEF SetIp, Begin, Goto, Idle, Driving, IoTypeOK
  <2>2. CASE StoreOctet(t)
    <3>1. job[t] \in [at : {"octets"}, ip : Address, next : 1..2]
      BY <2>2 DEF StoreOctet, IoTypeOK, Job, Idle
    <3>2. job'[t] \in {[job[t] EXCEPT !.next = 2], Idle, [at |-> "save"]}
      BY <2>2 DEF StoreOctet, Goto, IoTypeOK
    <3>3. job'[t].at \in {"octets", "idle", "save"}
      BY <3>1, <3>2 DEF Idle
    <3> QED
      BY <3>1, <3>3 DEF Driving
  <2>3. CASE Save(t)
    BY <2>3 DEF Save, Begin, Goto, Idle, Driving, IoTypeOK
  <2>4. CASE SaveLock(t)
    BY <2>4 DEF SaveLock, Goto, Driving, IoTypeOK
  <2>5. CASE SaveExport(t)
    BY <2>5 DEF SaveExport, Goto, Idle, Driving, IoTypeOK
  <2>6. CASE FactoryReset(t)
    BY <2>6 DEF FactoryReset, Begin, Idle, Driving
  <2> QED
    BY <2>1, <2>2, <2>3, <2>4, <2>5, <2>6
<1>3. \A u \in Preemptible : u # t => job'[u] = job[u]
  BY DEF SetIp, StoreOctet, Save, SaveLock, SaveExport, FactoryReset, Goto, IoTypeOK
<1>4. reg_lock' = reg_lock \/ \A u \in Preemptible : u # t => ~Driving(u) /\ job[u].at # "export"
  <2>1. CASE SaveLock(t)
    BY <2>1, OneDriver DEF SaveLock
  <2>2. CASE SaveExport(t)
    <3>1. reg_lock = t
      BY <2>2 DEF SaveExport, IoInv, ExportInv
    <3> QED
      BY <3>1 DEF IoInv, DriveInv, ExportInv
  <2> QED
    BY <2>1, <2>2 DEF SetIp, StoreOctet, Save, FactoryReset
<1>5. \A u \in Preemptible : DriveInv(u)' /\ ExportInv(u)'
  <2> TAKE u \in Preemptible
  <2>1. CASE u = t
    BY <1>2, <2>1 DEF DriveInv, ExportInv, IoInv
  <2>2. CASE u # t
    BY <1>1, <1>3, <1>4, <2>2 DEF DriveInv, ExportInv, Driving, IoInv
  <2> QED
    BY <2>1, <2>2
<1>6. (\A u \in Preemptible : ~Driving(u)') => \A u \in Preemptible : ~Driving(u)
  BY <1>2, <1>3 DEF Driving
<1> QED
  BY <1>1, <1>5, <1>6 DEF IoInv

LEMMA RestInv ==
  ASSUME IoTypeOK, IoInv, LockedWrites,
         ModbusDo \/ LinkDown \/ ModbusIp \/ RequestReboot \/ Reboot
  PROVE  IoInv'
<1>1. CASE ModbusDo
  <2>1. \A u \in Preemptible : ~Driving(u)
    BY <1>1, OneDriver DEF ModbusDo
  <2>2. pins' = do' /\ ~cleared' /\ UNCHANGED <<job, reg_lock>>
    BY <1>1 DEF ModbusDo
  <2> QED
    BY <2>1, <2>2 DEF IoInv, DriveInv, ExportInv, Driving
<1>2. CASE LinkDown
  <2>1. \A u \in Preemptible : ~Driving(u)
    BY <1>2, OneDriver DEF LinkDown
  <2> QED
    BY <1>2, <2>1 DEF LinkDown, IoInv, DriveInv, ExportInv, Driving
<1>3. CASE ModbusIp \/ RequestReboot
  <2>1. UNCHANGED <<may, do, pins, cleared, job, reg_lock>>
    BY <1>3 DEF ModbusIp, RequestReboot
  <2> QED
    BY <2>1 DEF IoInv, DriveInv, ExportInv, Driving
<1>4. CASE Reboot
  BY <1>4 DEF Reboot, IoInv, DriveInv, ExportInv, Driving, Idle
<1> QED
  BY <1>1, <1>2, <1>3, <1>4

LEMMA MayKept == [IoNext]_ioVars => UNCHANGED may
BY DEF IoNext, ioVars, IoThread, WriteBit, WriteWhole, DrivePin, Driven, SetIp, StoreOctet,
       Save, SaveLock, SaveExport, FactoryReset, ModbusDo, LinkDown, ModbusIp,
       RequestReboot, Reboot

LEMMA NoWholeWrite ==
  ASSUME IoTypeOK, IoInv, LockedWrites, NEW t \in Preemptible, WriteWhole(t)
  PROVE  FALSE
<1>1. <<t, "whole">> \in may
  BY DEF WriteWhole, Begin
<1>2. t = "modbus"
  BY <1>1, OneDriver
<1> QED
  BY <1>2 DEF Preemptible

LEMMA IoStepInv == IoTypeOK /\ IoInv /\ [IoNext]_ioVars => IoInv'
<1> SUFFICES ASSUME IoTypeOK, IoInv, [IoNext]_ioVars, LockedWrites' PROVE IoInv'
  BY DEF IoInv
<1>0. LockedWrites
  BY MayKept DEF LockedWrites
<1>1. CASE UNCHANGED ioVars
  BY <1>0, <1>1 DEF ioVars, IoInv, DriveInv, ExportInv, Driving
<1>2. ASSUME NEW t \in Preemptible, IoThread(t) PROVE IoInv'
  BY <1>0, <1>2, WriteBitInv, NoWholeWrite, DrivePinInv, DrivenInv, IpInv DEF IoThread
<1>3. CASE ModbusDo \/ LinkDown \/ ModbusIp \/ RequestReboot \/ Reboot
  BY <1>0, <1>3, RestInv
<1> QED
  BY <1>1, <1>2, <1>3 DEF IoNext

(* The invariant above holds in every reachable state of every installation *)
(* in which bits and whole registers are not written by different threads.  *)
THEOREM IoInvCorrect == IoSpec => [](IoTypeOK /\ IoInv)
<1>1. IoInit => IoTypeOK /\ IoInv
  BY IoInitTyped, IoInvInit
<1>2. IoTypeOK /\ IoInv /\ [IoNext]_ioVars => (IoTypeOK /\ IoInv)'
  BY IoStepTyped, IoStepInv
<1> QED
  BY <1>1, <1>2, PTL DEF IoSpec

(* The outputs are what register 0 says whenever reg_lock is free, and both *)
(* are off from a lost link to the next write (dio.c:44, main.c:86).        *)
THEOREM AgreeCorrect == IoSpec => []RegistersAgree
<1>1. IoTypeOK /\ IoInv => RegistersAgree
  BY OneDriver DEF RegistersAgree, OutputsFollow, DownMeansOff, IoInv
<1> QED
  BY <1>1, IoInvCorrect, PTL

(* A write of one bit changes one bit of register 0: reg_lock keeps every   *)
(* other write out from the read of the register to its store (function.c). *)
THEOREM LostBitCorrect == IoSpec => NoLostBit
<1> DEFINE Moves == LockedWrites =>
             \/ do' = {}
             \/ \E b \in Bit, on \in BOOLEAN : do' = WithBit(do, b, on)
             \/ <<"modbus", "whole">> \in may
<1>1. IoTypeOK /\ IoInv /\ [IoNext]_ioVars => Moves
  <2> SUFFICES ASSUME IoTypeOK, IoInv, [IoNext]_ioVars, LockedWrites PROVE Moves
    OBVIOUS
  <2>1. UNCHANGED do => Moves
    BY WithBitSame DEF IoTypeOK
  <2>2. ASSUME NEW t \in Preemptible, IoThread(t) PROVE Moves
    <3>1. CASE Driven(t)
      BY <3>1, DrivenInv
    <3>2. CASE ~Driven(t)
      BY <2>1, <2>2, <3>2, NoWholeWrite
         DEF IoThread, WriteBit, DrivePin, SetIp, StoreOctet, Save, SaveLock, SaveExport,
             FactoryReset
    <3> QED
      BY <3>1, <3>2
  <2>3. CASE ModbusDo
    BY <2>3 DEF ModbusDo
  <2>4. CASE LinkDown \/ ModbusIp \/ RequestReboot \/ Reboot
    BY <2>1, <2>4 DEF LinkDown, ModbusIp, RequestReboot, Reboot
  <2>5. CASE UNCHANGED ioVars
    BY <2>1, <2>5 DEF ioVars
  <2> QED
    BY <2>2, <2>3, <2>4, <2>5 DEF IoNext
<1> QED
  BY <1>1, IoInvCorrect, PTL DEF IoSpec, NoLostBit

-----------------------------------------------------------------------------
(* The address.  Where those that set it also save it, what the settings   *)
(* hold differs from the registers only as long as a thread has a save      *)
(* before it: while it stores octets, waits for the lock, or exports.       *)

SettersSave == \A c \in may : c[2] = "ip" => c[1] \in {"udp", "shell"}
WillSave(t) == job[t].at \in {"octets", "save", "export"}

AddressInv ==
  /\ \A t \in Preemptible : job[t].at = "octets" => <<t, "ip">> \in may
  /\ SettersSave =>
       /\ Valid(ip)
       /\ (stored # Erased /\ ip # stored) => \E t \in Preemptible : WillSave(t)

LEMMA AddressInit == IoInit => AddressInv
BY IoAssumption, AddressTyped DEF IoInit, AddressInv, Idle

(* Steps that leave the address alone and take no save back. *)
LEMMA AddressSame ==
  ASSUME AddressInv, NEW t \in Preemptible, UNCHANGED <<may, ip, stored>>,
         \A u \in Preemptible \ {t} : job'[u] = job[u],
         job'[t].at = "octets" => <<t, "ip">> \in may,
         WillSave(t) => WillSave(t)'
  PROVE  AddressInv'
<1>1. \A u \in Preemptible : job'[u].at = "octets" => <<u, "ip">> \in may
  BY DEF AddressInv
<1>2. \A u \in Preemptible : WillSave(u) => job'[u].at \in {"octets", "save", "export"}
  BY DEF WillSave
<1> QED
  BY <1>1, <1>2 DEF AddressInv, SettersSave, WillSave, Valid

LEMMA ThreadAddress ==
  ASSUME IoTypeOK, AddressInv, NEW t \in Preemptible, IoThread(t)
  PROVE  AddressInv'
<1>1. \A u \in Preemptible \ {t} : job'[u] = job[u]
  BY DEF IoTypeOK, IoThread, WriteBit, WriteWhole, DrivePin, Driven, SetIp, StoreOctet, Save,
         SaveLock, SaveExport, FactoryReset, Goto
<1>2. job[t] \in Job /\ may' = may
  BY DEF IoTypeOK, IoThread, WriteBit, WriteWhole, DrivePin, Driven, SetIp, StoreOctet, Save,
         SaveLock, SaveExport, FactoryReset
<1>3. CASE WriteBit(t) \/ WriteWhole(t) \/ SetIp(t) \/ Save(t)
  <2>1. UNCHANGED <<ip, stored>> /\ job[t] = Idle
    BY <1>3 DEF WriteBit, WriteWhole, SetIp, Save, Begin
  <2>2. ~WillSave(t)
    BY <2>1 DEF WillSave, Idle
  <2>3. job'[t].at = "octets" => <<t, "ip">> \in may
    BY <1>3 DEF WriteBit, WriteWhole, SetIp, Save, Begin, Goto, IoTypeOK
  <2> QED
    BY <1>1, <1>2, <2>1, <2>2, <2>3, AddressSame
<1>4. CASE DrivePin(t) \/ Driven(t)
  <2>1. UNCHANGED <<ip, stored>> /\ job[t].at = "drive"
    BY <1>4 DEF DrivePin, Driven
  <2>2. ~WillSave(t)
    BY <2>1 DEF WillSave
  <2>3. job'[t].at # "octets"
    <3>1. CASE DrivePin(t)
      BY <1>2, <3>1 DEF DrivePin, Goto, IoTypeOK, Job, Idle
    <3>2. CASE Driven(t)
      BY <3>2 DEF Driven, Goto, IoTypeOK, Idle
    <3> QED
      BY <1>4, <3>1, <3>2
  <2> QED
    BY <1>1, <1>2, <2>1, <2>2, <2>3, AddressSame
<1>5. CASE StoreOctet(t)
  <2>1. job[t] \in [at : {"octets"}, ip : Address, next : 1..2] /\ stored' = stored
    BY <1>2, <1>5 DEF StoreOctet, Job, Idle
  <2>2. PICK a \in Address, i \in 1..2 : ip' = [ip EXCEPT ![i] = a[i]]
    BY <1>5, <2>1 DEF StoreOctet
  <2>3. a[1] # BadOctet /\ a[2] # BadOctet
    BY AddressTyped DEF Valid
  <2>4. Valid(ip) => Valid(ip)'
    BY <2>2, <2>3 DEF Valid, IoTypeOK
  <2>5. <<t, "ip">> \in may
    BY <2>1 DEF AddressInv
  <2>6. SettersSave => WillSave(t)'
    <3>1. SettersSave => t # "ws"
      BY <2>5 DEF SettersSave
    <3>2. t # "ws" => job'[t].at \in {"octets", "save"}
      BY <1>5, <2>1 DEF StoreOctet, Goto, IoTypeOK
    <3> QED
      BY <3>1, <3>2 DEF WillSave
  <2>7. \A u \in Preemptible : job'[u].at = "octets" => <<u, "ip">> \in may
    BY <1>1, <2>5 DEF AddressInv
  <2> QED
    BY <1>2, <2>4, <2>6, <2>7 DEF AddressInv, SettersSave
<1>6. CASE SaveLock(t)
  <2>1. UNCHANGED <<ip, stored>> /\ job'[t].at = "export"
    BY <1>6 DEF SaveLock, Goto, IoTypeOK
  <2>2. WillSave(t)'
    BY <2>1 DEF WillSave
  <2> QED
    BY <1>1, <1>2, <2>1, <2>2, AddressSame
<1>7. CASE SaveExport(t)
  <2>1. UNCHANGED ip /\ job'[t].at = "idle"
    BY <1>7 DEF SaveExport, Goto, IoTypeOK, Idle
  <2>2. \A u \in Preemptible : job'[u].at = "octets" => <<u, "ip">> \in may
    BY <1>1, <2>1 DEF AddressInv
  <2>3. SettersSave => stored' = ip
    BY <1>7 DEF SaveExport, Exported, AddressInv
  <2> QED
    BY <1>2, <2>1, <2>2, <2>3 DEF AddressInv, SettersSave, Valid
<1>8. CASE FactoryReset(t)
  <2>1. UNCHANGED <<ip, job>> /\ stored' = Erased
    BY <1>8 DEF FactoryReset
  <2> QED
    BY <1>2, <2>1 DEF AddressInv, SettersSave, Valid
<1> QED
  BY <1>3, <1>4, <1>5, <1>6, <1>7, <1>8 DEF IoThread

LEMMA RestAddress ==
  ASSUME IoTypeOK, AddressInv, ModbusDo \/ LinkDown \/ ModbusIp \/ RequestReboot \/ Reboot
  PROVE  AddressInv'
<1>1. CASE ModbusDo \/ LinkDown \/ RequestReboot
  <2>1. UNCHANGED <<may, ip, stored, job>>
    BY <1>1 DEF ModbusDo, LinkDown, RequestReboot
  <2> QED
    BY <2>1 DEF AddressInv, SettersSave, Valid, WillSave
<1>2. CASE ModbusIp
  <2>1. UNCHANGED <<may, job>>
    BY <1>2 DEF ModbusIp
  <2>2. SettersSave => ip' = ip /\ stored' = ip
    <3> SUFFICES ASSUME SettersSave
                 PROVE  ip' = ip /\ stored' = ip
      OBVIOUS
    <3>1. <<"modbus", "ip">> \notin may
      BY DEF SettersSave
    <3> QED
      BY <1>2, <3>1 DEF ModbusIp, Exported, AddressInv
  <2> QED
    BY <2>1, <2>2 DEF AddressInv, SettersSave, Valid
<1>3. CASE Reboot
  <2>1. may' = may /\ stored' = stored /\ ip' = AtBoot(stored) /\ \A t \in Preemptible : job'[t].at = "idle"
    BY <1>3 DEF Reboot, Idle
  <2>2. Valid(ip)' /\ (stored # Erased => ip' = stored)
    BY <2>1, IoAssumption, AddressTyped DEF AtBoot, Valid, IoTypeOK
  <2> QED
    BY <2>1, <2>2 DEF AddressInv
<1> QED
  BY <1>1, <1>2, <1>3

(* A restart brings back the address that was set last, whichever of the    *)
(* threads that set and save it were cut where (udp.c, shell.c).            *)
THEOREM AddressCorrect == IoSpec => []AddressPersists
<1>1. AddressInv => AddressPersists
  BY DEF AddressInv, AddressPersists, SettersSave, WillSave, Idle
<1>2. IoTypeOK /\ AddressInv /\ [IoNext]_ioVars => AddressInv'
  <2> SUFFICES ASSUME IoTypeOK, AddressInv, [IoNext]_ioVars
               PROVE  AddressInv'
    OBVIOUS
  <2>1. CASE UNCHANGED ioVars
    BY <2>1 DEF ioVars, AddressInv, SettersSave, Valid, WillSave
  <2> QED
    BY <2>1, ThreadAddress, RestAddress DEF IoNext
<1> QED
  BY <1>1, <1>2, AddressInit, IoTypeCorrect, PTL DEF IoSpec

-----------------------------------------------------------------------------
(* CoRegisters *)

PinsLeft(x, l) == [x EXCEPT !.left = l]

(* What Stores leaves of a todo. *)
LEMMA RestOf ==
  ASSUME NEW S, NEW s \in Seq(S), s # <<>>
  PROVE  /\ Head(s) = s[1] /\ s[1] \in S /\ 1 \in DOMAIN s
         /\ Tail(s) \in Seq(S) /\ Len(Tail(s)) = Len(s) - 1
         /\ \A n \in DOMAIN Tail(s) : n + 1 \in DOMAIN s /\ Tail(s)[n] = s[n + 1]
         /\ \A n \in DOMAIN s : n = 1 \/ (n - 1 \in DOMAIN Tail(s) /\ Tail(s)[n - 1] = s[n])
BY HeadTailProperties

LEMMA HeadChanged ==
  ASSUME NEW S, NEW s \in Seq(S), s # <<>>, NEW y \in S
  PROVE  /\ <<y>> \o Tail(s) \in Seq(S)
         /\ Len(<<y>> \o Tail(s)) = Len(s)
         /\ DOMAIN (<<y>> \o Tail(s)) = DOMAIN s
         /\ (<<y>> \o Tail(s))[1] = y
         /\ \A n \in DOMAIN s : n # 1 => (<<y>> \o Tail(s))[n] = s[n]
<1> DEFINE r == Tail(s)  z == <<y>> \o r
<1>1. r \in Seq(S) /\ Len(r) = Len(s) - 1 /\ Len(s) \in Nat \ {0}
  BY HeadTailProperties, LenProperties, EmptySeq
<1>2. <<y>> \in Seq(S) /\ Len(<<y>>) = 1 /\ <<y>>[1] = y
  OBVIOUS
<1>3. z \in Seq(S) /\ Len(z) = 1 + Len(r) /\ z[1] = y
  BY <1>1, <1>2, ConcatProperties
<1>4. DOMAIN z = 1..Len(z) /\ DOMAIN s = 1..Len(s)
  BY <1>3, LenProperties
<1>5. ASSUME NEW n \in DOMAIN s, n # 1 PROVE z[n] = s[n]
  <2>1. n \in 2..Len(s) /\ n - 1 \in 1..Len(r)
    BY <1>1, <1>4, <1>5
  <2>2. z[n] = r[n - 1]
    BY <1>1, <1>2, <2>1, ConcatProperties
  <2> QED
    BY <1>1, <2>1, <2>2, HeadTailProperties
<1> QED
  BY <1>1, <1>3, <1>4, <1>5

(* Tuples put together. *)
LEMMA Joined ==
  ASSUME NEW S, NEW s \in Seq(S), NEW t \in Seq(S), NEW u \in Seq(S),
         Len(u) = Len(s) + Len(t),
         \A n \in 1..Len(s) : u[n] = s[n],
         \A n \in 1..Len(t) : u[Len(s) + n] = t[n]
  PROVE  s \o t = u
<1>1. s \o t \in Seq(S) /\ Len(s \o t) = Len(u) /\ Len(s) \in Nat /\ Len(t) \in Nat
  BY ConcatProperties, LenProperties
<1>2. ASSUME NEW n \in 1..Len(u) PROVE (s \o t)[n] = u[n]
  <2>1. (s \o t)[n] = IF n <= Len(s) THEN s[n] ELSE t[n - Len(s)]
    BY <1>1, <1>2, ConcatProperties
  <2>2. CASE n <= Len(s)
    BY <1>1, <2>1, <2>2
  <2>3. CASE ~(n <= Len(s))
    <3>1. n - Len(s) \in 1..Len(t) /\ n = Len(s) + (n - Len(s))
      BY <1>1, <2>3
    <3> QED
      BY <2>1, <2>3, <3>1
  <2> QED
    BY <2>2, <2>3
<1> QED
  BY <1>1, <1>2, SeqEqual

LEMMA Tuples12 ==
  \A p, q, r : <<p>> \o <<q, r>> = <<p, q, r>>
<1> TAKE p, q, r
<1> DEFINE S == {p, q, r}  x == <<p>>  y == <<q, r>>  z == <<p, q, r>>
<1>1. /\ x \in Seq(S) /\ y \in Seq(S) /\ z \in Seq(S)
      /\ Len(x) = 1 /\ Len(y) = 2 /\ Len(z) = 3
  OBVIOUS
<1>2. x[1] = z[1]
  OBVIOUS
<1>3. y[1] = z[2] /\ y[2] = z[3]
  OBVIOUS
<1> HIDE DEF x, y, z, S
<1>4. \A n \in 1..Len(x) : z[n] = x[n]
  BY <1>1, <1>2
<1>5. \A n \in 1..Len(y) : z[Len(x) + n] = y[n]
  BY <1>1, <1>3
<1>6. Len(z) = Len(x) + Len(y)
  BY <1>1
<1>7. x \o y = z
  BY <1>1, <1>4, <1>5, <1>6, Joined
<1> QED
  BY <1>7 DEF x, y, z

LEMMA Tuples13 ==
  \A p, q, r, s : <<p>> \o <<q, r, s>> = <<p, q, r, s>>
<1> TAKE p, q, r, s
<1> DEFINE S == {p, q, r, s}  x == <<p>>  y == <<q, r, s>>  z == <<p, q, r, s>>
<1>1. /\ x \in Seq(S) /\ y \in Seq(S) /\ z \in Seq(S)
      /\ Len(x) = 1 /\ Len(y) = 3 /\ Len(z) = 4
  OBVIOUS
<1>2. x[1] = z[1]
  OBVIOUS
<1>3. y[1] = z[2] /\ y[2] = z[3] /\ y[3] = z[4]
  OBVIOUS
<1> HIDE DEF x, y, z, S
<1>4. \A n \in 1..Len(x) : z[n] = x[n]
  BY <1>1, <1>2
<1>5. \A n \in 1..Len(y) : z[Len(x) + n] = y[n]
  BY <1>1, <1>3
<1>6. Len(z) = Len(x) + Len(y)
  BY <1>1
<1>7. x \o y = z
  BY <1>1, <1>4, <1>5, <1>6, Joined
<1> QED
  BY <1>7 DEF x, y, z

LEMMA Tuples31 ==
  \A p, q, r, s : <<p, q, r>> \o <<s>> = <<p, q, r, s>>
<1> TAKE p, q, r, s
<1> DEFINE S == {p, q, r, s}  x == <<p, q, r>>  y == <<s>>  z == <<p, q, r, s>>
<1>1. /\ x \in Seq(S) /\ y \in Seq(S) /\ z \in Seq(S)
      /\ Len(x) = 3 /\ Len(y) = 1 /\ Len(z) = 4
  OBVIOUS
<1>2. x[1] = z[1] /\ x[2] = z[2] /\ x[3] = z[3]
  OBVIOUS
<1>3. y[1] = z[4]
  OBVIOUS
<1> HIDE DEF x, y, z, S
<1>4. \A n \in 1..Len(x) : z[n] = x[n]
  BY <1>1, <1>2
<1>5. \A n \in 1..Len(y) : z[Len(x) + n] = y[n]
  BY <1>1, <1>3
<1>6. Len(z) = Len(x) + Len(y)
  BY <1>1
<1>7. x \o y = z
  BY <1>1, <1>4, <1>5, <1>6, Joined
<1> QED
  BY <1>7 DEF x, y, z

LEMMA Tuples23 ==
  \A p, q, r, s, t : <<p, q>> \o <<r, s, t>> = <<p, q, r, s, t>>
<1> TAKE p, q, r, s, t
<1> DEFINE S == {p, q, r, s, t}  x == <<p, q>>  y == <<r, s, t>>  z == <<p, q, r, s, t>>
<1>1. /\ x \in Seq(S) /\ y \in Seq(S) /\ z \in Seq(S)
      /\ Len(x) = 2 /\ Len(y) = 3 /\ Len(z) = 5
  OBVIOUS
<1>2. x[1] = z[1] /\ x[2] = z[2]
  OBVIOUS
<1>3. y[1] = z[3] /\ y[2] = z[4] /\ y[3] = z[5]
  OBVIOUS
<1> HIDE DEF x, y, z, S
<1>4. \A n \in 1..Len(x) : z[n] = x[n]
  BY <1>1, <1>2
<1>5. \A n \in 1..Len(y) : z[Len(x) + n] = y[n]
  BY <1>1, <1>3
<1>6. Len(z) = Len(x) + Len(y)
  BY <1>1
<1>7. x \o y = z
  BY <1>1, <1>4, <1>5, <1>6, Joined
<1> QED
  BY <1>7 DEF x, y, z

(* The stores of each handler, one by one. *)
LEMMA Handlers ==
  /\ \A v : mb_set_do(v) = <<Put("od", v), Pins(v)>>
  /\ \A v : do_write(v) = <<Put("od", v), PutLocked("do", v), Put("od", v), Pins(v)>>
  /\ \A v : io_write_holding(v) =
       IF v = io.do THEN <<>> ELSE <<Put("do", v), Put("od", v \cap Bit), Pins(v \cap Bit)>>
  /\ \A b, on : io_write_do_bit(b, on) = LET w == WithBit(io.do, b, on) \cap Bit IN
       <<Put("do", w), Put("od", w), Pins(w), GiveLock>>
  /\ \A a : cmd_ip(a) = <<Octet(1, a[1], FALSE), Octet(2, a[2], FALSE), TakeLock, Export, GiveLock>>
  /\ \A a : SET_IP(a) = <<Octet(1, a[1], TRUE), Octet(2, a[2], TRUE), TakeLock, Export, GiveLock>>
<1> SUFFICES ASSUME NEW v, NEW a, NEW b, NEW on
    PROVE  /\ mb_set_do(v) = <<Put("od", v), Pins(v)>>
           /\ do_write(v) = <<Put("od", v), PutLocked("do", v), Put("od", v), Pins(v)>>
           /\ io_write_holding(v) = IF v = io.do THEN <<>>
                ELSE <<Put("do", v), Put("od", v \cap Bit), Pins(v \cap Bit)>>
           /\ io_write_do_bit(b, on) = LET w == WithBit(io.do, b, on) \cap Bit IN
                <<Put("do", w), Put("od", w), Pins(w), GiveLock>>
           /\ cmd_ip(a) = <<Octet(1, a[1], FALSE), Octet(2, a[2], FALSE), TakeLock, Export, GiveLock>>
           /\ SET_IP(a) = <<Octet(1, a[1], TRUE), Octet(2, a[2], TRUE), TakeLock, Export, GiveLock>>
  OBVIOUS
<1>6. mb_set_do(v) = <<Put("od", v), Pins(v)>>
  BY DEF mb_set_do
<1>7. do_write(v) = <<Put("od", v), PutLocked("do", v), Put("od", v), Pins(v)>>
  <2>1. co_io_set_do(v) = <<PutLocked("do", v), Put("od", v), Pins(v)>>
    BY <1>6, Tuples12 DEF co_io_set_do
  <2> QED
    BY <2>1, Tuples13 DEF do_write
<1>8. io_write_holding(v) = IF v = io.do THEN <<>>
              ELSE <<Put("do", v), Put("od", v \cap Bit), Pins(v \cap Bit)>>
  BY Tuples12 DEF io_write_holding, mb_set_do
<1>9. io_write_do_bit(b, on) = LET w == WithBit(io.do, b, on) \cap Bit IN
              <<Put("do", w), Put("od", w), Pins(w), GiveLock>>
  <2> DEFINE w == WithBit(io.do, b, on) \cap Bit
  <2>1. mb_set_do(w) = <<Put("od", w), Pins(w)>>
    BY DEF mb_set_do
  <2>2. <<Put("do", w)>> \o mb_set_do(w) = <<Put("do", w), Put("od", w), Pins(w)>>
    BY <2>1, Tuples12
  <2>3. <<Put("do", w)>> \o mb_set_do(w) \o <<GiveLock>> = <<Put("do", w), Put("od", w), Pins(w), GiveLock>>
    BY <2>2, Tuples31
  <2> QED
    BY <2>3 DEF io_write_do_bit
<1>10. cmd_ip(a) = <<Octet(1, a[1], FALSE), Octet(2, a[2], FALSE), TakeLock, Export, GiveLock>>
  BY Tuples23 DEF cmd_ip, holding_reg_save
<1>11. SET_IP(a) = <<Octet(1, a[1], TRUE), Octet(2, a[2], TRUE), TakeLock, Export, GiveLock>>
  BY Tuples23 DEF SET_IP, holding_reg_save
<1> QED
  BY <1>6, <1>7, <1>8, <1>9, <1>10, <1>11
-----------------------------------------------------------------------------
(* The types *)

LEMMA StoreTypes ==
  /\ \A v \in Word : Put("od", v) \in CoStore
  /\ \A v \in Word : Put("do", v) \in CoStore
  /\ \A v \in Word : PutLocked("do", v) \in CoStore
  /\ \A v \in Word : Pins(v) \in CoStore
  /\ \A n \in 1..2, o \in Octets, waits \in BOOLEAN : Octet(n, o, waits) \in CoStore
  /\ TakeLock \in CoStore /\ Export \in CoStore /\ GiveLock \in CoStore
BY DEF CoStore, Put, PutLocked, Pins, Octet, TakeLock, Export, GiveLock

LEMMA StoreKinds ==
  ASSUME NEW x \in CoStore
  PROVE  /\ x.op \in {"do", "od", "pins", "octet", "lock", "export", "give"}
         /\ x.op \in {"do", "od"} => x.v \in Word
         /\ x.op = "pins" => /\ x.v \in Word /\ x.left \subseteq Bit
                             /\ \A l \in SUBSET Bit : /\ PinsLeft(x, l) \in CoStore
                                                      /\ PinsLeft(x, l).op = "pins"
                                                      /\ PinsLeft(x, l).v = x.v
                                                      /\ PinsLeft(x, l).left = l
         /\ x.op = "octet" => x.n \in 1..2 /\ x.o \in Octets
BY DEF CoStore, PinsLeft

LEMMA TupleTypes ==
  ASSUME NEW S
  PROVE  /\ <<>> \in Seq(S)
         /\ \A p, q \in S : <<p, q>> \in Seq(S)
         /\ \A p, q, r \in S : <<p, q, r>> \in Seq(S)
         /\ \A p, q, r, s \in S : <<p, q, r, s>> \in Seq(S)
         /\ \A p, q, r, s, t \in S : <<p, q, r, s, t>> \in Seq(S)
OBVIOUS

(* The address a start loads. *)
LEMMA BootTypes ==
  ASSUME NEW s, s \in [1..2 -> Octets] \cup {Erased}
  PROVE  /\ AtBoot(s) \in [1..2 -> Octets]
         /\ CoBoot(s) \in [do : Word, od : Word, pins : SUBSET Bit, ip : [1..2 -> Octets],
                           stored : [1..2 -> Octets] \cup {Erased}, reg_lock : CoThread \cup {NoThread}]
<1>1. DefaultIp \in [1..2 -> Octets]
  BY IoAssumption DEF Octets
<1>2. AtBoot(s) \in [1..2 -> Octets]
  BY <1>1 DEF AtBoot
<1> QED
  BY <1>2 DEF CoBoot, Word

LEMMA CoInitTyped == CoInit => CoTypeOK
<1> SUFFICES ASSUME CoInit PROVE CoTypeOK
  OBVIOUS
<1>1. <<>> \in Seq(CoStore)
  OBVIOUS
<1> QED
  BY <1>1, BootTypes DEF CoInit, CoTypeOK, Erased

(* What a step of Stores does. *)
LEMMA StoresStep ==
  ASSUME CoTypeOK, NEW t \in CoThread, Stores(t)
  PROVE  /\ todo[t] # <<>> /\ todo[t] \in Seq(CoStore)
         /\ todo[t][1] \in CoStore /\ 1 \in DOMAIN todo[t]
         /\ todo[t][1].waits => LockFree
         /\ coMay' = coMay /\ dark' = dark /\ overlap_do' = overlap_do
         /\ coReboot' = coReboot /\ confirm' = confirm
         /\ \/ /\ todo[t][1].op # "pins" /\ io' = Effect(io, t, todo[t][1])
               /\ todo' = [todo EXCEPT ![t] = Tail(todo[t])]
            \/ /\ todo[t][1].op = "pins"
               /\ \E b \in todo[t][1].left :
                    /\ b \in Bit
                    /\ io' = [io EXCEPT !.pins = WithBit(io.pins, b, b \in todo[t][1].v)]
                    /\ \/ /\ todo[t][1].left = {b} /\ todo' = [todo EXCEPT ![t] = Tail(todo[t])]
                       \/ todo' = [todo EXCEPT ![t] =
                            <<PinsLeft(todo[t][1], todo[t][1].left \ {b})>> \o Tail(todo[t])]
<1>1. todo[t] # <<>> /\ todo[t] \in Seq(CoStore)
  BY DEF Stores, CoTypeOK
<1>2. Head(todo[t]) = todo[t][1] /\ todo[t][1] \in CoStore /\ 1 \in DOMAIN todo[t]
  BY <1>1, RestOf
<1>3. todo[t][1].op = "pins" => todo[t][1].left \subseteq Bit
  BY <1>2, StoreKinds
<1> QED
  BY <1>1, <1>2, <1>3 DEF Stores, PinsLeft

LEMMA EffectTyped ==
  ASSUME CoTypeOK, NEW t \in CoThread, NEW x \in CoStore, x.op # "pins"
  PROVE  Effect(io, t, x) \in [do : Word, od : Word, pins : SUBSET Bit, ip : [1..2 -> Octets],
             stored : [1..2 -> Octets] \cup {Erased}, reg_lock : CoThread \cup {NoThread}]
<1>1. /\ x.op \in {"do", "od", "octet", "lock", "export", "give"}
      /\ x.op \in {"do", "od"} => x.v \in Word
      /\ x.op = "octet" => x.n \in 1..2 /\ x.o \in Octets
  BY StoreKinds
<1>2. CASE x.op = "do"
  BY <1>1, <1>2 DEF Effect, CoTypeOK
<1>3. CASE x.op = "od"
  BY <1>1, <1>3 DEF Effect, CoTypeOK
<1>4. CASE x.op = "octet"
  BY <1>1, <1>4 DEF Effect, CoTypeOK
<1>5. CASE x.op = "lock"
  BY <1>1, <1>5 DEF Effect, CoTypeOK
<1>6. CASE x.op = "give"
  BY <1>1, <1>6 DEF Effect, CoTypeOK
<1>7. CASE x.op = "export"
  BY <1>1, <1>7 DEF Effect, Export_ip, CoTypeOK
<1> QED
  BY <1>1, <1>2, <1>3, <1>4, <1>5, <1>6, <1>7
-----------------------------------------------------------------------------
(* What a handler begins *)

Occurs(s, field) == \E n \in DOMAIN s : s[n].op = field
Drives(s) == \E n \in DOMAIN s : OnOutputs(s[n])

(* A write of the outputs stores one value in all the copies. *)
OneValue(s, w) ==
  /\ Occurs(s, "do") /\ Occurs(s, "od") /\ Occurs(s, "pins")
  /\ \A n \in DOMAIN s : /\ OnOutputs(s[n]) => s[n].v \cap Bit = w
                         /\ s[n].op = "pins" => s[n].left = Bit

GiveLast(s) == \A n \in DOMAIN s : s[n].op = "give" => n = Len(s)
HoldsLock(s) == Drives(s) \/ (Occurs(s, "give") /\ ~Occurs(s, "lock"))

(* An address is valid, and udp and shell save what they store. *)
ThenSaved(t, s) == \A n \in DOMAIN s : s[n].op = "octet" =>
  /\ s[n].o # BadOctet /\ <<t, "ip">> \in coMay
  /\ t # "ws" => \E m \in DOMAIN s : m > n /\ s[m].op = "export"

NoWholeWrites == \A c \in coMay : c[2] \notin {"whole", "do"}

BeginsAs(t, s) ==
  /\ todo[t] = <<>> /\ s \in Seq(CoStore)
  /\ Begins(t, s)
  /\ UNCHANGED io \/ (LockFree /\ io' = [io EXCEPT !.reg_lock = t])
  /\ Drives(s) => \E w \in SUBSET Bit : OneValue(s, w)
  /\ GiveLast(s)
  /\ NoWholeWrites /\ HoldsLock(s) => LockFree /\ io'.reg_lock = t
  /\ ThenSaved(t, s)

LEMMA WholeWrite ==
  ASSUME NEW v \in Word
  PROVE  /\ OneValue(do_write(v), v \cap Bit) /\ GiveLast(do_write(v))
         /\ \A n \in DOMAIN do_write(v) : do_write(v)[n].op # "octet"
<1> DEFINE p == Put("od", v)  q == PutLocked("do", v)  r == Put("od", v)  u == Pins(v)  s == <<p, q, r, u>>
<1>1. DOMAIN s = 1..4 /\ Len(s) = 4 /\ s[1] = p /\ s[2] = q /\ s[3] = r /\ s[4] = u
  OBVIOUS
<1>2. /\ p.op = "od" /\ q.op = "do" /\ r.op = "od" /\ u.op = "pins" /\ u.left = Bit
      /\ p.v = v /\ q.v = v /\ r.v = v /\ u.v = v
  BY DEF Put, PutLocked, Pins
<1>3. do_write(v) = s
  BY Handlers
<1> HIDE DEF s, p, q, r, u
<1>4. \A n \in 1..4 : n = 1 \/ n = 2 \/ n = 3 \/ n = 4
  OBVIOUS
<1> QED
  BY <1>1, <1>2, <1>3, <1>4 DEF OneValue, Occurs, OnOutputs, GiveLast

LEMMA RegisterWrite ==
  ASSUME NEW v \in Word
  PROVE  LET s == io_write_holding(v) IN
         /\ Drives(s) => OneValue(s, v \cap Bit)
         /\ GiveLast(s)
         /\ \A n \in DOMAIN s : s[n].op \notin {"octet", "give"}
<1>1. CASE v = io.do
  <2>1. \A s : s = <<>> => DOMAIN s = {}
    OBVIOUS
  <2> QED
    BY <1>1, <2>1, Handlers DEF Drives, GiveLast
<1>2. CASE v # io.do
  <2> DEFINE w == v \cap Bit
             p == Put("do", v)  q == Put("od", w)  u == Pins(w)  s == <<p, q, u>>
  <2>1. DOMAIN s = 1..3 /\ Len(s) = 3 /\ s[1] = p /\ s[2] = q /\ s[3] = u
    OBVIOUS
  <2>2. /\ p.op = "do" /\ q.op = "od" /\ u.op = "pins" /\ u.left = Bit
        /\ p.v \cap Bit = v \cap Bit /\ q.v \cap Bit = v \cap Bit /\ u.v \cap Bit = v \cap Bit
    BY DEF Put, Pins
  <2>3. io_write_holding(v) = s
    BY <1>2, Handlers
  <2> HIDE DEF s, p, q, u, w
  <2>4. \A n \in 1..3 : n = 1 \/ n = 2 \/ n = 3
    OBVIOUS
  <2> QED
    BY <2>1, <2>2, <2>3, <2>4 DEF OneValue, Occurs, OnOutputs, GiveLast
<1> QED
  BY <1>1, <1>2

LEMMA BitWrite ==
  ASSUME NEW b \in Bit, NEW on \in BOOLEAN
  PROVE  LET s == io_write_do_bit(b, on) IN
         /\ \E w \in SUBSET Bit : OneValue(s, w)
         /\ GiveLast(s)
         /\ \A n \in DOMAIN s : s[n].op # "octet"
<1> DEFINE w == WithBit(io.do, b, on) \cap Bit
           p == Put("do", w)  q == Put("od", w)  u == Pins(w)  g == GiveLock  s == <<p, q, u, g>>
<1>1. DOMAIN s = 1..4 /\ Len(s) = 4 /\ s[1] = p /\ s[2] = q /\ s[3] = u /\ s[4] = g
  OBVIOUS
<1>2. /\ p.op = "do" /\ q.op = "od" /\ u.op = "pins" /\ g.op = "give" /\ u.left = Bit
      /\ p.v \cap Bit = w /\ q.v \cap Bit = w /\ u.v \cap Bit = w
  BY DEF Put, Pins, GiveLock
<1>3. io_write_do_bit(b, on) = s
  BY Handlers
<1>4. w \in SUBSET Bit
  OBVIOUS
<1> HIDE DEF s, p, q, u, w, g
<1>5. \A n \in 1..4 : n = 1 \/ n = 2 \/ n = 3 \/ n = 4
  OBVIOUS
<1>6. OneValue(s, w)
  BY <1>1, <1>2, <1>5 DEF OneValue, Occurs, OnOutputs
<1> QED
  BY <1>1, <1>2, <1>3, <1>4, <1>5, <1>6 DEF GiveLast

LEMMA Saving ==
  LET s == holding_reg_save IN
  /\ ~Drives(s) /\ GiveLast(s) /\ Occurs(s, "lock")
  /\ \A n \in DOMAIN s : s[n].op # "octet"
<1> DEFINE p == TakeLock  q == Export  u == GiveLock  s == <<p, q, u>>
<1>1. DOMAIN s = 1..3 /\ Len(s) = 3 /\ s[1] = p /\ s[2] = q /\ s[3] = u
  OBVIOUS
<1>2. p.op = "lock" /\ q.op = "export" /\ u.op = "give"
  BY DEF TakeLock, Export, GiveLock
<1>3. holding_reg_save = s
  BY DEF holding_reg_save
<1> HIDE DEF s, p, q, u
<1>4. \A n \in 1..3 : n = 1 \/ n = 2 \/ n = 3
  OBVIOUS
<1> QED
  BY <1>1, <1>2, <1>3, <1>4 DEF Drives, OnOutputs, GiveLast, Occurs

(* An address, and what comes after it. *)
LEMMA AddressWrite ==
  ASSUME NEW a \in Address, NEW waits \in BOOLEAN
  PROVE  LET s == <<Octet(1, a[1], waits), Octet(2, a[2], waits), TakeLock, Export, GiveLock>> IN
         /\ ~Drives(s) /\ GiveLast(s) /\ Occurs(s, "lock")
         /\ \A n \in DOMAIN s : s[n].op = "octet" =>
              s[n].o # BadOctet /\ \E m \in DOMAIN s : m > n /\ s[m].op = "export"
<1> DEFINE x == Octet(1, a[1], waits)  y == Octet(2, a[2], waits)
           p == TakeLock  q == Export  u == GiveLock  s == <<x, y, p, q, u>>
<1>1. DOMAIN s = 1..5 /\ Len(s) = 5 /\ s[1] = x /\ s[2] = y /\ s[3] = p /\ s[4] = q /\ s[5] = u
  OBVIOUS
<1>2. /\ x.op = "octet" /\ y.op = "octet" /\ p.op = "lock" /\ q.op = "export" /\ u.op = "give"
      /\ x.o = a[1] /\ y.o = a[2]
  BY DEF Octet, TakeLock, Export, GiveLock
<1>3. a[1] # BadOctet /\ a[2] # BadOctet
  BY IoAssumption
<1> HIDE DEF s, x, y, p, q, u
<1>4. \A n \in 1..5 : n = 1 \/ n = 2 \/ n = 3 \/ n = 4 \/ n = 5
  OBVIOUS
<1>5. ~Drives(s) /\ GiveLast(s) /\ Occurs(s, "lock")
  BY <1>1, <1>2, <1>4 DEF Drives, OnOutputs, GiveLast, Occurs
<1>6. ASSUME NEW n \in DOMAIN s, s[n].op = "octet"
      PROVE  s[n].o # BadOctet /\ \E m \in DOMAIN s : m > n /\ s[m].op = "export"
  <2>1. n = 1 \/ n = 2
    BY <1>1, <1>2, <1>4, <1>6
  <2>2. 4 \in DOMAIN s /\ 4 > n /\ s[4].op = "export"
    BY <1>1, <1>2, <2>1
  <2> QED
    BY <1>1, <1>2, <1>3, <2>1, <2>2
<1> QED
  BY <1>5, <1>6 DEF s, x, y, p, q, u

LEMMA WebAddressWrite ==
  ASSUME NEW a \in Address
  PROVE  LET s == co_cfg_ip(a) IN
         /\ ~Drives(s) /\ GiveLast(s) /\ ~Occurs(s, "give")
         /\ \A n \in DOMAIN s : s[n].op = "octet" => s[n].o # BadOctet
<1> DEFINE x == Octet(1, a[1], FALSE)  y == Octet(2, a[2], FALSE)  s == <<x, y>>
<1>1. DOMAIN s = 1..2 /\ Len(s) = 2 /\ s[1] = x /\ s[2] = y
  OBVIOUS
<1>2. x.op = "octet" /\ y.op = "octet" /\ x.o = a[1] /\ y.o = a[2]
  BY DEF Octet
<1>3. a[1] # BadOctet /\ a[2] # BadOctet
  BY IoAssumption
<1>4. co_cfg_ip(a) = s
  BY DEF co_cfg_ip
<1> HIDE DEF s, x, y
<1>5. \A n \in 1..2 : n = 1 \/ n = 2
  OBVIOUS
<1> QED
  BY <1>1, <1>2, <1>3, <1>4, <1>5 DEF Drives, OnOutputs, GiveLast, Occurs

(* The handlers that are cut at their stores. *)
CoHandlers ==
  \/ SdoDo \/ SdoSave \/ WebCfg \/ ShellIp \/ UdpIp
  \/ \E t \in {"ws", "shell"} : WebDo(t) \/ WebReg(t) \/ WebOrShellSave(t)

LEMMA Saves ==
  ASSUME CoTypeOK, NEW t \in CoThread, todo[t] = <<>>, Starts(t, holding_reg_save)
  PROVE  BeginsAs(t, holding_reg_save)
<1>1. holding_reg_save \in Seq(CoStore)
  BY StoreTypes, TupleTypes DEF holding_reg_save
<1> QED
  BY <1>1, Saving DEF BeginsAs, Starts, HoldsLock, ThenSaved

LEMMA Beginnings ==
  ASSUME CoTypeOK, CoHandlers
  PROVE  \E t \in CoThread : \E s \in Seq(CoStore) : BeginsAs(t, s)
<1> USE DEF CoThread
<1>1. CASE SdoDo
  <2>1. PICK v \in Word : Starts("main", do_write(v))
    BY <1>1 DEF SdoDo
  <2>2. todo["main"] = <<>> /\ <<"main", "do">> \in coMay
    BY <1>1 DEF SdoDo, Use
  <2>3. do_write(v) \in Seq(CoStore)
    <3>1. Put("od", v) \in CoStore /\ PutLocked("do", v) \in CoStore /\ Pins(v) \in CoStore
      BY StoreTypes
    <3> QED
      BY <3>1, Handlers, TupleTypes
  <2>4. ~NoWholeWrites
    BY <2>2 DEF NoWholeWrites
  <2>5. v \cap Bit \in SUBSET Bit
    OBVIOUS
  <2>6. BeginsAs("main", do_write(v))
    BY <2>1, <2>2, <2>3, <2>4, <2>5, WholeWrite DEF BeginsAs, Starts, ThenSaved
  <2> QED
    BY <2>3, <2>6
<1>2. CASE SdoSave
  <2>1. BeginsAs("main", holding_reg_save)
    BY <1>2, Saves DEF SdoSave, Use
  <2> QED
    BY <2>1 DEF BeginsAs
<1>3. CASE WebCfg
  <2>1. PICK a \in Address : Starts("ws", co_cfg_ip(a))
    BY <1>3 DEF WebCfg
  <2>2. todo["ws"] = <<>> /\ <<"ws", "ip">> \in coMay
    BY <1>3 DEF WebCfg, Use
  <2>3. co_cfg_ip(a) \in Seq(CoStore)
    <3>1. \A waits \in BOOLEAN : Octet(1, a[1], waits) \in CoStore /\ Octet(2, a[2], waits) \in CoStore
      BY StoreTypes DEF Octets
    <3> QED
      BY <3>1, TupleTypes DEF co_cfg_ip
  <2>4. BeginsAs("ws", co_cfg_ip(a))
    BY <2>1, <2>2, <2>3, WebAddressWrite DEF BeginsAs, Starts, ThenSaved, HoldsLock
  <2> QED
    BY <2>3, <2>4
<1>4. ASSUME NEW t \in {"udp", "shell"}, NEW a \in Address, NEW waits \in BOOLEAN, Use(t, "ip"),
             Starts(t, <<Octet(1, a[1], waits), Octet(2, a[2], waits), TakeLock, Export, GiveLock>>)
      PROVE  \E u \in CoThread : \E s \in Seq(CoStore) : BeginsAs(u, s)
  <2> DEFINE s == <<Octet(1, a[1], waits), Octet(2, a[2], waits), TakeLock, Export, GiveLock>>
  <2>1. todo[t] = <<>> /\ <<t, "ip">> \in coMay
    BY <1>4 DEF Use
  <2>2. s \in Seq(CoStore)
    <3>1. Octet(1, a[1], waits) \in CoStore /\ Octet(2, a[2], waits) \in CoStore
      BY StoreTypes DEF Octets
    <3> QED
      BY <3>1, StoreTypes, TupleTypes
  <2>3. /\ ~Drives(s) /\ GiveLast(s) /\ Occurs(s, "lock")
        /\ \A n \in DOMAIN s : s[n].op = "octet" =>
              s[n].o # BadOctet /\ \E m \in DOMAIN s : m > n /\ s[m].op = "export"
    BY AddressWrite
  <2>4. Starts(t, s)
    BY <1>4
  <2> HIDE DEF s
  <2>5. BeginsAs(t, s)
    BY <2>1, <2>2, <2>3, <2>4 DEF BeginsAs, Starts, ThenSaved, HoldsLock
  <2> QED
    BY <2>2, <2>5
<1>5. CASE ShellIp
  <2>1. PICK a \in Address : Starts("shell", cmd_ip(a))
    BY <1>5 DEF ShellIp
  <2>2. Starts("shell", <<Octet(1, a[1], FALSE), Octet(2, a[2], FALSE), TakeLock, Export, GiveLock>>)
    BY <2>1, Handlers
  <2>3. Use("shell", "ip") /\ FALSE \in BOOLEAN
    BY <1>5 DEF ShellIp
  <2> QED
    BY <1>4, <2>2, <2>3
<1>6. CASE UdpIp
  <2>1. PICK a \in Address : Starts("udp", SET_IP(a))
    BY <1>6 DEF UdpIp
  <2>2. Starts("udp", <<Octet(1, a[1], TRUE), Octet(2, a[2], TRUE), TakeLock, Export, GiveLock>>)
    BY <2>1, Handlers
  <2>3. Use("udp", "ip") /\ TRUE \in BOOLEAN
    BY <1>6 DEF UdpIp
  <2> QED
    BY <1>4, <2>2, <2>3
<1>7. ASSUME NEW t \in {"ws", "shell"}, WebDo(t)
      PROVE  \E u \in CoThread : \E s \in Seq(CoStore) : BeginsAs(u, s)
  <2>1. PICK b \in Bit, on \in BOOLEAN : Begins(t, io_write_do_bit(b, on))
    BY <1>7 DEF WebDo
  <2>2. todo[t] = <<>> /\ LockFree /\ io' = [io EXCEPT !.reg_lock = t]
    BY <1>7 DEF WebDo, Use
  <2>3. io_write_do_bit(b, on) \in Seq(CoStore)
    <3> DEFINE w == WithBit(io.do, b, on) \cap Bit
    <3>1. w \in Word
      BY DEF Word
    <3>2. Put("do", w) \in CoStore /\ Put("od", w) \in CoStore /\ Pins(w) \in CoStore /\ GiveLock \in CoStore
      BY <3>1, StoreTypes
    <3>3. io_write_do_bit(b, on) = <<Put("do", w), Put("od", w), Pins(w), GiveLock>>
      BY Handlers
    <3> QED
      BY <3>2, <3>3, TupleTypes
  <2>4. io'.reg_lock = t
    BY <2>2 DEF CoTypeOK
  <2>5. BeginsAs(t, io_write_do_bit(b, on))
    BY <2>1, <2>2, <2>3, <2>4, BitWrite DEF BeginsAs, ThenSaved
  <2> QED
    BY <2>3, <2>5
<1>8. ASSUME NEW t \in {"ws", "shell"}, WebReg(t)
      PROVE  \E u \in CoThread : \E s \in Seq(CoStore) : BeginsAs(u, s)
  <2>1. PICK v \in Word : Starts(t, io_write_holding(v))
    BY <1>8 DEF WebReg
  <2>2. todo[t] = <<>> /\ <<t, "whole">> \in coMay
    BY <1>8 DEF WebReg, Use
  <2>3. io_write_holding(v) \in Seq(CoStore)
    <3> DEFINE w == v \cap Bit
    <3>1. w \in Word
      BY DEF Word
    <3>2. Put("do", v) \in CoStore /\ Put("od", w) \in CoStore /\ Pins(w) \in CoStore
      BY <3>1, StoreTypes
    <3> QED
      BY <3>2, Handlers, TupleTypes
  <2>4. ~NoWholeWrites
    BY <2>2 DEF NoWholeWrites
  <2>5. v \cap Bit \in SUBSET Bit
    OBVIOUS
  <2>6. BeginsAs(t, io_write_holding(v))
    BY <2>1, <2>2, <2>3, <2>4, <2>5, RegisterWrite DEF BeginsAs, Starts, ThenSaved
  <2> QED
    BY <2>3, <2>6
<1>9. ASSUME NEW t \in {"ws", "shell"}, WebOrShellSave(t)
      PROVE  \E u \in CoThread : \E s \in Seq(CoStore) : BeginsAs(u, s)
  <2>1. BeginsAs(t, holding_reg_save)
    BY <1>9, Saves DEF WebOrShellSave, Use
  <2> QED
    BY <2>1 DEF BeginsAs
<1> QED
  BY <1>1, <1>2, <1>3, <1>5, <1>6, <1>7, <1>8, <1>9 DEF CoHandlers

-----------------------------------------------------------------------------
(* Types are kept *)

LEMMA CoTypesKept ==
  ASSUME CoTypeOK, [CoNext]_coVars
  PROVE  CoTypeOK'
<1> USE DEF CoTypeOK
<1>1. CASE CoHandlers
  <2>1. PICK t \in CoThread : \E s \in Seq(CoStore) : BeginsAs(t, s)
    BY <1>1, Beginnings
  <2>2. PICK s \in Seq(CoStore) : BeginsAs(t, s)
    BY <2>1
  <2>3. todo' \in [CoThread -> Seq(CoStore)]
    BY <2>2 DEF BeginsAs, Begins
  <2>4. io' \in [do : Word, od : Word, pins : SUBSET Bit, ip : [1..2 -> Octets],
             stored : [1..2 -> Octets] \cup {Erased}, reg_lock : CoThread \cup {NoThread}]
    BY <2>2 DEF BeginsAs
  <2>5. overlap_do' \in BOOLEAN /\ dark' \in BOOLEAN
    BY <2>2 DEF BeginsAs, Begins, OutputsBusy
  <2> QED
    BY <2>2, <2>3, <2>4, <2>5 DEF BeginsAs, Begins
<1>2. ASSUME NEW t \in CoThread, Stores(t) PROVE CoTypeOK'
  <2> DEFINE x == todo[t][1]
  <2>1. /\ todo[t] # <<>> /\ todo[t] \in Seq(CoStore) /\ x \in CoStore
        /\ UNCHANGED <<coMay, dark, overlap_do, coReboot, confirm>>
    BY <1>2, StoresStep
  <2>2. Tail(todo[t]) \in Seq(CoStore)
    BY <2>1, RestOf
  <2>3. CASE x.op # "pins"
    <3>1. io' = Effect(io, t, x) /\ todo' = [todo EXCEPT ![t] = Tail(todo[t])]
      BY <1>2, <2>3, StoresStep
    <3> QED
      BY <2>1, <2>2, <2>3, <3>1, EffectTyped
  <2>4. CASE x.op = "pins"
    <3>1. PICK b \in x.left :
               /\ b \in Bit
               /\ io' = [io EXCEPT !.pins = WithBit(io.pins, b, b \in x.v)]
               /\ \/ x.left = {b} /\ todo' = [todo EXCEPT ![t] = Tail(todo[t])]
                  \/ todo' = [todo EXCEPT ![t] = <<PinsLeft(x, x.left \ {b})>> \o Tail(todo[t])]
      BY <1>2, <2>4, StoresStep
    <3>2. x.left \ {b} \in SUBSET Bit /\ PinsLeft(x, x.left \ {b}) \in CoStore
      BY <2>1, <2>4, StoreKinds
    <3>3. <<PinsLeft(x, x.left \ {b})>> \o Tail(todo[t]) \in Seq(CoStore)
      BY <2>1, <3>2, HeadChanged
    <3>4. todo' \in [CoThread -> Seq(CoStore)]
      BY <2>2, <3>1, <3>3
    <3>5. WithBit(io.pins, b, b \in x.v) \in SUBSET Bit
      BY <3>1 DEF WithBit
    <3> QED
      BY <2>1, <3>1, <3>4, <3>5
  <2> QED
    BY <2>3, <2>4
<1>3. ASSUME NEW t \in CoThread, CoFactoryReset(t) PROVE CoTypeOK'
  <2>1. /\ UNCHANGED <<coMay, todo, dark, overlap_do>>
        /\ \/ confirm' = TRUE /\ UNCHANGED <<io, coReboot>>
           \/ io' = [io EXCEPT !.stored = Erased] /\ coReboot' = TRUE /\ UNCHANGED confirm
    BY <1>3 DEF CoFactoryReset
  <2>2. confirm' \in BOOLEAN /\ coReboot' \in BOOLEAN
    BY <2>1
  <2> QED
    BY <2>1, <2>2
<1>4. CASE CoModbusDo
  <2>1. PICK v \in Word, w \in Word : AtOnce(v, w) /\ w \in SUBSET Bit
    <3>1. CASE \E b \in Bit, on \in BOOLEAN :
                 LET v == WithBit(io.do, b, on) \cap Bit IN AtOnce(v, v)
      BY <3>1 DEF Word
    <3>2. CASE \E v \in Word : v # io.do /\ AtOnce(v, v \cap Bit)
      <4>1. PICK v \in Word : AtOnce(v, v \cap Bit)
        BY <3>2
      <4>2. v \cap Bit \in Word /\ v \cap Bit \in SUBSET Bit
        BY DEF Word
      <4> QED
        BY <4>1, <4>2
    <3> QED
      BY <1>4, <3>1, <3>2 DEF CoModbusDo
  <2>2. dark' = FALSE /\ overlap_do' \in BOOLEAN
    BY <1>4 DEF CoModbusDo, OutputsBusy
  <2> QED
    BY <2>1, <2>2 DEF AtOnce
<1>5. CASE CoModbusSave
  BY <1>5 DEF CoModbusSave, Export_ip
<1>6. CASE CoLinkDown
  <2>1. overlap_do' \in BOOLEAN /\ dark' \in BOOLEAN
    BY <1>6 DEF CoLinkDown, OutputsBusy
  <2>2. AtOnce({}, {}) /\ {} \in Word /\ {} \in SUBSET Bit
    BY <1>6 DEF CoLinkDown, Word
  <2> QED
    BY <2>1, <2>2 DEF AtOnce
<1>7. CASE FiveSeconds
  BY <1>7 DEF FiveSeconds
<1>8. CASE CoRequestReboot
  BY <1>8 DEF CoRequestReboot
<1>9. CASE CoReboots
  <2>1. <<>> \in Seq(CoStore)
    OBVIOUS
  <2> QED
    BY <1>9, <2>1, BootTypes DEF CoReboots
<1>10. CASE UNCHANGED coVars
  BY <1>10 DEF coVars
<1> QED
  BY <1>1, <1>2, <1>3, <1>4, <1>5, <1>6, <1>7, <1>8, <1>9, <1>10 DEF CoNext, CoHandlers

-----------------------------------------------------------------------------
(* Writes that meet: only those of a whole register or of an SDO *)

WritesApart ==
  /\ \A t \in CoThread : GiveLast(todo[t])
  /\ NoWholeWrites =>
       /\ ~overlap_do
       /\ \A t \in CoThread : HoldsLock(todo[t]) => io.reg_lock = t

LEMMA FreeMeansIdle ==
  ASSUME CoTypeOK, WritesApart, NoWholeWrites, LockFree
  PROVE  ~OutputsBusy
BY CoAssumption DEF WritesApart, LockFree, OutputsBusy, HoldsLock, Drives

LEMMA NothingToDo ==
  LET s == <<>> IN ~Drives(s) /\ ~HoldsLock(s) /\ GiveLast(s) /\ \A f : ~Occurs(s, f)
<1>1. \A s : s = <<>> => DOMAIN s = {}
  OBVIOUS
<1> QED
  BY <1>1 DEF Drives, HoldsLock, GiveLast, Occurs

LEMMA ApartInit == CoInit => WritesApart
BY NothingToDo DEF CoInit, WritesApart

LEMMA ApartStores ==
  ASSUME CoTypeOK, WritesApart, NEW t \in CoThread, Stores(t)
  PROVE  WritesApart'
<1> DEFINE x == todo[t][1]  s == todo[t]  r == todo'[t]
<1>1. /\ s # <<>> /\ s \in Seq(CoStore) /\ x \in CoStore /\ 1 \in DOMAIN s
      /\ x.waits => LockFree
      /\ UNCHANGED <<coMay, overlap_do>>
  BY StoresStep
<1>2. \A u \in CoThread : u # t => todo'[u] = todo[u]
  BY StoresStep, ZenonT(40) DEF CoTypeOK
<1>3. CASE x.op = "pins"
  <2>1. io'.reg_lock = io.reg_lock
    BY <1>3, StoresStep DEF CoTypeOK
  <2>2. GiveLast(r) /\ (HoldsLock(r) => HoldsLock(s))
    <3>1. CASE r = Tail(s)
      <4>1. GiveLast(s) /\ Len(s) \in Nat
        BY <1>1 DEF WritesApart
      <4>2. HoldsLock(s)
        BY <1>1, <1>3 DEF HoldsLock, Drives, OnOutputs
      <4>3. ASSUME NEW n \in DOMAIN r, r[n].op = "give" PROVE n = Len(r)
        BY <1>1, <3>1, <4>1, <4>3, RestOf DEF GiveLast
      <4> QED
        BY <4>2, <4>3 DEF GiveLast
    <3>2. CASE \E y \in CoStore : y.op = "pins" /\ r = <<y>> \o Tail(s)
      <4>1. PICK y \in CoStore : y.op = "pins" /\ r = <<y>> \o Tail(s)
        BY <3>2
      <4>2. DOMAIN r = DOMAIN s /\ Len(r) = Len(s) /\ r[1] = y /\ \A n \in DOMAIN s : n # 1 => r[n] = s[n]
        BY <1>1, <4>1, HeadChanged
      <4>3. HoldsLock(s)
        BY <1>1, <1>3 DEF HoldsLock, Drives, OnOutputs
      <4> QED
        BY <4>1, <4>2, <4>3 DEF GiveLast, WritesApart
    <3>3. \E b \in x.left : b \in Bit /\ (r = Tail(s) \/ r = <<PinsLeft(x, x.left \ {b})>> \o Tail(s))
      BY <1>3, StoresStep DEF CoTypeOK
    <3>4. \A b : x.left \ {b} \in SUBSET Bit
      BY <1>1, <1>3, StoreKinds
    <3>5. \A b : PinsLeft(x, x.left \ {b}) \in CoStore /\ PinsLeft(x, x.left \ {b}).op = "pins"
      BY <1>1, <1>3, <3>4, StoreKinds
    <3> QED
      BY <3>1, <3>2, <3>3, <3>5
  <2> QED
    BY <1>1, <1>2, <2>1, <2>2 DEF WritesApart, NoWholeWrites
<1>4. CASE x.op # "pins"
  <2>1. r = Tail(s) /\ io' = Effect(io, t, x)
    BY <1>4, StoresStep DEF CoTypeOK
  <2>2. GiveLast(r)
    <3>1. GiveLast(s) /\ Len(s) \in Nat
      BY <1>1 DEF WritesApart
    <3>2. ASSUME NEW n \in DOMAIN r, r[n].op = "give" PROVE n = Len(r)
      BY <1>1, <2>1, <3>1, <3>2, RestOf DEF GiveLast
    <3> QED
      BY <3>2 DEF GiveLast
  <2>3. x.op # "lock" /\ HoldsLock(r) => HoldsLock(s)
    <3>1. /\ \A n \in DOMAIN r : n + 1 \in DOMAIN s /\ r[n] = s[n + 1]
          /\ \A n \in DOMAIN s : n = 1 \/ (n - 1 \in DOMAIN r /\ r[n - 1] = s[n])
      BY <1>1, <2>1, RestOf
    <3>2. Drives(r) => Drives(s)
      BY <3>1 DEF Drives
    <3>3. Occurs(r, "give") => Occurs(s, "give")
      BY <3>1 DEF Occurs
    <3>4. x.op # "lock" /\ Occurs(s, "lock") => Occurs(r, "lock")
      BY <3>1 DEF Occurs
    <3> QED
      BY <3>2, <3>3, <3>4 DEF HoldsLock
  <2>4. /\ x.op = "lock" => io'.reg_lock = t
        /\ x.op = "give" => io'.reg_lock = NoThread
        /\ x.op \notin {"lock", "give"} => io'.reg_lock = io.reg_lock
    BY <1>1, <1>4, <2>1, StoreKinds DEF Effect, Export_ip, CoTypeOK
  <2>5. x.op = "lock" => LockFree
    BY <1>1 DEF CoStore
  <2>6. x.op = "give" => DOMAIN r = {} /\ HoldsLock(s)
    <3> HAVE x.op = "give"
    <3>1. Len(s) = 1 /\ DOMAIN s = 1..1
      <4>1. GiveLast(s)
        BY DEF WritesApart
      <4>2. 1 = Len(s)
        BY <1>1, <4>1 DEF GiveLast
      <4> QED
        BY <1>1, <4>2, LenProperties
    <3>2. Len(r) = 0 /\ r \in Seq(CoStore)
      BY <1>1, <2>1, <3>1, RestOf
    <3>3. \A n \in DOMAIN s : s[n] = x
      BY <3>1
    <3> QED
      BY <1>1, <3>2, <3>3 DEF HoldsLock, Occurs
  <2>7. DOMAIN r = {} => ~HoldsLock(r)
    BY DEF HoldsLock, Drives, Occurs
  <2>8. ASSUME NoWholeWrites, NEW u \in CoThread, HoldsLock(todo'[u]) PROVE io'.reg_lock = u
    <3>1. CASE u = t
      BY <2>3, <2>4, <2>6, <2>7, <2>8, <3>1 DEF WritesApart
    <3>2. CASE u # t
      <4>1. HoldsLock(todo[u]) /\ io.reg_lock = u
        BY <1>2, <2>8, <3>2 DEF WritesApart
      <4>2. x.op # "lock"
        BY <2>5, <4>1, CoAssumption DEF LockFree
      <4>3. x.op # "give"
        BY <2>6, <2>8, <3>2, <4>1 DEF WritesApart
      <4> QED
        BY <2>4, <4>1, <4>2, <4>3
    <3> QED
      BY <3>1, <3>2
  <2> QED
    BY <1>1, <1>2, <2>2, <2>8 DEF WritesApart, NoWholeWrites
<1> QED
  BY <1>3, <1>4

LEMMA ApartKept ==
  ASSUME CoTypeOK, WritesApart, [CoNext]_coVars
  PROVE  WritesApart'
<1>1. CASE CoHandlers
  <2>1. PICK t \in CoThread : \E s \in Seq(CoStore) : BeginsAs(t, s)
    BY <1>1, Beginnings
  <2>2. PICK s \in Seq(CoStore) : BeginsAs(t, s)
    BY <2>1
  <2>3. /\ todo' = [todo EXCEPT ![t] = s] /\ todo'[t] = s
        /\ \A u \in CoThread : u # t => todo'[u] = todo[u]
        /\ GiveLast(s) /\ UNCHANGED coMay
    BY <2>2 DEF BeginsAs, Begins, CoTypeOK
  <2>4. \A u \in CoThread : GiveLast(todo'[u])
    BY <2>3 DEF WritesApart
  <2>5. ASSUME NoWholeWrites
        PROVE  ~overlap_do' /\ \A u \in CoThread : HoldsLock(todo'[u]) => io'.reg_lock = u
    <3>1. HoldsLock(s) => LockFree /\ io'.reg_lock = t
      BY <2>2, <2>5 DEF BeginsAs
    <3>2. Drives(s) => LockFree
      BY <3>1 DEF HoldsLock
    <3>3. ~overlap_do'
      BY <2>2, <2>5, <3>2, FreeMeansIdle DEF BeginsAs, Begins, WritesApart, Drives
    <3>4. ASSUME NEW u \in CoThread, u # t, HoldsLock(todo[u]) PROVE io'.reg_lock = u
      <4>1. io.reg_lock = u /\ ~LockFree
        BY <2>5, <3>4, CoAssumption DEF WritesApart, LockFree
      <4> QED
        BY <2>2, <4>1 DEF BeginsAs
    <3> QED
      BY <2>3, <3>1, <3>3, <3>4
  <2> QED
    BY <2>3, <2>4, <2>5 DEF WritesApart, NoWholeWrites
<1>2. CASE \E t \in CoThread : Stores(t)
  BY <1>2, ApartStores
<1>3. CASE \E t \in CoThread : CoFactoryReset(t)
  <2>1. PICK t \in CoThread : CoFactoryReset(t)
    BY <1>3
  <2>2. UNCHANGED <<coMay, todo, overlap_do>> /\ io'.reg_lock = io.reg_lock
    BY <2>1 DEF CoFactoryReset, CoTypeOK
  <2> QED
    BY <2>2 DEF WritesApart, NoWholeWrites
<1>4. CASE CoModbusDo \/ CoLinkDown
  <2>1. UNCHANGED <<coMay, todo>> /\ io'.reg_lock = io.reg_lock
    BY <1>4 DEF CoModbusDo, CoLinkDown, AtOnce, CoTypeOK
  <2>2. NoWholeWrites => LockFree
    BY <1>4 DEF CoModbusDo, CoLinkDown, NoWholeWrites
  <2>3. NoWholeWrites => ~overlap_do'
    BY <1>4, <2>2, FreeMeansIdle DEF CoModbusDo, CoLinkDown, WritesApart
  <2> QED
    BY <2>1, <2>3 DEF WritesApart, NoWholeWrites
<1>5. CASE CoModbusSave \/ FiveSeconds \/ CoRequestReboot \/ UNCHANGED coVars
  <2>1. UNCHANGED <<coMay, todo, overlap_do>> /\ io'.reg_lock = io.reg_lock
    BY <1>5 DEF CoModbusSave, Export_ip, FiveSeconds, CoRequestReboot, coVars, CoTypeOK
  <2> QED
    BY <2>1 DEF WritesApart, NoWholeWrites
<1>6. CASE CoReboots
  BY <1>6, NothingToDo DEF CoReboots, WritesApart, NoWholeWrites
<1> QED
  BY <1>1, <1>2, <1>3, <1>4, <1>5, <1>6 DEF CoNext, CoHandlers

-----------------------------------------------------------------------------
(* The copies of the outputs *)

Pending(field) == \E t \in CoThread : Occurs(todo[t], field)

(* The output b is still to be set. *)
PinPending(b) == \E t \in CoThread : \E n \in DOMAIN todo[t] :
  todo[t][n].op = "pins" /\ b \in todo[t][n].left

(* All writes under way store w, and every copy with no store to come has it. *)
Settling(w) ==
  /\ \A t \in CoThread : \A n \in DOMAIN todo[t] : OnOutputs(todo[t][n]) => todo[t][n].v \cap Bit = w
  /\ ~Pending("do") => io.do \cap Bit = w
  /\ ~Pending("od") => io.od \cap Bit = w
  /\ \A b \in Bit : ~PinPending(b) => (b \in io.pins <=> b \in w)
  /\ dark => w = {}

CopiesSettle == ~overlap_do => \E w \in SUBSET Bit : Settling(w)

LEMMA SettledInit == CoInit => CopiesSettle
<1> SUFFICES ASSUME CoInit PROVE Settling({})
  BY DEF CopiesSettle
<1>1. \A s : s = <<>> => DOMAIN s = {}
  OBVIOUS
<1> QED
  BY <1>1 DEF CoInit, CoBoot, Settling

LEMMA SettledStores ==
  ASSUME CoTypeOK, NEW w \in SUBSET Bit, Settling(w), NEW t \in CoThread, Stores(t)
  PROVE  Settling(w)'
<1> DEFINE x == todo[t][1]  s == todo[t]  r == todo'[t]
<1>1. /\ s # <<>> /\ s \in Seq(CoStore) /\ x \in CoStore /\ 1 \in DOMAIN s
      /\ UNCHANGED <<coMay, dark>>
  BY StoresStep
<1>2. \A u \in CoThread : u # t => todo'[u] = todo[u]
  BY StoresStep, ZenonT(40) DEF CoTypeOK
<1>3. CASE x.op # "pins"
  <2>1. r = Tail(s) /\ io' = Effect(io, t, x)
    BY <1>3, StoresStep DEF CoTypeOK
  <2>2. /\ \A n \in DOMAIN r : n + 1 \in DOMAIN s /\ r[n] = s[n + 1]
        /\ \A n \in DOMAIN s : n = 1 \/ (n - 1 \in DOMAIN r /\ r[n - 1] = s[n])
    BY <1>1, <2>1, RestOf
  <2>3. \A u \in CoThread : \A n \in DOMAIN todo'[u] : OnOutputs(todo'[u][n]) => todo'[u][n].v \cap Bit = w
    BY <1>2, <2>2 DEF Settling
  <2>4. \A f : Occurs(s, f) => x.op = f \/ Occurs(r, f)
    BY <2>2 DEF Occurs
  <2>5. \A f : Pending(f) => x.op = f \/ Pending(f)'
    BY <1>2, <2>4 DEF Pending
  <2>6. \A b : PinPending(b) => PinPending(b)'
    <3>1. \A b : (\E n \in DOMAIN s : s[n].op = "pins" /\ b \in s[n].left)
                   => \E n \in DOMAIN r : r[n].op = "pins" /\ b \in r[n].left
      BY <1>3, <2>2
    <3> QED
      BY <1>2, <3>1 DEF PinPending
  <2>7. OnOutputs(x) => x.v \cap Bit = w
    BY <1>1 DEF Settling
  <2>8. /\ io'.do = IF x.op = "do" THEN x.v ELSE io.do
        /\ io'.od = IF x.op = "od" THEN x.v ELSE io.od
        /\ io'.pins = io.pins
    <3>1. x.op \in {"do", "od", "octet", "lock", "export", "give"}
      BY <1>1, <1>3, StoreKinds
    <3> QED
      BY <2>1, <3>1 DEF Effect, Export_ip, CoTypeOK
  <2>9. ~Pending("do")' => io'.do \cap Bit = w
    BY <2>5, <2>7, <2>8 DEF Settling, OnOutputs
  <2>10. ~Pending("od")' => io'.od \cap Bit = w
    BY <2>5, <2>7, <2>8 DEF Settling, OnOutputs
  <2>11. \A b \in Bit : ~PinPending(b)' => (b \in io'.pins <=> b \in w)
    BY <2>6, <2>8 DEF Settling
  <2> QED
    BY <1>1, <2>3, <2>9, <2>10, <2>11 DEF Settling
<1>4. CASE x.op = "pins"
  <2>1. PICK b \in x.left :
          /\ b \in Bit
          /\ io' = [io EXCEPT !.pins = WithBit(io.pins, b, b \in x.v)]
          /\ \/ /\ x.left = {b} /\ todo' = [todo EXCEPT ![t] = Tail(todo[t])]
             \/ todo' = [todo EXCEPT ![t] = <<PinsLeft(x, x.left \ {b})>> \o Tail(todo[t])]
    BY <1>4, StoresStep
  <2>2. x.v \cap Bit = w
    BY <1>1, <1>4 DEF Settling, OnOutputs
  <2>3. io'.do = io.do /\ io'.od = io.od /\ io'.pins = WithBit(io.pins, b, b \in w)
    BY <2>1, <2>2 DEF CoTypeOK
  <2>4. /\ \A n \in DOMAIN r : OnOutputs(r[n]) => r[n].v \cap Bit = w
        /\ \A f : f # "pins" /\ Occurs(s, f) => Occurs(r, f)
        /\ \A c : c # b /\ (\E n \in DOMAIN s : s[n].op = "pins" /\ c \in s[n].left)
                    => \E n \in DOMAIN r : r[n].op = "pins" /\ c \in r[n].left
    <3>1. CASE x.left = {b} /\ todo' = [todo EXCEPT ![t] = Tail(todo[t])]
      <4>1. r = Tail(s)
        BY <3>1 DEF CoTypeOK
      <4>2. /\ \A n \in DOMAIN r : n + 1 \in DOMAIN s /\ r[n] = s[n + 1]
            /\ \A n \in DOMAIN s : n = 1 \/ (n - 1 \in DOMAIN r /\ r[n - 1] = s[n])
        BY <1>1, <4>1, RestOf
      <4>3. \A n \in DOMAIN r : OnOutputs(r[n]) => r[n].v \cap Bit = w
        BY <4>2 DEF Settling
      <4>4. \A f : f # "pins" /\ Occurs(s, f) => Occurs(r, f)
        BY <1>4, <4>2 DEF Occurs
      <4>5. \A c : c # b /\ (\E n \in DOMAIN s : s[n].op = "pins" /\ c \in s[n].left)
                    => \E n \in DOMAIN r : r[n].op = "pins" /\ c \in r[n].left
        BY <3>1, <4>2, SMTT(30)
      <4> QED
        BY <4>3, <4>4, <4>5
    <3>2. CASE todo' = [todo EXCEPT ![t] = <<PinsLeft(x, x.left \ {b})>> \o Tail(todo[t])]
      <4> DEFINE y == PinsLeft(x, x.left \ {b})
      <4>1. x.left \ {b} \in SUBSET Bit
        BY <1>1, <1>4, StoreKinds
      <4>2. y \in CoStore /\ y.op = "pins" /\ y.v = x.v /\ y.left = x.left \ {b}
        BY <1>1, <1>4, <4>1, StoreKinds
      <4>3. r = <<y>> \o Tail(s)
        BY <3>2 DEF CoTypeOK
      <4> HIDE DEF y
      <4>4. DOMAIN r = DOMAIN s /\ r[1] = y /\ \A n \in DOMAIN s : n # 1 => r[n] = s[n]
        BY <1>1, <4>2, <4>3, HeadChanged
      <4>5. \A n \in DOMAIN r : OnOutputs(r[n]) => r[n].v \cap Bit = w
        BY <2>2, <4>2, <4>4 DEF Settling
      <4>6. \A f : f # "pins" /\ Occurs(s, f) => Occurs(r, f)
        BY <1>4, <4>4 DEF Occurs
      <4>7. \A c : c # b /\ (\E n \in DOMAIN s : s[n].op = "pins" /\ c \in s[n].left)
                    => \E n \in DOMAIN r : r[n].op = "pins" /\ c \in r[n].left
        BY <4>2, <4>4
      <4> QED
        BY <4>5, <4>6, <4>7
    <3> QED
      BY <2>1, <3>1, <3>2
  <2>5. \A u \in CoThread : \A n \in DOMAIN todo'[u] : OnOutputs(todo'[u][n]) => todo'[u][n].v \cap Bit = w
    BY <1>2, <2>4 DEF Settling
  <2>6. \A f : f # "pins" /\ Pending(f) => Pending(f)'
    BY <1>2, <2>4 DEF Pending
  <2>7. \A c : c # b /\ PinPending(c) => PinPending(c)'
    BY <1>2, <2>4 DEF PinPending
  <2>8. \A c \in Bit : ~PinPending(c)' => (c \in io'.pins <=> c \in w)
    BY <2>3, <2>7 DEF Settling, WithBit
  <2>9. (~Pending("do")' => io'.do \cap Bit = w) /\ (~Pending("od")' => io'.od \cap Bit = w)
    BY <2>3, <2>6 DEF Settling
  <2> QED
    BY <1>1, <2>5, <2>8, <2>9 DEF Settling
<1> QED
  BY <1>3, <1>4

(* Whatever begins while nobody writes the outputs. *)
LEMMA SettledByBeginning ==
  ASSUME CoTypeOK, CopiesSettle, NEW t \in CoThread, NEW s \in Seq(CoStore), BeginsAs(t, s)
  PROVE  CopiesSettle'
<1>1. /\ todo[t] = <<>> /\ todo'[t] = s
      /\ \A u \in CoThread : u # t => todo'[u] = todo[u]
  BY DEF BeginsAs, Begins, CoTypeOK
<1>2. io'.do = io.do /\ io'.od = io.od /\ io'.pins = io.pins
  BY DEF BeginsAs, CoTypeOK
<1>3. CASE Drives(s)
  <2>1. dark' = FALSE /\ overlap_do' = (overlap_do \/ OutputsBusy)
    BY <1>3 DEF BeginsAs, Begins, Drives
  <2>2. PICK w \in SUBSET Bit : OneValue(s, w)
    BY <1>3 DEF BeginsAs
  <2>3. ASSUME ~overlap_do' PROVE Settling(w)'
    <3>1. \A u \in CoThread : \A n \in DOMAIN todo[u] : ~OnOutputs(todo[u][n])
      BY <2>1, <2>3 DEF OutputsBusy
    <3>2. \A u \in CoThread : \A n \in DOMAIN todo'[u] : OnOutputs(todo'[u][n]) => todo'[u][n].v \cap Bit = w
      <4>1. \A n \in DOMAIN s : OnOutputs(s[n]) => s[n].v \cap Bit = w
        BY <2>2 DEF OneValue
      <4> QED
        BY <1>1, <3>1, <4>1
    <3>3. Pending("do")' /\ Pending("od")'
      BY <1>1, <2>2 DEF OneValue, Pending
    <3>4. \A b \in Bit : PinPending(b)'
      <4>1. PICK n \in DOMAIN s : s[n].op = "pins"
        BY <2>2 DEF OneValue, Occurs
      <4>2. s[n].left = Bit
        BY <2>2, <4>1 DEF OneValue
      <4> QED
        BY <1>1, <4>1, <4>2 DEF PinPending
    <3> QED
      BY <2>1, <3>2, <3>3, <3>4 DEF Settling
  <2> QED
    BY <2>3 DEF CopiesSettle
<1>4. CASE ~Drives(s)
  <2>1. UNCHANGED <<dark, overlap_do>>
    BY <1>4 DEF BeginsAs, Begins, Drives
  <2>2. DOMAIN todo[t] = {}
    BY <1>1
  <2>3. ASSUME ~overlap_do PROVE \E w \in SUBSET Bit : Settling(w)'
    <3>1. PICK w \in SUBSET Bit : Settling(w)
      BY <2>3 DEF CopiesSettle
    <3>2. \A u \in CoThread : \A n \in DOMAIN todo'[u] : OnOutputs(todo'[u][n]) => todo'[u][n].v \cap Bit = w
      BY <1>1, <1>4, <3>1 DEF Settling, Drives
    <3>3. \A f : Pending(f) => Pending(f)'
      BY <1>1, <2>2 DEF Pending, Occurs
    <3>4. \A b : PinPending(b) => PinPending(b)'
      BY <1>1, <2>2 DEF PinPending
    <3>5. (~Pending("do")' => io'.do \cap Bit = w) /\ (~Pending("od")' => io'.od \cap Bit = w)
      BY <1>2, <3>1, <3>3 DEF Settling
    <3>6. \A b \in Bit : ~PinPending(b)' => (b \in io'.pins <=> b \in w)
      BY <1>2, <3>1, <3>4 DEF Settling
    <3> QED
      BY <2>1, <3>1, <3>2, <3>5, <3>6 DEF Settling
  <2> QED
    BY <2>1, <2>3 DEF CopiesSettle
<1> QED
  BY <1>3, <1>4

(* A write by a cooperative thread: register, object and outputs at once. *)
LEMMA SettledAtOnce ==
  ASSUME CoTypeOK, NEW v \in Word, NEW w \in SUBSET Bit, v \cap Bit = w, AtOnce(v, w),
         ~OutputsBusy, dark' => w = {}
  PROVE  Settling(w)'
<1>1. io'.do \cap Bit = w /\ io'.od \cap Bit = w /\ io'.pins = w /\ todo' = todo
  BY DEF AtOnce, CoTypeOK
<1>2. \A u \in CoThread : \A n \in DOMAIN todo[u] : ~OnOutputs(todo[u][n])
  BY DEF OutputsBusy
<1> QED
  BY <1>1, <1>2 DEF Settling

LEMMA SettledKept ==
  ASSUME CoTypeOK, CopiesSettle, [CoNext]_coVars
  PROVE  CopiesSettle'
<1>1. CASE CoHandlers
  BY <1>1, Beginnings, SettledByBeginning
<1>2. ASSUME NEW t \in CoThread, Stores(t) PROVE CopiesSettle'
  BY <1>2, SettledStores, StoresStep DEF CopiesSettle
<1>3. CASE CoModbusDo
  <2>1. dark' = FALSE /\ overlap_do' = (overlap_do \/ OutputsBusy)
    BY <1>3 DEF CoModbusDo
  <2>2. PICK v \in Word : \E w \in SUBSET Bit : v \cap Bit = w /\ AtOnce(v, w)
    <3>1. ASSUME NEW b \in Bit, NEW on \in BOOLEAN, AtOnce(WithBit(io.do, b, on) \cap Bit, WithBit(io.do, b, on) \cap Bit)
          PROVE  \E v \in Word : \E w \in SUBSET Bit : v \cap Bit = w /\ AtOnce(v, w)
      <4> DEFINE u == WithBit(io.do, b, on) \cap Bit
      <4>1. u \in Word /\ u \in SUBSET Bit /\ u \cap Bit = u /\ AtOnce(u, u)
        BY <3>1 DEF Word
      <4> QED
        BY <4>1
    <3>2. ASSUME NEW v \in Word, AtOnce(v, v \cap Bit)
          PROVE  \E u \in Word : \E w \in SUBSET Bit : u \cap Bit = w /\ AtOnce(u, w)
      BY <3>2
    <3> QED
      BY <1>3, <3>1, <3>2 DEF CoModbusDo
  <2>3. PICK w \in SUBSET Bit : v \cap Bit = w /\ AtOnce(v, w)
    BY <2>2
  <2> QED
    BY <2>1, <2>3, SettledAtOnce DEF CopiesSettle
<1>4. CASE CoLinkDown
  <2>1. /\ AtOnce({}, {}) /\ overlap_do' = OutputsBusy
        /\ {} \in Word /\ {} \in SUBSET Bit /\ {} \cap Bit = {}
    BY <1>4 DEF CoLinkDown, Word
  <2> QED
    BY <2>1, SettledAtOnce DEF CopiesSettle
<1>5. CASE (\E t \in CoThread : CoFactoryReset(t)) \/ CoModbusSave \/ FiveSeconds \/ CoRequestReboot \/ UNCHANGED coVars
  <2>1. /\ UNCHANGED <<todo, dark, overlap_do>>
        /\ io'.do = io.do /\ io'.od = io.od /\ io'.pins = io.pins
    BY <1>5 DEF CoFactoryReset, CoModbusSave, Export_ip, FiveSeconds, CoRequestReboot, coVars, CoTypeOK
  <2>2. \A w : Settling(w) => Settling(w)'
    BY <2>1 DEF Settling, Pending, PinPending
  <2> QED
    BY <2>1, <2>2 DEF CopiesSettle
<1>6. CASE CoReboots
  <2>1. io' = CoBoot(io.stored) /\ todo' = [t \in CoThread |-> <<>>]
    BY <1>6 DEF CoReboots
  <2>2. \A s : s = <<>> => DOMAIN s = {}
    OBVIOUS
  <2>3. Settling({})'
    BY <2>1, <2>2 DEF Settling, CoBoot
  <2> QED
    BY <2>3 DEF CopiesSettle
<1> QED
  BY <1>1, <1>2, <1>3, <1>4, <1>5, <1>6 DEF CoNext, CoHandlers

LEMMA CopiesAgree ==
  ASSUME CoTypeOK, WritesApart, CopiesSettle
  PROVE  CoOutputsAgree
<1>1. ASSUME ~overlap_do, ~OutputsBusy
      PROVE  io.pins = io.do \cap Bit /\ io.od \cap Bit = io.pins /\ (dark => io.pins = {})
  <2>1. PICK w \in SUBSET Bit : Settling(w)
    BY <1>1 DEF CopiesSettle
  <2>2. ~Pending("do") /\ ~Pending("od") /\ \A b : ~PinPending(b)
    BY <1>1 DEF OutputsBusy, OnOutputs, Pending, Occurs, PinPending
  <2>3. io.pins \subseteq Bit
    BY DEF CoTypeOK
  <2>4. io.pins = w
    BY <2>1, <2>2, <2>3 DEF Settling
  <2> QED
    BY <2>1, <2>2, <2>4 DEF Settling
<1> QED
  BY <1>1 DEF WritesApart, NoWholeWrites, CoOutputsAgree

-----------------------------------------------------------------------------
(* The address *)

OnlySavers == \A c \in coMay : c[2] = "ip" => c[1] \in {"udp", "shell"}

(* A valid address, and an export to come while it is not what is stored. *)
AddressSaved ==
  OnlySavers =>
    /\ Valid(io.ip) /\ (io.stored # Erased => Valid(io.stored))
    /\ \A t \in CoThread : ThenSaved(t, todo[t])
    /\ io.stored # Erased /\ io.ip # io.stored =>
         \E t \in CoThread : Occurs(todo[t], "export")

LEMMA DefaultValid == Valid(DefaultIp)
BY IoAssumption DEF Valid

LEMMA SavedInit == CoInit => AddressSaved
<1>1. \A s : s = <<>> => DOMAIN s = {}
  OBVIOUS
<1> QED
  BY <1>1, DefaultValid DEF CoInit, CoBoot, AtBoot, AddressSaved, ThenSaved

LEMMA SavedStores ==
  ASSUME CoTypeOK, AddressSaved, OnlySavers, NEW t \in CoThread, Stores(t)
  PROVE  AddressSaved'
<1> DEFINE x == todo[t][1]  s == todo[t]  r == todo'[t]
<1>1. /\ s # <<>> /\ s \in Seq(CoStore) /\ x \in CoStore /\ 1 \in DOMAIN s
      /\ coMay' = coMay
  BY StoresStep
<1>2. \A u \in CoThread : u # t => todo'[u] = todo[u]
  BY StoresStep, ZenonT(40) DEF CoTypeOK
<1>3. CASE x.op = "pins"
  <2>1. io'.ip = io.ip /\ io'.stored = io.stored
    BY <1>3, StoresStep DEF CoTypeOK
  <2>2. /\ Occurs(s, "export") => Occurs(r, "export")
        /\ ThenSaved(t, s) => ThenSaved(t, r)
    <3>1. CASE r = Tail(s)
      <4>1. /\ \A n \in DOMAIN r : n + 1 \in DOMAIN s /\ r[n] = s[n + 1]
            /\ \A n \in DOMAIN s : n = 1 \/ (n - 1 \in DOMAIN r /\ r[n - 1] = s[n])
            /\ DOMAIN s \subseteq Nat /\ DOMAIN r \subseteq Nat
        BY <1>1, <3>1, RestOf, LenProperties
      <4>2. ASSUME ThenSaved(t, s), NEW n \in DOMAIN r, r[n].op = "octet"
            PROVE  /\ r[n].o # BadOctet /\ <<t, "ip">> \in coMay
                   /\ t # "ws" => \E m \in DOMAIN r : m > n /\ r[m].op = "export"
        <5>1. /\ r[n].o # BadOctet /\ <<t, "ip">> \in coMay
              /\ t # "ws" => \E m \in DOMAIN s : m > n + 1 /\ s[m].op = "export"
          BY <4>1, <4>2 DEF ThenSaved
        <5>2. ASSUME NEW m \in DOMAIN s, m > n + 1, s[m].op = "export"
              PROVE  m - 1 \in DOMAIN r /\ m - 1 > n /\ r[m - 1].op = "export"
          BY <4>1, <5>2
        <5> QED
          BY <5>1, <5>2
      <4>3. ThenSaved(t, s) => ThenSaved(t, r)
        BY <1>1, <4>2 DEF ThenSaved
      <4>4. Occurs(s, "export") => Occurs(r, "export")
        BY <1>3, <4>1 DEF Occurs
      <4> QED
        BY <4>3, <4>4
    <3>2. CASE \E y \in CoStore : y.op = "pins" /\ r = <<y>> \o Tail(s)
      <4>1. PICK y \in CoStore : y.op = "pins" /\ r = <<y>> \o Tail(s)
        BY <3>2
      <4>2. DOMAIN r = DOMAIN s /\ r[1] = y /\ \A n \in DOMAIN s : n # 1 => r[n] = s[n]
        BY <1>1, <4>1, HeadChanged
      <4>3. ASSUME ThenSaved(t, s), NEW n \in DOMAIN r, r[n].op = "octet"
            PROVE  /\ r[n].o # BadOctet /\ <<t, "ip">> \in coMay
                   /\ t # "ws" => \E m \in DOMAIN r : m > n /\ r[m].op = "export"
        <5>1. n # 1 /\ n \in DOMAIN s /\ r[n] = s[n]
          BY <4>1, <4>2, <4>3
        <5>2. \A m \in DOMAIN s : s[m].op = "export" => r[m].op = "export"
          BY <1>3, <4>2
        <5> QED
          BY <4>2, <4>3, <5>1, <5>2 DEF ThenSaved
      <4>4. ThenSaved(t, s) => ThenSaved(t, r)
        BY <1>1, <4>3 DEF ThenSaved
      <4>5. Occurs(s, "export") => Occurs(r, "export")
        BY <1>3, <4>1, <4>2 DEF Occurs
      <4> QED
        BY <4>4, <4>5
    <3>3. \E b \in x.left : b \in Bit /\ (r = Tail(s) \/ r = <<PinsLeft(x, x.left \ {b})>> \o Tail(s))
      BY <1>3, StoresStep DEF CoTypeOK
    <3>4. \A b : x.left \ {b} \in SUBSET Bit
      BY <1>1, <1>3, StoreKinds
    <3>5. \A b : PinsLeft(x, x.left \ {b}) \in CoStore /\ PinsLeft(x, x.left \ {b}).op = "pins"
      BY <1>1, <1>3, <3>4, StoreKinds
    <3> QED
      BY <3>1, <3>2, <3>3, <3>5
  <2>3. \A u \in CoThread : ThenSaved(u, todo[u])'
    <3>1. \A u \in CoThread : ThenSaved(u, todo[u])
      BY DEF AddressSaved
    <3> QED
      BY <1>1, <1>2, <2>2, <3>1 DEF ThenSaved
  <2> QED
    BY <1>2, <2>1, <2>2, <2>3 DEF AddressSaved
<1>4. CASE x.op # "pins"
  <2>1. r = Tail(s) /\ io' = Effect(io, t, x)
    BY <1>4, StoresStep DEF CoTypeOK
  <2>2. /\ \A n \in DOMAIN r : n + 1 \in DOMAIN s /\ r[n] = s[n + 1]
        /\ \A n \in DOMAIN s : n = 1 \/ (n - 1 \in DOMAIN r /\ r[n - 1] = s[n])
        /\ DOMAIN s \subseteq Nat /\ DOMAIN r \subseteq Nat
    BY <1>1, <2>1, RestOf, LenProperties
  <2>3. ThenSaved(t, s)
    BY DEF AddressSaved
  <2>4. \A n \in DOMAIN r : r[n].op = "octet" =>
          /\ r[n].o # BadOctet /\ <<t, "ip">> \in coMay
          /\ t # "ws" => \E m \in DOMAIN r : m > n /\ r[m].op = "export"
    <3> SUFFICES ASSUME NEW n \in DOMAIN r, r[n].op = "octet"
                 PROVE  /\ r[n].o # BadOctet /\ <<t, "ip">> \in coMay
                        /\ t # "ws" => \E m \in DOMAIN r : m > n /\ r[m].op = "export"
      OBVIOUS
    <3>1. /\ r[n].o # BadOctet /\ <<t, "ip">> \in coMay
          /\ t # "ws" => \E m \in DOMAIN s : m > n + 1 /\ s[m].op = "export"
      BY <2>2, <2>3 DEF ThenSaved
    <3>2. ASSUME NEW m \in DOMAIN s, m > n + 1, s[m].op = "export"
          PROVE  m - 1 \in DOMAIN r /\ m - 1 > n /\ r[m - 1].op = "export"
      BY <2>2, <3>2
    <3> QED
      BY <3>1, <3>2
  <2>5. \A u \in CoThread : ThenSaved(u, todo[u])'
    BY <1>1, <1>2, <2>4 DEF AddressSaved, ThenSaved
  <2>6. Occurs(s, "export") => x.op = "export" \/ Occurs(r, "export")
    BY <2>2 DEF Occurs
  <2>7. x.op \in {"do", "od", "octet", "lock", "export", "give"}
    BY <1>1, <1>4, StoreKinds
  <2>8. CASE x.op = "octet"
    <3>1. io' = [io EXCEPT !.ip[x.n] = x.o] /\ x.n \in 1..2
      BY <1>1, <2>1, <2>8, StoreKinds DEF Effect
    <3>2. x.o # BadOctet /\ <<t, "ip">> \in coMay
      BY <1>1, <2>3, <2>8 DEF ThenSaved
    <3>3. t # "ws"
      BY <3>2 DEF OnlySavers
    <3>4. \E m \in DOMAIN s : m > 1 /\ s[m].op = "export"
      BY <1>1, <2>3, <2>8, <3>3 DEF ThenSaved
    <3>5. Occurs(r, "export")
      BY <2>2, <3>4 DEF Occurs
    <3>6. Valid(io'.ip) /\ io'.stored = io.stored
      BY <3>1, <3>2 DEF CoTypeOK, AddressSaved, Valid
    <3> QED
      BY <1>1, <2>5, <3>5, <3>6 DEF AddressSaved
  <2>9. CASE x.op = "export"
    <3>1. io'.ip = io.ip /\ io'.stored = io.ip
      BY <2>1, <2>9 DEF Effect, Export_ip, CoTypeOK, AddressSaved
    <3> QED
      BY <2>5, <3>1 DEF AddressSaved
  <2>10. CASE x.op \in {"do", "od", "lock", "give"}
    <3>1. io'.ip = io.ip /\ io'.stored = io.stored
      BY <2>1, <2>10 DEF Effect, CoTypeOK
    <3> QED
      BY <1>2, <2>5, <2>6, <2>10, <3>1 DEF AddressSaved
  <2> QED
    BY <2>7, <2>8, <2>9, <2>10
<1> QED
  BY <1>3, <1>4

LEMMA SavedKept ==
  ASSUME CoTypeOK, AddressSaved, [CoNext]_coVars
  PROVE  AddressSaved'
<1> SUFFICES ASSUME OnlySavers' PROVE AddressSaved'
  BY DEF AddressSaved
<1>0. coMay' = coMay
  <2>1. CASE CoHandlers
    BY <2>1, Beginnings DEF BeginsAs, Begins
  <2>2. CASE \E t \in CoThread : Stores(t)
    BY <2>2, StoresStep
  <2> QED
    BY <2>1, <2>2 DEF CoNext, CoHandlers, CoFactoryReset, CoModbusDo, CoModbusSave, CoLinkDown, AtOnce,
                      FiveSeconds, CoRequestReboot, CoReboots, coVars
<1> OnlySavers
  BY <1>0 DEF OnlySavers
<1>1. CASE CoHandlers
  <2>1. PICK t \in CoThread : \E s \in Seq(CoStore) : BeginsAs(t, s)
    BY <1>1, Beginnings
  <2>2. PICK s \in Seq(CoStore) : BeginsAs(t, s)
    BY <2>1
  <2>3. /\ todo[t] = <<>> /\ todo'[t] = s /\ ThenSaved(t, s)
        /\ \A u \in CoThread : u # t => todo'[u] = todo[u]
        /\ io'.ip = io.ip /\ io'.stored = io.stored
    BY <2>2 DEF BeginsAs, Begins, CoTypeOK
  <2>4. \A u \in CoThread : ThenSaved(u, todo[u])'
    BY <1>0, <2>3 DEF AddressSaved, ThenSaved
  <2>5. ~Occurs(todo[t], "export")
    BY <2>3, NothingToDo
  <2> QED
    BY <2>3, <2>4, <2>5 DEF AddressSaved
<1>2. CASE \E t \in CoThread : Stores(t)
  BY <1>2, SavedStores
<1>3. CASE (\E t \in CoThread : CoFactoryReset(t)) \/ CoModbusSave \/ FiveSeconds \/ CoRequestReboot
           \/ CoModbusDo \/ CoLinkDown \/ UNCHANGED coVars
  <2>1. todo' = todo /\ io'.ip = io.ip
    BY <1>3 DEF CoFactoryReset, CoModbusSave, Export_ip, FiveSeconds, CoRequestReboot, CoModbusDo, CoLinkDown,
                AtOnce, coVars, CoTypeOK
  <2>2. io'.stored \in {io.stored, Erased, io.ip}
    BY <1>3 DEF CoFactoryReset, CoModbusSave, Export_ip, FiveSeconds, CoRequestReboot, CoModbusDo, CoLinkDown,
                AtOnce, coVars, CoTypeOK
  <2>3. \A u \in CoThread : ThenSaved(u, todo[u])'
    BY <1>0, <2>1 DEF AddressSaved, ThenSaved
  <2> QED
    BY <2>1, <2>2, <2>3 DEF AddressSaved
<1>4. CASE CoReboots
  <2>1. io' = CoBoot(io.stored) /\ todo' = [t \in CoThread |-> <<>>]
    BY <1>4 DEF CoReboots
  <2>2. \A s : s = <<>> => DOMAIN s = {}
    OBVIOUS
  <2>3. io'.stored = io.stored /\ io'.ip = AtBoot(io.stored)
    BY <2>1 DEF CoBoot
  <2> QED
    BY <2>1, <2>2, <2>3, DefaultValid DEF AddressSaved, AtBoot, ThenSaved
<1> QED
  BY <1>1, <1>2, <1>3, <1>4 DEF CoNext, CoHandlers

LEMMA AddressKeptNow ==
  ASSUME CoTypeOK, AddressSaved
  PROVE  CoAddressPersists
BY NothingToDo DEF AddressSaved, OnlySavers, CoAddressPersists

CoInv == CoTypeOK /\ WritesApart /\ CopiesSettle /\ AddressSaved

LEMMA CoInvInit == CoInit => CoInv
BY CoInitTyped, ApartInit, SettledInit, SavedInit DEF CoInv

LEMMA CoInvKept ==
  ASSUME CoInv, [CoNext]_coVars
  PROVE  CoInv'
BY CoTypesKept, ApartKept, SettledKept, SavedKept DEF CoInv

(* Register 0, object 0x2002 and the outputs of canopen-io say the same    *)
(* once no write is under way, and are off after a lost link, unless two   *)
(* writes met; only SDOs and writes of the whole register ever do          *)
(* (function.c:7, app_od.c, main.c).                                       *)
THEOREM CoOutputsCorrect == CoSpec => [](CoTypeOK /\ CoOutputsAgree)
<1>1. CoInv => CoTypeOK /\ CoOutputsAgree
  BY CopiesAgree DEF CoInv
<1> QED
  BY <1>1, CoInvInit, CoInvKept, PTL DEF CoSpec

(* canopen-io: what a restart would load is the address of the registers   *)
(* whenever no command is under way, where the clients that set it save it *)
(* (udp.c, shell.c, function.c).                                           *)
THEOREM CoAddressCorrect == CoSpec => []CoAddressPersists
<1>1. CoInv => CoAddressPersists
  BY AddressKeptNow DEF CoInv
<1> QED
  BY <1>1, CoInvInit, CoInvKept, PTL DEF CoSpec

-----------------------------------------------------------------------------
(* The two applications *)

LEMMA PartsInit ==
  EdgeInit => IoInit /\ CoInit /\ WebInit /\ FtpInit /\ MbInit /\ MbcInit
BY DEF EdgeInit

(* The services canopen-io took over make no step that is not one of *)
(* io-edge-hub's.                                                    *)
LEMMA CanopenWeb == CoWebNext => WebNext
BY DEF CoWebNext, WebNext, co_post_handlers, co_save_handler, co_download_handler, co_hist_del_handler,
       co_ws_io_setup, co_ws_thread

LEMMA CanopenFtp == CoFtpNext => FtpNext
<1>1. co_ftp_thread => FtpNext
  BY DEF co_ftp_thread, FtpNext
<1>2. \A i \in Session : co_handle_command(i) \/ co_cmd_pasv(i) \/ co_cmd_port(i) => FtpNext
  BY DEF co_handle_command, co_cmd_pasv, co_cmd_port, FtpNext, FtpCommand
<1>3. co_open_data => FtpNext
  BY DEF co_open_data, FtpNext, FtpTransfer
<1>4. co_cmd_list \/ co_cmd_retr \/ co_cmd_stor => FtpNext
  BY DEF co_cmd_list, co_cmd_retr, co_cmd_stor, FtpNext, FtpTransfer, FtpCommand
<1> QED
  BY <1>1, <1>2, <1>3, <1>4 DEF CoFtpNext

LEMMA CanopenMb == CoMbNext => MbNext
BY DEF CoMbNext, MbNext, co_handle_client, co_reply_adu, co_server_raw_cb, ThreadStep, ServerStep

LEMMA CanopenMbc == CoMbcNext => MbcNext
BY DEF CoMbcNext, MbcNext, co_mb_tcp_thread, co_recv_full, mb_tcp_thread

LEMMA PartsStep ==
  [EdgeNext]_edgeVars =>
    /\ [IoNext]_ioVars /\ [CoNext]_coVars /\ [WebNext]_webVars
    /\ [FtpNext]_ftpVars /\ [MbNext]_mbVars /\ [MbcNext]_mbcVars
BY CanopenWeb, CanopenFtp, CanopenMb, CanopenMbc DEF EdgeNext, edgeVars

(* Every behaviour of the applications is one of each of their parts. *)
THEOREM PartsOfEdge ==
  EdgeSpec => IoSpec /\ CoSpec /\ WebSpec /\ FtpSpec /\ MbSpec /\ MbcSpec
BY PartsInit, PartsStep, PTL DEF EdgeSpec, IoSpec, CoSpec, WebSpec, FtpSpec, MbSpec, MbcSpec

-----------------------------------------------------------------------------
(* What a client of the devices can rely on *)

(* Register 0, the object 0x2002 and the outputs agree once no write is    *)
(* under way, in both applications (dio.c, function.c, app_od.c).          *)
THEOREM OutputsAgreeCorrect == EdgeSpec => []OutputsAgree
<1>1. RegistersAgree /\ CoTypeOK /\ CoOutputsAgree => OutputsAgree
  BY DEF OutputsAgree
<1> QED
  BY <1>1, PartsOfEdge, AgreeCorrect, CoOutputsCorrect, PTL

(* A restart brings back the address that was set last (udp.c, shell.c).   *)
THEOREM AddressKeptCorrect == EdgeSpec => []AddressKept
<1>1. AddressPersists /\ CoAddressPersists => AddressKept
  BY DEF AddressKept
<1> QED
  BY <1>1, PartsOfEdge, AddressCorrect, CoAddressCorrect, PTL

(* A write of one bit never takes back another one, whatever else the      *)
(* application does meanwhile (function.c:26).                             *)
THEOREM EdgeLostBit == EdgeSpec => NoLostBit
BY PartsOfEdge, LostBitCorrect, PTL

(* httpd.c's one buffer gives a request the body that it sent.             *)
THEOREM EdgeOwnBody == EdgeSpec => []OwnBody
BY PartsOfEdge, OwnBodyCorrect, PTL

(* No session, client or WebSocket connection leaves a socket behind that  *)
(* nobody watches (ftpd.c, tcp.c, ws_io.c).                                *)
THEOREM NothingLeftOpenCorrect == EdgeSpec => []NothingLeftOpen
<1>1. FtpTypeOK /\ FtpListeners /\ WatchesItsSockets /\ DownloadWhole /\ WsSlotsClean => NothingLeftOpen
  BY DEF NothingLeftOpen
<1> QED
  BY <1>1, PartsOfEdge, FtpListenersCorrect, WatchesCorrect, WholeDownload, PTL

(* A client whose transaction ids are its own gets its own response.       *)
THEOREM EdgeRightAnswer == ASSUME DistinctIds PROVE EdgeSpec => []RightAnswer
BY PartsOfEdge, RightAnswerCorrect, PTL

(* The Modbus TCP thread reads a stream out of step only after a frame it  *)
(* refused (tcp.c:112, :162).                                              *)
THEOREM EdgeFramesInStep == EdgeSpec => []FramesInStep
BY PartsOfEdge, FramesInStepCorrect, PTL
=============================================================================
