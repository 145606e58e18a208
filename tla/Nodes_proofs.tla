---------------------------- MODULE Nodes_proofs ----------------------------
(***************************************************************************)
(* Proofs about three of the parts that MCNodes puts side by side:         *)
(* CoDownload, for any runs of the tool, images of any length and any      *)
(* number of mishaps; GwBox, for any commands of the two threads; and      *)
(* J1939, for any nodes, addresses and requests.                           *)
(***************************************************************************)
EXTENDS CoDownload, GwBox, J1939, SequenceTheorems, FiniteSetTheorems, TLAPS

-----------------------------------------------------------------------------
(* CoDownload: operators *)

Chunk == Nat \X Nat

Slots == [1..SlotLen -> Chunk]

LEMMA SlotConstants ==
  /\ SlotLen \in Nat \ {0} /\ Blank \in Chunk /\ Junk \in Chunk
  /\ All(Blank) \in Slots /\ All(Junk) \in Slots
BY SdoAssumption DEF Blank, Junk, Factory, Chunk, All, Slots

(* What a write leaves in the slot: the chunk at its place, if the cell    *)
(* was erased, and all others as they were.                                *)
Written(t, s, n, x) ==
  /\ t \in Slots /\ t[n + 1] \in {x, Junk}
  /\ s[n + 1] = Blank => t[n + 1] = x
  /\ \A i \in 1..SlotLen : i # n + 1 => t[i] = s[i]

LEMMA SlotWritten ==
  ASSUME NEW s \in Slots, NEW n \in Nat, n < SlotLen, NEW x \in Chunk
  PROVE  Written(Programmed(s, n, x), s, n, x)
<1> DEFINE c == IF s[n + 1] \in {Blank, x} THEN x ELSE Junk
<1>1. n + 1 \in 1..SlotLen /\ DOMAIN s = 1..SlotLen /\ c \in Chunk
  BY SlotConstants DEF Slots
<1>2. Programmed(s, n, x) = [s EXCEPT ![n + 1] = c]
  BY DEF Programmed
<1>3. s[n + 1] = Blank => c = x
  OBVIOUS
<1>4. c \in {x, Junk}
  OBVIOUS
<1> HIDE DEF c
<1>5. [s EXCEPT ![n + 1] = c] \in Slots
  BY <1>1 DEF Slots
<1>6. /\ [s EXCEPT ![n + 1] = c][n + 1] = c
      /\ \A i \in 1..SlotLen : i # n + 1 => [s EXCEPT ![n + 1] = c][i] = s[i]
  BY <1>1
<1> QED
  BY <1>2, <1>3, <1>4, <1>5, <1>6 DEF Written

LEMMA SlotTorn ==
  ASSUME NEW s \in Slots, NEW n \in Nat
  PROVE  /\ TornCell(s, n) \in Slots
         /\ \A i \in 1..SlotLen : TornCell(s, n)[i] \in {Junk, s[i]}
BY SlotConstants DEF TornCell, Slots

-----------------------------------------------------------------------------
(* Types *)

ToolTyped == tool' \in [run : 1..Len(sdo), pc : {"start", "reset", "data", "poll", "exited"},
                        sent : Nat, old : 0..Len(sdo), offline : BOOLEAN]
ExitTyped == tool_exit' \in [1..Len(sdo) -> {"none", "ok", "comm", "reject", "killed"}]

LEMMA RunsTyped ==
  ASSUME SdoTypeOK
  PROVE  /\ Len(sdo) \in Nat \ {0} /\ DOMAIN sdo = 1..Len(sdo)
         /\ \A r \in 1..Len(sdo) : sdo[r].good \in BOOLEAN /\ sdo[r].size \in Nat \ {0}
<1>1. sdo \in Seq([good : BOOLEAN, size : Nat \ {0}]) /\ sdo # <<>>
  BY SdoAssumption DEF SdoTypeOK
<1>2. Len(sdo) \in Nat /\ DOMAIN sdo = 1..Len(sdo) /\ Len(sdo) # 0
  BY <1>1, EmptySeq
<1>3. \A r \in 1..Len(sdo) : sdo[r] \in [good : BOOLEAN, size : Nat \ {0}]
  <2> DEFINE S == [good : BOOLEAN, size : Nat \ {0}]
  <2>1. sdo \in Seq(S)
    BY <1>1
  <2> HIDE DEF S
  <2>2. \A r \in 1..Len(sdo) : sdo[r] \in S
    BY <2>1, ElementOfSeq
  <2> QED
    BY <2>2 DEF S
<1> QED
  BY <1>2, <1>3

LEMMA InitTyped == SdoInit => SdoTypeOK
<1> SUFFICES ASSUME SdoInit PROVE SdoTypeOK
  OBVIOUS
<1>1. sdo \in Seq([good : BOOLEAN, size : Nat \ {0}]) /\ sdo # <<>>
  BY SdoAssumption DEF SdoInit
<1>2. Len(sdo) \in Nat /\ DOMAIN sdo = 1..Len(sdo) /\ Len(sdo) # 0
  BY <1>1, EmptySeq
<1>3. slot1 \in [1..SlotLen -> Nat \X Nat]
  BY SlotConstants DEF SdoInit, Slots, Chunk
<1>4. tool \in [run : 1..Len(sdo), pc : {"start", "reset", "data", "poll", "exited"},
               sent : Nat, old : 0..Len(sdo), offline : BOOLEAN]
  <2>1. tool = [run |-> 1, pc |-> "start", sent |-> 0, old |-> 0, offline |-> FALSE]
    BY DEF SdoInit, Started, Factory
  <2> QED
    BY <1>2, <2>1
<1>5. tool_exit \in [1..Len(sdo) -> {"none", "ok", "comm", "reject", "killed"}]
  BY <1>2 DEF SdoInit
<1>6. /\ sdo \in Sdo /\ fw_state = "IDLE" /\ lock = "none" /\ fw_reboot_work = "idle"
      /\ sdo_lock_held = FALSE /\ up = TRUE /\ swap = FALSE /\ clean = TRUE
  BY DEF SdoInit
<1>6b. blank \in BOOLEAN
  BY DEF SdoInit, RoomFor
<1>7. sdo_written \in Nat /\ other \in 0..2 /\ running \in 0..Len(sdo)
  BY <1>2 DEF SdoInit, Factory
<1> QED
  BY <1>3, <1>4, <1>5, <1>6, <1>6b, <1>7, Zenon DEF SdoTypeOK

(* The handlers of fw_download.c. *)
LEMMA HandlerTyped ==
  ASSUME SdoTypeOK, NEW ok \in BOOLEAN, NEW x \in Chunk,
         \/ CtrlReset(ok) \/ CtrlConfirm(ok) \/ DataWrite(x, ok)
  PROVE  /\ fw_state' \in {"IDLE", "READY", "STREAMING", "CONFIRMED", "ERROR"}
         /\ lock' \in {"none", "SDO", "UDP"} /\ fw_reboot_work' \in {"idle", "scheduled"}
         /\ sdo_written' \in Nat
         /\ sdo_lock_held' \in BOOLEAN /\ swap' \in BOOLEAN /\ clean' \in BOOLEAN
         /\ blank' \in BOOLEAN /\ slot1' \in Slots
<1> USE DEF Mishap, Smooth, TryLock, Unlock, GivesUp
<1>1. /\ fw_state' \in {fw_state, "READY", "STREAMING", "CONFIRMED", "ERROR"}
      /\ lock' \in {lock, "none", "SDO"} /\ fw_reboot_work' \in {fw_reboot_work, "scheduled"}
      /\ sdo_written' \in {sdo_written, 0, sdo_written + 1}
  BY DEF CtrlReset, CtrlConfirm, DataWrite, devVars
<1>2. /\ sdo_lock_held' \in BOOLEAN /\ swap' \in BOOLEAN /\ clean' \in BOOLEAN
      /\ blank' \in BOOLEAN
  BY DEF CtrlReset, CtrlConfirm, DataWrite, devVars, SdoTypeOK
<1>3. slot1' \in Slots
  <2>1. slot1 \in Slots /\ sdo_written \in Nat
    BY DEF SdoTypeOK, Chunk, Slots
  <2>2. CASE DataWrite(x, ok)
    <3>1. CASE slot1' \in {slot1, TornCell(slot1, sdo_written)}
      BY <2>1, <3>1, SlotTorn
    <3>2. CASE sdo_written < SlotLen /\ slot1' = Programmed(slot1, sdo_written, x)
      BY <2>1, <3>2, SlotWritten DEF Written
    <3> QED
      BY <2>2, <3>1, <3>2 DEF DataWrite
  <2> QED
    BY <2>1, <2>2 DEF CtrlReset, CtrlConfirm
<1> QED
  BY <1>1, <1>2, <1>3 DEF SdoTypeOK

LEMMA ToolStepTyped ==
  ASSUME SdoTypeOK,
         \/ \E pc \in {"reset", "data", "poll"} : GoesTo(pc)
         \/ \E code \in {"ok", "comm", "reject", "killed"} : Exits(code)
         \/ tool' = [tool EXCEPT !.offline = TRUE] /\ UNCHANGED tool_exit
         \/ tool' = [tool EXCEPT !.sent = @ + 1] /\ UNCHANGED tool_exit
         \/ tool' = [tool EXCEPT !.pc = "reset", !.old = running] /\ UNCHANGED tool_exit
         \/ UNCHANGED <<tool, tool_exit>>
  PROVE  ToolTyped /\ ExitTyped
<1> DEFINE T == [run : 1..Len(sdo), pc : {"start", "reset", "data", "poll", "exited"},
                 sent : Nat, old : 0..Len(sdo), offline : BOOLEAN]
<1>1. /\ tool \in T /\ running \in 0..Len(sdo)
      /\ tool_exit \in [1..Len(sdo) -> {"none", "ok", "comm", "reject", "killed"}]
  BY DEF SdoTypeOK
<1>2. ASSUME NEW pc \in {"reset", "data", "poll", "exited"} PROVE [tool EXCEPT !.pc = pc] \in T
  BY <1>1
<1>3. [tool EXCEPT !.offline = TRUE] \in T
  BY <1>1
<1>4. [tool EXCEPT !.sent = @ + 1] \in T
  BY <1>1
<1>5. [tool EXCEPT !.pc = "reset", !.old = running] \in T
  BY <1>1
<1>6. tool' \in T
  BY <1>1, <1>2, <1>3, <1>4, <1>5 DEF GoesTo, Exits
<1>7. tool_exit' \in [1..Len(sdo) -> {"none", "ok", "comm", "reject", "killed"}]
  BY <1>1 DEF GoesTo, Exits
<1> QED
  BY <1>6, <1>7 DEF ToolTyped, ExitTyped

LEMMA ToolTypeStep == SdoTypeOK /\ ToolNext => SdoTypeOK'
<1> SUFFICES ASSUME SdoTypeOK, ToolNext PROVE SdoTypeOK'
  OBVIOUS
<1> USE DEF Silence, Mishap, Smooth
<1>a. ASSUME Untouched, UNCHANGED sdo, ToolTyped, ExitTyped, clean' \in BOOLEAN,
             blank' \in BOOLEAN
      PROVE  SdoTypeOK'
  BY <1>a DEF SdoTypeOK, Untouched, devVars, ToolTyped, ExitTyped
<1>b. ASSUME DevOnly, ToolTyped, ExitTyped, NEW ok \in BOOLEAN, NEW x \in Chunk,
             CtrlReset(ok) \/ CtrlConfirm(ok) \/ DataWrite(x, ok)
      PROVE  SdoTypeOK'
  BY <1>b, HandlerTyped DEF SdoTypeOK, DevOnly, ToolTyped, ExitTyped, Slots, Chunk
<1>c. <<0, 0>> \in Chunk /\ \A n \in Nat : <<tool.run, n>> \in Chunk
  BY RunsTyped DEF Chunk, SdoTypeOK
<1>1. CASE ReadOld
  <2>1. ToolTyped /\ ExitTyped
    BY <1>1, ToolStepTyped DEF ReadOld
  <2> QED
    BY <1>1, <1>a, <2>1 DEF ReadOld, Untouched, SdoTypeOK
<1>2. CASE ToolResets
  <2>1. ToolTyped /\ ExitTyped
    BY <1>2, ToolStepTyped DEF ToolResets, SdoAnswer
  <2> QED
    BY <1>2, <1>a, <1>b, <1>c, <2>1 DEF ToolResets, Untouched, SdoTypeOK
<1>3. CASE ToolData
  <2>1. ToolTyped /\ ExitTyped
    BY <1>3, ToolStepTyped DEF ToolData
  <2>2. <<tool.run, tool.sent + 1>> \in Chunk
    BY <1>c DEF SdoTypeOK
  <2> QED
    BY <1>3, <1>a, <1>b, <2>1, <2>2 DEF ToolData, Untouched, SdoTypeOK
<1>4. CASE ToolConfirms
  <2>1. ToolTyped /\ ExitTyped
    BY <1>4, ToolStepTyped DEF ToolConfirms, SdoAnswer
  <2> QED
    BY <1>4, <1>a, <1>b, <1>c, <2>1 DEF ToolConfirms, Untouched, SdoTypeOK
<1>5. CASE Poll \/ Deadline \/ Killed
  <2>1. ToolTyped /\ ExitTyped
    BY <1>5, ToolStepTyped DEF Poll, Deadline, Killed
  <2> QED
    BY <1>5, <1>a, <2>1 DEF Poll, Deadline, Killed, Untouched, SdoTypeOK
<1>6. CASE NextRun
  <2>1. ToolTyped
    BY <1>6, RunsTyped DEF NextRun, Started, Factory, ToolTyped, SdoTypeOK
  <2>2. ExitTyped
    BY <1>6 DEF NextRun, ExitTyped, SdoTypeOK
  <2> QED
    BY <1>6, <1>a, <2>1, <2>2 DEF NextRun, Untouched, SdoTypeOK, RoomFor
<1> QED
  BY <1>1, <1>2, <1>3, <1>4, <1>5, <1>6 DEF ToolNext

DeviceNext == NmtReset \/ Reboots \/ PowerCut \/ McuBoots \/ OtherStarts \/ OtherWrites \/ OtherEnds \/ Meddles

(* What the start of another channel's session erases, and what it leaves. *)
OthersOwn ==
  /\ up /\ lock = "none" /\ lock' = "UDP" /\ other' = 1 /\ swap' \in {swap, FALSE}
  /\ clean' = FALSE /\ UNCHANGED <<blank, fw_reboot_work>>
  /\ UNCHANGED <<sdo, tool, tool_exit, fw_state, sdo_written, sdo_lock_held, up, running>>

LEMMA OtherErases ==
  ASSUME SdoTypeOK, OtherStarts
  PROVE  OthersOwn /\ slot1' \in Slots /\ \A i \in 1..SlotLen : slot1'[i] \in {Blank, slot1[i]}
<1>1. OthersOwn
  BY DEF OtherStarts, OthersOwn, OtherOnly, Mishap, TryLock, toolVars
<1>2. PICK n \in 0..SlotLen : slot1' = [i \in 1..SlotLen |-> IF i <= n THEN Blank ELSE slot1[i]]
  BY DEF OtherStarts
<1>3. slot1 \in Slots /\ Blank \in Chunk
  BY SlotConstants DEF SdoTypeOK, Slots, Chunk
<1>4. \A i \in 1..SlotLen : slot1[i] \in Chunk
  BY <1>3 DEF Slots
<1> QED
  BY <1>1, <1>2, <1>3, <1>4 DEF Slots

LEMMA DeviceTypeStep == SdoTypeOK /\ DeviceNext => SdoTypeOK'
<1> SUFFICES ASSUME SdoTypeOK, DeviceNext PROVE SdoTypeOK'
  OBVIOUS
<1> USE DEF Mishap, Smooth, RamGone, OtherOnly, TryLock, Unlock, GivesUp
<1> DEFINE Rest == NmtReset \/ Reboots \/ PowerCut \/ McuBoots \/ OtherWrites \/ OtherEnds \/ Meddles
<1>o. OtherStarts => OthersOwn /\ slot1' \in Slots
  BY OtherErases
<1>r. OtherStarts \/ Rest
  BY DEF DeviceNext
<1> HIDE DEF Rest
<1>a. UNCHANGED <<sdo, tool, tool_exit>>
  <2>1. CASE Rest
    BY <2>1 DEF Rest, NmtReset, Reboots, PowerCut, McuBoots, OtherWrites, OtherEnds, Meddles, toolVars
  <2> QED
    BY <1>o, <1>r, <2>1 DEF OthersOwn
<1>b. /\ fw_state' \in {fw_state, "IDLE", "READY", "ERROR"}
      /\ lock' \in {lock, "none", "UDP"} /\ fw_reboot_work' \in {fw_reboot_work, "idle"}
      /\ sdo_written' \in {sdo_written, 0} /\ other' \in 0..2
  <2>1. CASE Rest
    BY <2>1 DEF Rest, NmtReset, Reboots, PowerCut, McuBoots, OtherWrites, OtherEnds, Meddles, devVars,
           SdoTypeOK
  <2>2. CASE OthersOwn
    <3>1. fw_state' = fw_state /\ lock' = "UDP" /\ fw_reboot_work' = fw_reboot_work
      BY <2>2, Zenon DEF OthersOwn
    <3>2. sdo_written' = sdo_written /\ other' = 1
      BY <2>2, Zenon DEF OthersOwn
    <3> QED
      BY ONLY <3>1, <3>2
  <2> QED
    BY <1>o, <1>r, <2>1, <2>2
<1>c. /\ sdo_lock_held' \in BOOLEAN /\ up' \in BOOLEAN /\ swap' \in BOOLEAN
      /\ clean' \in BOOLEAN /\ blank' \in BOOLEAN
  <2>1. CASE Rest
    BY <2>1 DEF Rest, NmtReset, Reboots, PowerCut, McuBoots, OtherWrites, OtherEnds, Meddles, devVars,
           SdoTypeOK
  <2> QED
    BY <1>o, <1>r, <2>1 DEF OthersOwn, SdoTypeOK
<1>d. slot1' \in Slots
  <2>1. slot1 \in Slots
    BY DEF SdoTypeOK, Slots, Chunk
  <2>2. CASE McuBoots
    BY <2>1, <2>2, SlotConstants DEF McuBoots
  <2>4. CASE OtherWrites
    <3>1. slot1' = [slot1 EXCEPT ![1] = Junk]
      BY <2>4 DEF OtherWrites
    <3> QED
      BY <2>1, <3>1, SlotConstants DEF Slots
  <2>5. CASE NmtReset \/ Reboots \/ PowerCut \/ OtherEnds \/ Meddles
    BY <2>1, <2>5 DEF Rest, NmtReset, Reboots, PowerCut, OtherEnds, Meddles
  <2> QED
    BY <1>o, <1>r, <2>2, <2>4, <2>5 DEF Rest
<1>e. running' \in 0..Len(sdo)
  <2>1. CASE Rest
    BY <2>1, RunsTyped DEF Rest, NmtReset, Reboots, PowerCut, McuBoots, OtherWrites, OtherEnds, Meddles,
           SdoTypeOK
  <2> QED
    BY <1>o, <1>r, <2>1 DEF OthersOwn, SdoTypeOK
<1> QED
  BY <1>a, <1>b, <1>c, <1>d, <1>e DEF SdoTypeOK, Slots, Chunk

LEMMA StepTyped == SdoTypeOK /\ [SdoNext]_sdoVars => SdoTypeOK'
<1>1. SdoTypeOK /\ UNCHANGED sdoVars => SdoTypeOK'
  BY DEF SdoTypeOK, sdoVars, toolVars, devVars
<1> QED
  BY <1>1, ToolTypeStep, DeviceTypeStep DEF SdoNext, DeviceNext

(* Every variable keeps its type.                                          *)
THEOREM TypeCorrect == SdoSpec => []SdoTypeOK
BY InitTyped, StepTyped, PTL DEF SdoSpec

-----------------------------------------------------------------------------
(* The lock.  fw_download.c believes to hold it exactly when it does, has  *)
(* it while a download is open, and a session of another channel has it.   *)

LockInv ==
  /\ sdo_lock_held <=> lock = "SDO"
  /\ fw_state \in {"READY", "STREAMING"} => sdo_lock_held
  /\ other > 0 => lock = "UDP"

LEMMA LockHandler ==
  ASSUME SdoTypeOK, LockInv, UNCHANGED other, NEW ok, NEW x,
         CtrlReset(ok) \/ CtrlConfirm(ok) \/ DataWrite(x, ok)
  PROVE  LockInv'
<1> USE DEF SdoTypeOK, LockInv, TryLock, Unlock, GivesUp, devVars
<1>1. CASE CtrlReset(ok)
  <2>1. \/ UNCHANGED devVars
        \/ lock' = "SDO" /\ sdo_lock_held' = TRUE /\ (sdo_lock_held \/ lock = "none")
        \/ /\ lock' = "none" /\ sdo_lock_held' = FALSE /\ fw_state' = "ERROR"
           /\ sdo_lock_held \/ lock = "none"
    BY <1>1 DEF CtrlReset
  <2>2. sdo_lock_held \/ lock = "none" => ~(other > 0)
    OBVIOUS
  <2> QED
    BY <2>1, <2>2
<1>2. CASE CtrlConfirm(ok)
  BY <1>2 DEF CtrlConfirm
<1>3. CASE DataWrite(x, ok)
  BY <1>3 DEF DataWrite
<1> QED
  BY <1>1, <1>2, <1>3

LEMMA LockTool ==
  ASSUME SdoTypeOK, LockInv, ToolNext
  PROVE  LockInv'
<1>1. ASSUME UNCHANGED devVars, UNCHANGED other PROVE LockInv'
  BY <1>1 DEF devVars, LockInv
<1>2. CASE ToolResets \/ ToolData \/ ToolConfirms
  BY <1>1, <1>2, LockHandler DEF ToolResets, ToolData, ToolConfirms, DevOnly, Untouched
<1>3. CASE ReadOld \/ Poll \/ Deadline \/ Killed \/ NextRun
  BY <1>1, <1>3 DEF ReadOld, Poll, Deadline, Killed, NextRun, Untouched
<1> QED
  BY <1>2, <1>3 DEF ToolNext

LEMMA LockDevice ==
  ASSUME SdoTypeOK, LockInv, DeviceNext
  PROVE  LockInv'
<1> USE DEF SdoTypeOK, LockInv, TryLock, Unlock, GivesUp, OtherOnly
<1>1. CASE NmtReset \/ McuBoots
  BY <1>1 DEF NmtReset, McuBoots, devVars
<1>2. CASE Reboots \/ PowerCut
  BY <1>2 DEF Reboots, PowerCut, RamGone
<1>3. CASE OtherStarts
  <2>1. OthersOwn
    BY <1>3, OtherErases
  <2> QED
    BY <2>1 DEF OthersOwn
<1>5. CASE OtherWrites \/ OtherEnds
  BY <1>5 DEF OtherWrites, OtherEnds
<1>4. CASE Meddles
  BY <1>4 DEF Meddles
<1> QED
  BY <1>1, <1>2, <1>3, <1>4, <1>5 DEF DeviceNext

LEMMA LockStep == SdoTypeOK /\ LockInv /\ [SdoNext]_sdoVars => LockInv'
<1>1. LockInv /\ UNCHANGED sdoVars => LockInv'
  BY DEF LockInv, sdoVars, devVars
<1> QED
  BY <1>1, LockTool, LockDevice DEF SdoNext, DeviceNext

(* The lock invariant, which needs the types alone.                        *)
THEOREM LockCorrect == SdoSpec => [](SdoTypeOK /\ LockInv)
<1>1. SdoInit => SdoTypeOK /\ LockInv
  BY InitTyped DEF SdoInit, LockInv
<1>2. SdoTypeOK /\ LockInv /\ [SdoNext]_sdoVars => (SdoTypeOK /\ LockInv)'
  BY StepTyped, LockStep
<1> QED
  BY <1>1, <1>2, PTL DEF SdoSpec

(* slot1 is never open for a download over CANopen while a session of      *)
(* another channel is, for any sequence of failures, resets and restarts   *)
(* (fw_download.c:15).                                                     *)
THEOREM SlotOfOneCorrect == SdoSpec => []SlotOfOne
<1>1. SdoTypeOK /\ LockInv => SlotOfOne
  BY DEF SlotOfOne, LockInv
<1> QED
  BY <1>1, LockCorrect, PTL

-----------------------------------------------------------------------------
(* What the slot holds *)

(* Nothing in the slot, and nothing that runs, is of a later run of the    *)
(* tool than the present one, nor of the present one before its data.      *)

UpTo(s, r) == \A i \in 1..SlotLen : s[i][1] <= r

SourceInv ==
  /\ UpTo(slot1, tool.run) /\ running <= tool.run /\ tool.old < tool.run
  /\ tool.pc \in {"start", "reset"} => UpTo(slot1, tool.run - 1) /\ running <= tool.run - 1

LEMMA ToolIs ==
  ASSUME SdoTypeOK
  PROVE  /\ tool.run \in 1..Len(sdo) /\ tool.run \in Nat \ {0} /\ tool.sent \in Nat
         /\ tool.old \in Nat /\ tool.offline \in BOOLEAN /\ running \in Nat
         /\ tool.pc \in {"start", "reset", "data", "poll", "exited"}
         /\ slot1 \in Slots /\ \A i \in 1..SlotLen : slot1[i] \in Chunk /\ slot1[i][1] \in Nat
         /\ sdo_written \in Nat
<1>1. slot1 \in Slots
  BY DEF SdoTypeOK, Chunk, Slots
<1>2. \A i \in 1..SlotLen : slot1[i] \in Chunk
  BY <1>1 DEF Slots
<1>3. \A c \in Chunk : c[1] \in Nat
  BY DEF Chunk
<1>4. Len(sdo) \in Nat
  BY RunsTyped
<1> QED
  BY <1>1, <1>2, <1>3, <1>4 DEF SdoTypeOK

(* How a step moves the tool. *)
LEMMA ToolMoves ==
  ASSUME SdoTypeOK
  PROVE  /\ \A pc : GoesTo(pc) => /\ tool'.pc = pc
                                  /\ tool'.run = tool.run /\ tool'.old = tool.old
                                  /\ tool'.sent = tool.sent /\ tool'.offline = tool.offline
         /\ \A code : Exits(code) => /\ tool'.pc = "exited" /\ tool_exit'[tool.run] = code
                                     /\ tool'.run = tool.run /\ tool'.old = tool.old
                                     /\ tool'.sent = tool.sent /\ tool'.offline = tool.offline
BY DEF SdoTypeOK, GoesTo, Exits

LEMMA HandlerSlot ==
  ASSUME NEW ok, CtrlReset(ok) \/ CtrlConfirm(ok)
  PROVE  UNCHANGED slot1
BY DEF CtrlReset, CtrlConfirm

LEMMA DataSlot ==
  ASSUME SdoTypeOK, NEW ok, NEW x \in Chunk, NEW r \in Nat, x[1] <= r, UpTo(slot1, r), DataWrite(x, ok)
  PROVE  UpTo(slot1', r)
<1>1. CASE UNCHANGED slot1
  BY <1>1
<1>0. Junk[1] = 0
  BY DEF Junk, Factory
<1>2. CASE slot1' = TornCell(slot1, sdo_written)
  <2>1. \A i \in 1..SlotLen : slot1'[i] \in {Junk, slot1[i]}
    BY <1>2, SlotTorn, ToolIs
  <2> QED
    BY <1>0, <2>1 DEF UpTo
<1>3. CASE sdo_written < SlotLen /\ slot1' = Programmed(slot1, sdo_written, x)
  <2>1. Written(slot1', slot1, sdo_written, x)
    BY <1>3, SlotWritten, ToolIs
  <2>2. \A i \in 1..SlotLen : slot1'[i] \in {x, Junk, slot1[i]}
    BY <2>1 DEF Written
  <2> QED
    BY <1>0, <2>2 DEF UpTo
<1> QED
  BY <1>1, <1>2, <1>3 DEF DataWrite

LEMMA SourceTool ==
  ASSUME SdoTypeOK, SourceInv, ToolNext
  PROVE  SourceInv'
<1> DEFINE Same == UNCHANGED <<slot1, running>>
<1>a. ASSUME Same, tool'.run = tool.run, tool'.old = tool.old, tool'.pc \notin {"start", "reset"}
      PROVE  SourceInv'
  BY <1>a DEF SourceInv
<1>1. CASE ReadOld
  <2>1. Same
    BY <1>1 DEF ReadOld, Untouched
  <2>2. CASE Exits("comm")
    BY <1>a, <2>1, <2>2, ToolMoves
  <2>3. CASE tool' = [tool EXCEPT !.pc = "reset", !.old = running]
    <3>1. /\ tool'.run = tool.run /\ tool'.old = running /\ tool.pc = "start"
      BY <1>1, <2>3 DEF ReadOld, SdoTypeOK
    <3> QED
      BY <2>1, <3>1, ToolIs DEF SourceInv
  <2> QED
    BY <1>1, <2>2, <2>3 DEF ReadOld
<1>2. CASE ToolResets \/ ToolConfirms
  <2>1. Same
    BY <1>2, HandlerSlot DEF ToolResets, ToolConfirms, DevOnly, Untouched
  <2>2. \/ \E pc \in {"data", "poll"} : GoesTo(pc)
        \/ Exits("reject")
    BY <1>2 DEF ToolResets, ToolConfirms, SdoAnswer
  <2> QED
    BY <1>a, <2>1, <2>2, ToolMoves
<1>3. CASE ToolData
  <2>1. CASE Exits("reject") /\ Untouched
    BY <1>a, <2>1, ToolMoves DEF Untouched
  <2>2. CASE DevOnly /\ \E ok \in BOOLEAN : DataWrite(<<tool.run, tool.sent + 1>>, ok)
    <3> DEFINE x == <<tool.run, tool.sent + 1>>
    <3>1. x \in Chunk /\ x[1] <= tool.run /\ tool.run \in Nat
      BY ToolIs DEF Chunk
    <3>2. UpTo(slot1', tool.run)
      BY <2>2, <3>1, DataSlot DEF SourceInv
    <3>3. tool'.run = tool.run /\ tool'.old = tool.old /\ tool'.pc \in {"data", "exited"}
      BY <1>3, ToolMoves DEF ToolData, SdoTypeOK
    <3> QED
      BY <2>2, <3>2, <3>3 DEF DevOnly, SourceInv
  <2> QED
    BY <1>3, <2>1, <2>2 DEF ToolData
<1>4. CASE Poll \/ Deadline \/ Killed
  <2>1. Same
    BY <1>4 DEF Poll, Deadline, Killed, Untouched
  <2>2. \/ \E code : Exits(code)
        \/ tool.pc = "poll" /\ tool' \in {tool, [tool EXCEPT !.offline = TRUE]}
    BY <1>4 DEF Poll, Deadline, Killed
  <2>3. tool'.run = tool.run /\ tool'.old = tool.old /\ tool'.pc \in {"poll", "exited"}
    BY <2>2, ToolMoves DEF SdoTypeOK
  <2> QED
    BY <1>a, <2>1, <2>3
<1>5. CASE NextRun
  <2>1. Same /\ tool' = Started(tool.run + 1)
    BY <1>5 DEF NextRun, Untouched
  <2>2. tool'.run = tool.run + 1 /\ tool'.old = 0
    BY <2>1 DEF Started, Factory
  <2> QED
    BY <2>1, <2>2, ToolIs DEF SourceInv, UpTo
<1> QED
  BY <1>1, <1>2, <1>3, <1>4, <1>5 DEF ToolNext

(* The image MCUboot takes is one the slot holds. *)
LEMMA BootSource ==
  ASSUME SdoTypeOK, NEW b \in Nat, UpTo(slot1, b), NEW r \in 1..Len(sdo), Whole(r)
  PROVE  r <= b
<1>1. 1 \in 1..SlotLen /\ slot1[1] = <<r, 1>>
  BY RunsTyped, SlotConstants DEF Whole
<1> QED
  BY <1>1 DEF UpTo

LEMMA SourceDevice ==
  ASSUME SdoTypeOK, SourceInv, DeviceNext
  PROVE  SourceInv'
<1>0. UNCHANGED tool /\ tool.run - 1 \in Nat /\ tool.run \in Nat
  <2>1. CASE OtherStarts
    BY <2>1, OtherErases, ToolIs DEF OthersOwn
  <2>2. CASE ~OtherStarts
    BY <2>2, ToolIs DEF DeviceNext, NmtReset, Reboots, PowerCut, McuBoots, OtherWrites,
           OtherEnds, Meddles, toolVars, OtherOnly
  <2> QED
    BY <2>1, <2>2
<1>1. CASE NmtReset \/ Reboots \/ PowerCut \/ OtherEnds \/ Meddles
  BY <1>0, <1>1 DEF NmtReset, Reboots, PowerCut, OtherEnds, Meddles, OtherOnly, SourceInv
<1>b. /\ \A b \in Nat : UpTo(All(Blank), b) /\ UpTo(All(Junk), b)
      /\ Blank[1] = 0 /\ Junk[1] = 0
  BY DEF UpTo, All, Blank, Junk, Factory
<1>2. CASE McuBoots
  <2>1. CASE UNCHANGED running /\ slot1' \in {slot1, All(Blank)}
    BY <1>0, <1>b, <2>1 DEF SourceInv
  <2>2. CASE slot1' = All(Junk) /\ \E r \in 1..Len(sdo) : Whole(r) /\ running' = r
    <3>1. \A b \in Nat : UpTo(slot1', b)
      BY <1>b, <2>2
    <3>2. \A b \in Nat : UpTo(slot1, b) => running' <= b
      BY <2>2, BootSource
    <3> QED
      BY <1>0, <3>1, <3>2 DEF SourceInv
  <2> QED
    BY <1>2, <2>1, <2>2, RunsTyped DEF McuBoots
<1>3. CASE OtherStarts
  <2>1. OthersOwn /\ \A i \in 1..SlotLen : slot1'[i] \in {Blank, slot1[i]}
    BY <1>3, OtherErases
  <2>2. \A b \in Nat : UpTo(slot1, b) => UpTo(slot1', b)
    BY <1>b, <2>1 DEF UpTo
  <2> QED
    BY <1>0, <2>1, <2>2 DEF OthersOwn, SourceInv
<1>4. CASE OtherWrites
  <2>1. \A i \in 1..SlotLen : slot1'[i] \in {Junk, slot1[i]}
    BY <1>4, ToolIs DEF OtherWrites, Slots
  <2>2. \A b \in Nat : UpTo(slot1, b) => UpTo(slot1', b)
    BY <1>b, <2>1 DEF UpTo
  <2> QED
    BY <1>0, <1>4, <2>2 DEF OtherWrites, OtherOnly, SourceInv
<1> QED
  BY <1>1, <1>2, <1>3, <1>4 DEF DeviceNext

LEMMA SourceStep == SdoTypeOK /\ SourceInv /\ [SdoNext]_sdoVars => SourceInv'
<1>1. SourceInv /\ UNCHANGED sdoVars => SourceInv'
  BY DEF SourceInv, sdoVars, toolVars
<1> QED
  BY <1>1, SourceTool, SourceDevice DEF SdoNext, DeviceNext

-----------------------------------------------------------------------------
(* A run that nothing disturbs, over a slot that is blank where its image  *)
(* goes.  Up to the data the device is as the last run left it; the chunks *)
(* sent are then the chunks stored, what is left of the image finds blank  *)
(* cells, and the download is open; after the confirmation the image is armed, first with *)
(* the restart scheduled and then with the device down, until it runs.     *)

Stored(n) == n <= SlotLen /\ \A i \in 1..n : slot1[i] = <<tool.run, i>>
BlankFrom(n) == \A i \in 1..sdo[tool.run].size : i <= SlotLen /\ (i > n => slot1[i] = Blank)

Sending ==
  /\ sdo_written = tool.sent /\ tool.sent <= sdo[tool.run].size /\ Stored(tool.sent) /\ BlankFrom(tool.sent)
  /\ fw_state = "STREAMING" \/ (fw_state = "READY" /\ tool.sent = 0)

Armed ==
  /\ swap = TRUE /\ Stored(sdo[tool.run].size)
  /\ IF up THEN fw_reboot_work = "scheduled" /\ running = tool.old /\ ~tool.offline
           ELSE fw_reboot_work = "idle"

Installed == up /\ fw_reboot_work = "idle" /\ running = tool.run

OnItsWay ==
  /\ lock # "UDP"
  /\ tool.pc \in {"start", "reset", "data"} => up /\ fw_reboot_work = "idle" /\ ~tool.offline
  /\ tool.pc \in {"start", "reset"} => tool.sent = 0 /\ BlankFrom(0)
  /\ tool.pc \in {"reset", "data"} => running = tool.old
  /\ tool.pc = "data" => Sending
  /\ tool.pc = "poll" => Armed \/ Installed
  /\ tool.pc = "exited" => Installed /\ tool_exit[tool.run] = "ok"

CleanInv == clean /\ blank /\ sdo[tool.run].good => OnItsWay

Invs == SdoTypeOK /\ LockInv /\ SourceInv /\ CleanInv

(* The tool's steps in such a run.                                         *)
LEMMA CleanReadOld ==
  ASSUME Invs, OnItsWay, ReadOld, clean'
  PROVE  OnItsWay'
<1>1. /\ up /\ tool.pc = "start" /\ tool' = [tool EXCEPT !.pc = "reset", !.old = running]
      /\ UNCHANGED <<sdo, slot1, fw_reboot_work, lock, up, running>>
  BY DEF ReadOld, Silence, Mishap, Untouched, devVars, OnItsWay
<1>2. /\ tool'.pc = "reset" /\ tool'.old = running
      /\ tool'.sent = tool.sent /\ tool'.offline = tool.offline /\ tool'.run = tool.run
  BY <1>1 DEF Invs, SdoTypeOK
<1>3. BlankFrom(0)'
  BY <1>1, <1>2 DEF OnItsWay, BlankFrom
<1> QED
  BY <1>1, <1>2, <1>3 DEF OnItsWay

LEMMA CleanResets ==
  ASSUME Invs, OnItsWay, ToolResets, clean'
  PROVE  OnItsWay'
<1>1. up /\ tool.pc = "reset" /\ lock # "UDP" /\ tool.sent = 0 /\ BlankFrom(0) /\ running = tool.old
  BY DEF ToolResets, OnItsWay
<1>2. PICK ok \in BOOLEAN : DevOnly /\ CtrlReset(ok) /\ SdoAnswer(ok, "data")
  BY <1>1 DEF ToolResets, Silence, Mishap
<1>3. /\ ok /\ lock' = "SDO" /\ sdo_written' = 0 /\ fw_state' = "READY"
      /\ UNCHANGED <<fw_reboot_work, slot1>>
  BY <1>1, <1>2 DEF CtrlReset, Mishap, TryLock, Invs, SdoTypeOK, LockInv
<1>4. /\ tool'.pc = "data" /\ tool'.run = tool.run /\ tool'.sent = 0
      /\ tool'.old = tool.old /\ tool'.offline = tool.offline
  BY <1>1, <1>2, <1>3, ToolMoves DEF SdoAnswer, Invs
<1>5. UNCHANGED <<sdo, up, running>>
  BY <1>2 DEF DevOnly
<1>6. Stored(0)' /\ BlankFrom(0)'
  BY <1>1, <1>3, <1>4, <1>5, SlotConstants DEF Stored, BlankFrom
<1>7. Sending'
  BY <1>3, <1>4, <1>5, <1>6, RunsTyped, ToolIs DEF Sending, Invs
<1> QED
  BY <1>1, <1>3, <1>4, <1>5, <1>7 DEF OnItsWay

LEMMA CleanData ==
  ASSUME Invs, OnItsWay, ToolData, clean'
  PROVE  OnItsWay'
<1> PICK n \in Nat : n = tool.sent
  BY ToolIs DEF Invs
<1> DEFINE x == <<tool.run, n + 1>>
<1>1. up /\ tool.pc = "data" /\ n < sdo[tool.run].size /\ Sending
  BY DEF ToolData, OnItsWay
<1>2. n \in Nat /\ slot1 \in Slots /\ x \in Chunk /\ sdo[tool.run].size \in Nat /\ SlotLen \in Nat
  BY RunsTyped, ToolIs, SlotConstants DEF Invs, Chunk
<1>2a. n + 1 \in 1..sdo[tool.run].size /\ n + 1 > n
  BY <1>1, <1>2
<1>2b. n < SlotLen /\ slot1[n + 1] = Blank
  BY <1>1, <1>2, <1>2a DEF Sending, BlankFrom
<1>3. PICK ok \in BOOLEAN :
        /\ DevOnly /\ DataWrite(x, ok)
        /\ IF ok THEN tool' = [tool EXCEPT !.sent = @ + 1] /\ UNCHANGED tool_exit ELSE Exits("reject")
  BY <1>1 DEF ToolData, Silence, Mishap
<1>4. /\ ok /\ sdo_written' = n + 1 /\ fw_state' = "STREAMING" /\ UNCHANGED <<lock, fw_reboot_work>>
      /\ slot1' = Programmed(slot1, n, x)
  BY <1>1, <1>2b, <1>3 DEF DataWrite, Mishap, Sending, Accepts
<1>5. /\ tool'.pc = "data" /\ tool'.run = tool.run /\ tool'.sent = n + 1
      /\ tool'.old = tool.old /\ tool'.offline = tool.offline
  BY <1>1, <1>3, <1>4 DEF Invs, SdoTypeOK
<1>6. UNCHANGED <<sdo, up, running>>
  BY <1>3 DEF DevOnly
<1>7. slot1'[n + 1] = x /\ \A i \in 1..SlotLen : i # n + 1 => slot1'[i] = slot1[i]
  BY <1>2, <1>2b, <1>4, SlotWritten, SMTT(30) DEF Written
<1>8. Stored(n + 1)'
  <2>1. \A i \in 1..n : i \in 1..SlotLen /\ i # n + 1 /\ slot1[i] = <<tool.run, i>>
    BY <1>1, <1>2, <1>2b DEF Sending, Stored
  <2>2. \A i \in 1..n : slot1'[i] = <<tool.run, i>>
    BY <1>7, <2>1
  <2>3. \A i \in 1..(n + 1) : i \in 1..n \/ i = n + 1
    BY <1>2
  <2> QED
    BY <1>2, <1>2b, <1>5, <1>7, <2>2, <2>3 DEF Stored
<1>8b. BlankFrom(n + 1)'
  <2>1. \A i \in 1..sdo[tool.run].size : i <= SlotLen /\ (i > n => slot1[i] = Blank)
    BY <1>1 DEF Sending, BlankFrom
  <2>2. \A i \in 1..sdo[tool.run].size : i > n + 1 => i > n /\ i # n + 1 /\ i \in 1..SlotLen
    BY <1>2, <2>1
  <2>3. \A i \in 1..sdo[tool.run].size : i <= SlotLen /\ (i > n + 1 => slot1'[i] = Blank)
    BY <1>7, <2>1, <2>2
  <2> QED
    BY <1>5, <1>6, <2>3 DEF BlankFrom
<1>9. Sending'
  BY <1>1, <1>2, <1>4, <1>5, <1>6, <1>8, <1>8b DEF Sending
<1> QED
  BY <1>1, <1>4, <1>5, <1>6, <1>9 DEF OnItsWay

LEMMA CleanConfirms ==
  ASSUME Invs, OnItsWay, ToolConfirms, clean'
  PROVE  OnItsWay'
<1>1. up /\ tool.pc = "data" /\ tool.sent = sdo[tool.run].size /\ Sending
  BY DEF ToolConfirms, OnItsWay
<1>2. fw_state = "STREAMING" /\ running = tool.old /\ fw_reboot_work = "idle" /\ ~tool.offline
  BY <1>1, RunsTyped, ToolIs DEF Sending, OnItsWay, Invs
<1>3. PICK ok \in BOOLEAN : DevOnly /\ CtrlConfirm(ok) /\ SdoAnswer(ok, "poll")
  BY <1>1 DEF ToolConfirms, Silence, Mishap
<1>4. /\ ok /\ swap' = TRUE /\ fw_reboot_work' = "scheduled"
      /\ UNCHANGED <<lock, slot1>>
  <2>1. slot1[sdo_written] # Junk
    <3>1. sdo_written = tool.sent /\ Stored(tool.sent) /\ tool.sent \in 1..tool.sent
      BY <1>1, RunsTyped, ToolIs DEF Sending, Invs
    <3> QED
      BY <3>1, ToolIs DEF Stored, Junk, Factory, Invs
  <2> QED
    BY <1>2, <1>3, <2>1 DEF CtrlConfirm, Mishap
<1>5. /\ tool'.pc = "poll" /\ tool'.run = tool.run
      /\ tool'.old = tool.old /\ tool'.offline = tool.offline
  BY <1>3, <1>4, ToolMoves DEF SdoAnswer, Invs
<1>6. UNCHANGED <<sdo, up, running>>
  BY <1>3 DEF DevOnly
<1>7. Armed'
  BY <1>1, <1>2, <1>4, <1>5, <1>6 DEF Armed, Sending, Stored
<1> QED
  BY <1>4, <1>5, <1>7 DEF OnItsWay

LEMMA CleanPoll ==
  ASSUME Invs, OnItsWay, Poll, clean'
  PROVE  OnItsWay'
<1>1. tool.pc = "poll" /\ (Armed \/ Installed) /\ tool.old # tool.run
  BY ToolIs DEF Poll, OnItsWay, Invs, SourceInv
<1>2. UNCHANGED <<sdo, lock, fw_reboot_work, slot1, swap, up, running>>
  BY DEF Poll, Untouched, devVars
<1>3. CASE Installed
  <2>1. Exits("ok")
    BY <1>1, <1>3 DEF Poll, Silence, Mishap, Installed
  <2>2. tool'.pc = "exited" /\ tool'.run = tool.run /\ tool_exit'[tool.run] = "ok"
    BY <2>1, ToolMoves DEF Invs
  <2> QED
    BY <1>2, <1>3, <2>2 DEF OnItsWay, Installed
<1>4. CASE Armed
  <2>1. \/ UNCHANGED tool
        \/ ~up /\ tool' = [tool EXCEPT !.offline = TRUE]
    BY <1>4 DEF Poll, Silence, Mishap, Armed
  <2>2. CASE UNCHANGED tool
    BY <1>1, <1>2, <1>4, <2>2 DEF OnItsWay, Armed, Stored
  <2>3. CASE ~up /\ tool' = [tool EXCEPT !.offline = TRUE]
    <3>1. tool'.pc = "poll" /\ tool'.run = tool.run
      BY <1>1, <2>3 DEF Invs, SdoTypeOK
    <3>2. Armed'
      BY <1>2, <1>4, <2>3, <3>1 DEF Armed, Stored
    <3> QED
      BY <1>2, <3>1, <3>2 DEF OnItsWay
  <2> QED
    BY <2>1, <2>2, <2>3
<1> QED
  BY <1>1, <1>3, <1>4

LEMMA NoDeadline ==
  ASSUME Invs, OnItsWay, Deadline \/ Killed, clean'
  PROVE  FALSE
<1>1. tool.pc = "poll" /\ (Armed \/ Installed) /\ tool.old # tool.run
  BY ToolIs DEF Deadline, Killed, Mishap, OnItsWay, Invs, SourceInv
<1> QED
  BY <1>1 DEF Deadline, Killed, Mishap, Armed, Installed

LEMMA CleanNextRun ==
  ASSUME Invs, NextRun, clean', blank'
  PROVE  OnItsWay'
<1>1. /\ tool'.pc = "start" /\ tool'.sent = 0 /\ tool'.offline = FALSE
      /\ up /\ fw_reboot_work = "idle" /\ lock # "UDP"
  BY DEF NextRun, Started, Invs, SdoTypeOK
<1>2. UNCHANGED <<sdo, slot1, up, fw_reboot_work, lock>> /\ tool'.run = tool.run + 1
  BY DEF NextRun, Untouched, devVars, Started
<1>3. RoomFor(tool.run + 1)
  BY DEF NextRun
<1>4. BlankFrom(0)'
  BY <1>2, <1>3 DEF BlankFrom, RoomFor
<1> QED
  BY <1>1, <1>2, <1>4 DEF OnItsWay

(* The device in such a run. *)
LEMMA CleanReboots ==
  ASSUME Invs, OnItsWay, Reboots
  PROVE  OnItsWay'
<1>1. up /\ fw_reboot_work = "scheduled"
  BY DEF Reboots, OnItsWay
<1>2. tool.pc = "poll" /\ Armed
  BY <1>1, ToolIs DEF OnItsWay, Installed, Invs
<1>3. lock' = "none" /\ fw_reboot_work' = "idle" /\ ~up' /\ UNCHANGED <<sdo, tool, slot1, swap>>
  BY DEF Reboots, RamGone, toolVars
<1>4. Armed'
  BY <1>2, <1>3 DEF Armed, Stored
<1> QED
  BY <1>2, <1>3, <1>4 DEF OnItsWay

LEMMA CleanBoots ==
  ASSUME Invs, OnItsWay, sdo[tool.run].good, McuBoots
  PROVE  OnItsWay'
<1>1. ~up
  BY DEF McuBoots
<1>2. tool.pc = "poll" /\ Armed
  BY <1>1, ToolIs DEF OnItsWay, Installed, Invs
<1>3. DOMAIN sdo = 1..Len(sdo) /\ tool.run \in 1..Len(sdo) /\ sdo[tool.run].size \in Nat \ {0}
  BY RunsTyped, ToolIs DEF Invs
<1>4. Whole(tool.run)
  BY <1>2, <1>3 DEF Armed, Stored, Whole
<1>5. ASSUME NEW r \in 1..Len(sdo), Whole(r) PROVE r = tool.run
  <2>1. slot1[1] = <<r, 1>> /\ slot1[1] = <<tool.run, 1>>
    BY <1>3, <1>4, <1>5, RunsTyped DEF Whole, Invs
  <2> QED
    BY <2>1
<1>6. running' = tool.run
  BY <1>2, <1>3, <1>4, <1>5 DEF McuBoots, Armed
<1>7. up' /\ UNCHANGED <<tool, lock, fw_reboot_work>>
  BY DEF McuBoots, toolVars, devVars, Invs, SdoTypeOK
<1>8. Installed'
  BY <1>1, <1>2, <1>6, <1>7 DEF Armed, Installed
<1> QED
  BY <1>2, <1>7, <1>8 DEF OnItsWay

LEMMA CleanStep == Invs /\ [SdoNext]_sdoVars => CleanInv'
<1> SUFFICES ASSUME Invs, [SdoNext]_sdoVars, clean', blank', sdo'[tool'.run].good PROVE OnItsWay'
  BY DEF CleanInv
<1>1. CASE UNCHANGED sdoVars
  BY <1>1 DEF sdoVars, toolVars, devVars, Invs, CleanInv, OnItsWay, Sending, Armed, Installed, Stored, BlankFrom
<1>2. CASE NextRun
  BY <1>2, CleanNextRun
<1>3. CASE SdoNext /\ ~NextRun
  <2>1. tool'.run = tool.run /\ UNCHANGED sdo
    <3>1. CASE DeviceNext
      BY <3>1 DEF DeviceNext, NmtReset, Reboots, PowerCut, McuBoots, OtherStarts, OtherWrites,
             OtherEnds, Meddles, toolVars, OtherOnly
    <3>2. CASE ToolNext
      <4>1. UNCHANGED sdo
        BY <1>3, <3>2 DEF ToolNext, ReadOld, ToolResets, ToolData, ToolConfirms, Poll, Deadline,
               Killed, DevOnly, Untouched
      <4>2. \/ \E pc : GoesTo(pc)
            \/ \E code : Exits(code)
            \/ UNCHANGED tool
            \/ tool' = [tool EXCEPT !.offline = TRUE]
            \/ tool' = [tool EXCEPT !.sent = @ + 1]
            \/ tool' = [tool EXCEPT !.pc = "reset", !.old = running]
        BY <1>3, <3>2 DEF ToolNext, ReadOld, ToolResets, ToolData, ToolConfirms, Poll, Deadline,
               Killed, SdoAnswer
      <4>3. tool'.run = tool.run
        BY <4>2, ToolMoves DEF Invs, SdoTypeOK
      <4> QED
        BY <4>1, <4>3
    <3> QED
      BY <1>3, <3>1, <3>2 DEF SdoNext, DeviceNext
  <2>2. clean /\ blank
    BY <1>3 DEF SdoNext, ToolNext, ReadOld, ToolResets, ToolData, ToolConfirms, Poll, Deadline,
           Killed, CtrlReset, DataWrite, CtrlConfirm, Silence, NmtReset, Reboots, PowerCut,
           McuBoots, OtherStarts, OtherWrites, OtherEnds, Meddles, Mishap, Smooth
  <2>3. OnItsWay /\ sdo[tool.run].good
    BY <2>1, <2>2 DEF Invs, CleanInv
  <2>4. CASE ToolNext
    BY <1>3, <2>3, <2>4, CleanReadOld, CleanResets, CleanData, CleanConfirms, CleanPoll, NoDeadline
       DEF ToolNext
  <2>5. CASE Reboots \/ McuBoots
    BY <2>3, <2>5, CleanReboots, CleanBoots
  <2>6. CASE NmtReset \/ PowerCut \/ OtherStarts \/ Meddles
    BY <2>6 DEF NmtReset, PowerCut, OtherStarts, Meddles, Mishap
  <2>7. CASE OtherWrites \/ OtherEnds
    <3>1. other > 0
      BY <2>7 DEF OtherWrites, OtherEnds
    <3> QED
      BY <2>3, <3>1 DEF Invs, LockInv, OnItsWay
  <2> QED
    BY <1>3, <2>4, <2>5, <2>6, <2>7 DEF SdoNext
<1> QED
  BY <1>1, <1>2, <1>3

LEMMA InvsInit == SdoInit => Invs
<1> SUFFICES ASSUME SdoInit PROVE Invs
  OBVIOUS
<1>1. /\ tool.run = 1 /\ tool.pc = "start" /\ tool.sent = 0 /\ tool.old = 0 /\ tool.offline = FALSE
      /\ running = 0 /\ up /\ fw_reboot_work = "idle" /\ lock = "none" /\ blank = RoomFor(1)
  BY DEF SdoInit, Started, Factory
<1>2. UpTo(slot1, 0) /\ UpTo(slot1, 1)
  <2>1. \A i \in 1..SlotLen : slot1[i] \in {<<0, 0>>, <<0, 1>>}
    BY DEF SdoInit, All, Blank, Junk, Factory
  <2>2. \A i \in 1..SlotLen : slot1[i][1] = 0
    BY <2>1
  <2> QED
    BY <2>2 DEF UpTo
<1>2b. blank => BlankFrom(0)
  BY <1>1 DEF BlankFrom, RoomFor
<1>3. SourceInv /\ CleanInv
  BY <1>1, <1>2, <1>2b DEF SourceInv, CleanInv, OnItsWay
<1>4. LockInv
  BY DEF SdoInit, LockInv
<1> QED
  BY <1>3, <1>4, InitTyped DEF Invs

(* The conjunction of the invariants above is inductive.                   *)
THEOREM InvsCorrect == SdoSpec => []Invs
<1>1. Invs /\ [SdoNext]_sdoVars => Invs'
  BY StepTyped, LockStep, SourceStep, CleanStep DEF Invs
<1> QED
  BY <1>1, InvsInit, PTL DEF SdoSpec

(* A run of the tool that nothing disturbs, over a slot that is blank      *)
(* where its image goes, installs it, whatever the runs before it left in  *)
(* fw_download.c, in the swap request and in the lock.                     *)
THEOREM CleanRunCorrect == SdoSpec => []CleanRunSucceeds
<1>1. Invs => CleanRunSucceeds
  BY DEF Invs, CleanInv, OnItsWay, Installed, CleanRunSucceeds
<1> QED
  BY <1>1, InvsCorrect, PTL

-----------------------------------------------------------------------------
(* GwBox: RAM, flash and radio of the gateway *)

Op == {"rf", "ip", "port", "host", "reset"}
Params == [rf24_addr : Nat \X Nat, net : [Field -> Nat]]
Work0 == [op : Op \cup {"none"}, at : Nat, value : Nat \cup (Nat \X Nat)]
Place(f) == CASE f = "ip_addr" -> 1 [] f = "data_port" -> 2 [] f = "host_ip" -> 3 [] f = "host_port" -> 4

JobOK(t) ==
  /\ job[t].op = "none" => job[t] = NoJob
  /\ job[t].op # "none" => job[t].at \in 1..Len(Steps(t, job[t].op))
  /\ job[t].op = "rf" => job[t].value \in Nat \X Nat
  /\ job[t].op # "rf" => job[t].value \in Nat

GwTypeOK ==
  /\ orders \in Seq(Order) /\ gw_params \in Params /\ saved \in Params /\ chipAddr \in Nat \X Nat
  /\ fcbGone \in BOOLEAN /\ ready \in BOOLEAN /\ started \in BOOLEAN
  /\ job \in [Setter -> Work0] /\ \A t \in Setter : JobOK(t)

(* What a thread has still to do.                                          *)
WillSave(t) == job[t].op = "rf" /\ job[t].at <= (IF t = "cfg" THEN 3 ELSE 4)
WillConfig(t) == job[t].op = "rf" /\ job[t].at <= (IF t = "cfg" THEN 4 ELSE 3)
WillStore(t, f) ==
  \/ job[t].op = "host" /\ job[t].at <= 2 + Place(f)
  \/ job[t].op \in {"ip", "port"} /\ job[t].at <= 1 + Place(f)

(* Wherever RAM differs from flash or the radio, somebody will see to it.  *)
AheadInv ==
  /\ ~fcbGone /\ saved.rf24_addr # gw_params.rf24_addr => \E t \in Setter : WillSave(t)
  /\ ~fcbGone => \A f \in Field : saved.net[f] # gw_params.net[f] => \E t \in Setter : WillStore(t, f)
  /\ started /\ ready /\ chipAddr # gw_params.rf24_addr => \E t \in Setter : WillConfig(t)

GwBoxInv == GwTypeOK /\ AheadInv

LEMMA StepsAre ==
  ASSUME NEW t \in Setter
  PROVE  /\ Len(Steps(t, "rf")) = 4 /\ Len(Steps(t, "host")) = 6
         /\ Len(Steps(t, "ip")) = 5 /\ Len(Steps(t, "port")) = 5
         /\ Len(Steps(t, "reset")) = (IF t = "cfg" THEN 2 ELSE 1)
         /\ Steps(t, "rf") = IF t = "cfg" THEN <<"copy1", "copy2", "saverf", "config">>
                             ELSE <<"copy1", "copy2", "config", "saverf">>
         /\ Steps(t, "host") = <<"host_ip", "host_port", "saveip_addr", "savedata_port", "savehost_ip", "savehost_port">>
         /\ Steps(t, "ip") = <<"ip_addr", "saveip_addr", "savedata_port", "savehost_ip", "savehost_port">>
         /\ Steps(t, "port") = <<"data_port", "saveip_addr", "savedata_port", "savehost_ip", "savehost_port">>
         /\ Steps(t, "reset") = IF t = "cfg" THEN <<"erase", "reboot">> ELSE <<"erase">>
BY DEF Steps, Setter

LEMMA GwBegun == GwInit => GwBoxInv
<1> SUFFICES ASSUME GwInit PROVE GwBoxInv
  OBVIOUS
<1>1. Defaults \in Params /\ DefaultAddr \in Nat \X Nat
  BY DEF Defaults, Params, DefaultAddr
<1>2. \A t \in Setter : job[t] = NoJob
  BY DEF GwInit
<1>3. NoJob \in Work0 /\ NoJob.op = "none"
  BY DEF NoJob, Work0
<1>4. \A t \in Setter : JobOK(t)
  BY <1>2, <1>3 DEF JobOK, NoJob
<1> QED
  BY <1>1, <1>3, <1>4, GwAssumption DEF GwInit, GwBoxInv, GwTypeOK, AheadInv

(* A thread that goes on to its next step.                                 *)
LEMMA Advanced ==
  ASSUME GwTypeOK, NEW t \in Setter, Advance(t), job[t] # NoJob
  PROVE  /\ job' \in [Setter -> Work0] /\ \A u \in Setter : JobOK(u)'
         /\ \A u \in Setter : u # t => job'[u] = job[u]
         /\ job[t].op \in Op /\ job[t].at \in 1..Len(Steps(t, job[t].op))
         /\ job[t].at < Len(Steps(t, job[t].op)) =>
              job'[t].op = job[t].op /\ job'[t].at = job[t].at + 1
         /\ job[t].at = Len(Steps(t, job[t].op)) => job'[t] = NoJob
<1> DEFINE n == Len(Steps(t, job[t].op))
<1>1. job[t].op \in Op /\ job[t].at \in 1..n /\ n \in Nat /\ job[t] \in Work0
  BY StepsAre DEF GwTypeOK, JobOK, Work0, Op, NoJob
<1>2. NoJob \in Work0 /\ NoJob.op = "none" /\ NoJob.value = 0
  BY DEF NoJob, Work0
<1> DEFINE j == [job[t] EXCEPT !.at = job[t].at + 1]
<1>3. j \in Work0 /\ j.op = job[t].op /\ j.at = job[t].at + 1 /\ j.value = job[t].value
  BY <1>1 DEF Work0
<1>4. job' = [job EXCEPT ![t] = IF job[t].at = n THEN NoJob ELSE j]
  BY DEF Advance
<1> HIDE DEF n, j
<1>5. /\ \A u \in Setter : u # t => job'[u] = job[u]
      /\ job'[t] = IF job[t].at = n THEN NoJob ELSE j
  BY <1>4 DEF GwTypeOK
<1>6. job' \in [Setter -> Work0]
  BY <1>2, <1>3, <1>4 DEF GwTypeOK
<1>7. \A u \in Setter : JobOK(u)'
  <2> SUFFICES ASSUME NEW u \in Setter PROVE JobOK(u)'
    OBVIOUS
  <2>1. CASE u # t
    BY <1>5, <2>1 DEF GwTypeOK, JobOK
  <2>2. CASE u = t /\ job[t].at = n
    BY <1>2, <1>5, <2>2 DEF JobOK
  <2>3. CASE u = t /\ job[t].at # n
    <3>1. JobOK(t)
      BY DEF GwTypeOK
    <3>2. j.at \in 1..n
      BY <1>1, <1>3, <2>3
    <3> QED
      BY <1>1, <1>3, <1>5, <2>3, <3>1, <3>2 DEF JobOK, Op, n
  <2> QED
    BY <2>1, <2>2, <2>3
<1> QED
  BY <1>1, <1>3, <1>5, <1>6, <1>7 DEF n

(* The parameters stay parameters. *)
LEMMA NetType ==
  ASSUME NEW p \in Params, NEW f \in Field, NEW v \in Nat
  PROVE  /\ WithNet(p, f, v) \in Params
         /\ WithNet(p, f, v).rf24_addr = p.rf24_addr
         /\ WithNet(p, f, v).net[f] = v
         /\ \A g \in Field \ {f} : WithNet(p, f, v).net[g] = p.net[g]
<1> DEFINE m == [p.net EXCEPT ![f] = v]
<1>1. p.net \in [Field -> Nat] /\ p.rf24_addr \in Nat \X Nat
  BY DEF Params
<1>2. m \in [Field -> Nat] /\ m[f] = v /\ \A g \in Field \ {f} : m[g] = p.net[g]
  BY <1>1
<1>3. WithNet(p, f, v) = [p EXCEPT !.net = m]
  BY DEF WithNet, m, Params
<1> HIDE DEF m
<1>4. [p EXCEPT !.net = m] \in Params /\ [p EXCEPT !.net = m].net = m
      /\ [p EXCEPT !.net = m].rf24_addr = p.rf24_addr
  BY <1>2 DEF Params
<1> QED
  BY <1>2, <1>3, <1>4

(* Half an address. *)
LEMMA HalfType ==
  ASSUME NEW p \in Params, NEW i \in {1, 2}, NEW v \in Nat
  PROVE  /\ [p EXCEPT !.rf24_addr[i] = v] \in Params
         /\ [p EXCEPT !.rf24_addr[i] = v].net = p.net
<1> DEFINE a == [p.rf24_addr EXCEPT ![i] = v]
<1>1. p.rf24_addr \in Nat \X Nat
  BY DEF Params
<1>2. a \in Nat \X Nat
  BY <1>1
<1>3. [p EXCEPT !.rf24_addr[i] = v] = [p EXCEPT !.rf24_addr = a]
  BY DEF a, Params
<1> QED
  BY <1>2, <1>3 DEF Params

(* What a thread with another command says nothing of. *)
LEMMA WorkRadio ==
  ASSUME GwTypeOK, AheadInv, NEW t \in Setter, Work(t), job[t].op = "rf"
  PROVE  GwTypeOK' /\ AheadInv'
<1> DEFINE n == job[t].at
<1>1. /\ job[t] # NoJob /\ Advance(t)
      /\ UNCHANGED <<orders, ready, started>>
  BY DEF Work, NoJob
<1>2. /\ job' \in [Setter -> Work0] /\ \A u \in Setter : JobOK(u)'
      /\ \A u \in Setter : u # t => job'[u] = job[u]
      /\ n \in 1..4 /\ n < 4 => job'[t].op = "rf" /\ job'[t].at = n + 1
  BY <1>1, Advanced, StepsAre, ZenonT(40)
<1>3. n \in 1..4
  BY <1>1, Advanced, StepsAre
<1>4. job[t].value \in Nat \X Nat /\ job[t].value[1] \in Nat /\ job[t].value[2] \in Nat
  BY DEF GwTypeOK, JobOK
<1>5. \A u \in Setter : \A f \in Field : WillStore(u, f) => WillStore(u, f)'
  BY <1>2 DEF WillStore
<1>11. Steps(t, job[t].op)[job[t].at] \in {"copy1", "copy2", "saverf", "config"}
  BY <1>3, StepsAre
<1>12. \A f \in Field : SaveOf(f) \notin {"copy1", "copy2", "saverf", "config"}
  BY DEF Field, SaveOf
<1>13. n <= 2 <=> Steps(t, job[t].op)[job[t].at] \in {"copy1", "copy2"}
  BY <1>3, StepsAre DEF Setter
<1>6. CASE n <= 2
  <2>1. PICK i \in {1, 2} : gw_params' = Copied(i, job[t].value)
    BY <1>6, <1>11, <1>12, <1>13 DEF Work, Field
  <2>2. UNCHANGED <<saved, chipAddr, fcbGone>>
    BY <1>6, <1>11, <1>12, <1>13 DEF Work, Field
  <2>3. gw_params' \in Params /\ gw_params'.net = gw_params.net
    <3>1. job[t].value[i] \in Nat /\ gw_params \in Params
      BY <1>4 DEF GwTypeOK
    <3> QED
      BY <2>1, <3>1, HalfType DEF Copied
  <2>4. WillSave(t)' /\ WillConfig(t)'
    BY <1>2, <1>3, <1>6 DEF WillSave, WillConfig
  <2> QED
    BY <1>1, <1>2, <1>5, <2>2, <2>3, <2>4 DEF GwTypeOK, AheadInv
<1>7. CASE n > 2 /\ Steps(t, "rf")[n] = "saverf"
  <2>1. n = IF t = "cfg" THEN 3 ELSE 4
    BY <1>3, <1>7, StepsAre
  <2>2. /\ saved' = IF fcbGone THEN saved ELSE [saved EXCEPT !.rf24_addr = gw_params.rf24_addr]
        /\ UNCHANGED <<gw_params, chipAddr, fcbGone>>
    BY <1>7, <1>12 DEF Work, SaveAddr, Store, Field
  <2>3. saved' \in Params /\ saved'.net = saved.net /\ (~fcbGone => saved'.rf24_addr = gw_params.rf24_addr)
    BY <2>2 DEF GwTypeOK, Params
  <2>4. \A u \in Setter : WillConfig(u) => WillConfig(u)'
    BY <1>2, <1>3, <2>1 DEF WillConfig, Setter
  <2> QED
    BY <1>1, <1>2, <1>5, <2>2, <2>3, <2>4 DEF GwTypeOK, AheadInv
<1>8. CASE n > 2 /\ Steps(t, "rf")[n] = "config"
  <2>1. n = IF t = "cfg" THEN 4 ELSE 3
    BY <1>3, <1>8, StepsAre
  <2>2. /\ chipAddr' = IF ready THEN gw_params.rf24_addr ELSE chipAddr
        /\ UNCHANGED <<gw_params, saved, fcbGone>>
    BY <1>8, <1>12 DEF Work, Field
  <2>3. chipAddr' \in Nat \X Nat
    BY <2>2 DEF GwTypeOK, Params
  <2>4. \A u \in Setter : WillSave(u) => WillSave(u)'
    BY <1>2, <1>3, <2>1 DEF WillSave, Setter
  <2> QED
    BY <1>1, <1>2, <1>5, <2>2, <2>3, <2>4 DEF GwTypeOK, AheadInv
<1>9. n <= 2 \/ (n > 2 /\ Steps(t, "rf")[n] = "saverf") \/ (n > 2 /\ Steps(t, "rf")[n] = "config")
  BY <1>3, StepsAre
<1> QED
  BY <1>6, <1>7, <1>8, <1>9

LEMMA WorkNet ==
  ASSUME GwTypeOK, AheadInv, NEW t \in Setter, Work(t), job[t].op \in {"ip", "port", "host"}
  PROVE  GwTypeOK' /\ AheadInv'
<1> DEFINE n == job[t].at
           step == Steps(t, job[t].op)[n]
           first == IF job[t].op = "host" THEN 2 ELSE 1
<1>1. /\ job[t] # NoJob /\ Advance(t)
      /\ UNCHANGED <<orders, ready, started>>
  BY DEF Work, NoJob
<1>11. Len(Steps(t, job[t].op)) = first + 4
  <2>1. CASE job[t].op = "host"
    BY <2>1, StepsAre
  <2>2. CASE job[t].op = "ip"
    BY <2>2, StepsAre
  <2>3. CASE job[t].op = "port"
    BY <2>3, StepsAre
  <2> QED
    BY <2>1, <2>2, <2>3
<1>2. /\ job' \in [Setter -> Work0] /\ \A u \in Setter : JobOK(u)'
      /\ \A u \in Setter : u # t => job'[u] = job[u]
      /\ n \in 1..(first + 4)
      /\ n < first + 4 => job'[t].op = job[t].op /\ job'[t].at = n + 1
  BY <1>1, <1>11, Advanced
<1>12. /\ n <= first => step \in Field
       /\ \A f \in Field : n = first + Place(f) => step = SaveOf(f)
       /\ n > first => \E f \in Field : n = first + Place(f)
  <2>1. CASE job[t].op = "host"
    <3>1. /\ Steps(t, "host")[1] = "host_ip" /\ Steps(t, "host")[2] = "host_port"
          /\ Steps(t, "host")[3] = "saveip_addr" /\ Steps(t, "host")[4] = "savedata_port"
          /\ Steps(t, "host")[5] = "savehost_ip" /\ Steps(t, "host")[6] = "savehost_port"
      BY StepsAre
    <3> QED
      BY <1>2, <2>1, <3>1 DEF Field, Place, SaveOf
  <2>2. CASE job[t].op \in {"ip", "port"}
    <3>1. \A op \in {"ip", "port"} :
            /\ Steps(t, op)[1] \in {"ip_addr", "data_port"}
            /\ Steps(t, op)[2] = "saveip_addr" /\ Steps(t, op)[3] = "savedata_port"
            /\ Steps(t, op)[4] = "savehost_ip" /\ Steps(t, op)[5] = "savehost_port"
      BY StepsAre
    <3> QED
      BY <1>2, <2>2, <3>1 DEF Field, Place, SaveOf
  <2> QED
    BY <2>1, <2>2
<1>3. job[t].value \in Nat
  BY DEF GwTypeOK, JobOK
<1>4. \A u \in Setter : (WillSave(u) => WillSave(u)') /\ (WillConfig(u) => WillConfig(u)')
  BY <1>2 DEF WillSave, WillConfig
<1>5. \A f \in Field : WillStore(t, f) <=> n <= first + Place(f)
  BY DEF WillStore
<1>6. \A f \in Field : n < first + Place(f) => WillStore(t, f)'
  BY <1>2 DEF WillStore, Field, Place
<1>7. \A u \in Setter : \A f \in Field : u # t => (WillStore(u, f) => WillStore(u, f)')
  BY <1>2 DEF WillStore
<1>8. step \notin {"copy1", "copy2", "saverf", "config", "erase"}
  BY <1>2, <1>12 DEF Field, SaveOf
<1>9. CASE step \in Field
  <2>1. n <= first
    BY <1>2, <1>9, <1>12 DEF Field, SaveOf
  <2>2. \A f \in Field : step # SaveOf(f)
    BY <1>9 DEF Field, SaveOf
  <2>3. gw_params' = WithNet(gw_params, step, job[t].value) /\ UNCHANGED <<saved, chipAddr, fcbGone>>
    BY <1>8, <2>2 DEF Work
  <2>4. gw_params' \in Params /\ gw_params'.rf24_addr = gw_params.rf24_addr
    <3>1. gw_params \in Params /\ gw_params.rf24_addr \in Nat \X Nat
      BY DEF GwTypeOK, Params
    <3> HIDE DEF step
    <3> QED
      BY <1>3, <1>9, <2>3, <3>1, NetType
  <2>5. \A f \in Field : WillStore(t, f)'
    BY <1>2, <1>6, <2>1 DEF Field, Place
  <2> QED
    BY <1>1, <1>2, <1>4, <2>3, <2>4, <2>5 DEF GwTypeOK, AheadInv
<1>10. CASE step \notin Field
  <2>1. PICK f \in Field : /\ step = SaveOf(f)
                           /\ saved' = IF fcbGone THEN saved ELSE WithNet(saved, f, gw_params.net[f])
                           /\ UNCHANGED <<gw_params, chipAddr, fcbGone>>
    BY <1>8, <1>10 DEF Work, Store
  <2>2. n = first + Place(f)
    BY <1>2, <1>10, <1>12, <2>1 DEF Field, SaveOf
  <2>3. /\ saved' \in Params /\ saved'.rf24_addr = saved.rf24_addr
        /\ ~fcbGone => saved'.net[f] = gw_params.net[f]
        /\ \A g \in Field \ {f} : saved'.net[g] = saved.net[g]
    <3>1. gw_params.net[f] \in Nat /\ saved \in Params /\ saved.rf24_addr \in Nat \X Nat
      BY DEF GwTypeOK, Params
    <3> QED
      BY <2>1, <3>1, NetType
  <2>4. \A g \in Field \ {f} : \A u \in Setter : WillStore(u, g) => WillStore(u, g)'
    <3>1. \A g \in Field \ {f} : WillStore(t, g) => WillStore(t, g)'
      <4>1. \A g \in Field \ {f} : Place(g) # Place(f) /\ Place(g) \in 1..4 /\ Place(f) \in 1..4
        BY DEF Field, Place
      <4> QED
        BY <1>2, <1>5, <1>6, <2>2, <4>1
    <3> QED
      BY <1>7, <3>1
  <2> QED
    BY <1>1, <1>2, <1>4, <2>1, <2>3, <2>4 DEF GwTypeOK, AheadInv
<1> QED
  BY <1>9, <1>10

LEMMA WorkReset ==
  ASSUME GwTypeOK, AheadInv, NEW t \in Setter, Work(t), job[t].op = "reset"
  PROVE  GwTypeOK' /\ AheadInv'
<1>1. /\ job[t] # NoJob /\ Advance(t)
      /\ UNCHANGED <<orders, ready, started>>
  BY DEF Work, NoJob
<1>2. /\ job' \in [Setter -> Work0] /\ \A u \in Setter : JobOK(u)'
      /\ \A u \in Setter : u # t => job'[u] = job[u]
  BY <1>1, Advanced
<1>3. \A u \in Setter : WillConfig(u) => WillConfig(u)'
  BY <1>2 DEF WillConfig
<1>4. Steps(t, job[t].op)[job[t].at] = "erase"
  <2>1. job[t].at \in 1..Len(Steps(t, "reset"))
    BY DEF GwTypeOK, JobOK
  <2>2. Steps(t, job[t].op)[job[t].at] # "reboot"
    BY DEF Work
  <2> QED
    BY <2>1, <2>2, StepsAre
<1>5. saved' = Defaults /\ fcbGone' = TRUE /\ UNCHANGED <<gw_params, chipAddr>>
  BY <1>4 DEF Work, Field, SaveOf
<1>6. Defaults \in Params
  BY DEF Defaults, Params, DefaultAddr
<1> QED
  BY <1>1, <1>2, <1>3, <1>5, <1>6 DEF GwTypeOK, AheadInv

LEMMA GwRestarts ==
  ASSUME GwTypeOK, Restarts, UNCHANGED <<orders, saved>>
  PROVE  GwTypeOK' /\ AheadInv'
<1>1. DefaultAddr \in Nat \X Nat
  BY DEF DefaultAddr
<1>2. \A t \in Setter : job'[t] = NoJob
  BY DEF Restarts
<1>3. NoJob \in Work0 /\ NoJob.op = "none"
  BY DEF NoJob, Work0
<1>4. \A t \in Setter : JobOK(t)'
  BY <1>2, <1>3 DEF JobOK, NoJob
<1>5. job' \in [Setter -> Work0]
  BY <1>3 DEF Restarts
<1> QED
  BY <1>1, <1>4, <1>5 DEF Restarts, GwTypeOK, AheadInv

LEMMA GwTakes ==
  ASSUME GwTypeOK, AheadInv, Take
  PROVE  GwTypeOK' /\ AheadInv'
<1>1. orders \in Seq(Order) /\ orders # <<>>
  BY DEF GwTypeOK, Take
<1>2. PICK h \in Order : h = Head(orders) /\ h[1] \in Setter
  <2>1. Head(orders) \in Order
    BY <1>1
  <2>2. Head(orders)[1] \in Setter
    BY <2>1 DEF Order
  <2> QED
    BY <2>1, <2>2
<1> DEFINE t == h[1]
           j == [op |-> h[2], at |-> 1, value |-> h[3]]
<1>3. job[t] = NoJob /\ job' = [job EXCEPT ![t] = j]
      /\ UNCHANGED <<gw_params, saved, chipAddr, fcbGone, ready, started>>
  BY <1>2 DEF Take
<1>4. orders' \in Seq(Order)
  BY <1>1 DEF Take
<1>5. /\ h[2] \in Op /\ (h[2] = "rf" => h[3] \in Nat \X Nat) /\ (h[2] # "rf" => h[3] \in Nat)
  <2>1. CASE h \in Setter \X {"rf"} \X Addr
    BY <2>1, GwAssumption DEF Op
  <2>2. CASE h \in Setter \X {"ip", "port", "host", "reset"} \X (Net \cup {0})
    <3>1. h[2] \in {"ip", "port", "host", "reset"} /\ h[3] \in Net \cup {0}
      BY <2>2
    <3>2. Net \subseteq Nat
      BY GwAssumption
    <3>3. h[3] \in Nat
      <4>1. \A x : x \in Net \cup {0} => x \in Nat
        BY <3>2
      <4> QED
        BY <3>1, <4>1
    <3> QED
      BY <3>1, <3>3 DEF Op
  <2> QED
    BY <2>1, <2>2 DEF Order
<1>6. j \in Work0 /\ j.op = h[2] /\ j.at = 1 /\ j.value = h[3]
  BY <1>5 DEF Work0
<1>7. 1 \in 1..Len(Steps(t, h[2]))
  <2>1. /\ Len(Steps(t, "rf")) = 4 /\ Len(Steps(t, "host")) = 6
        /\ Len(Steps(t, "ip")) = 5 /\ Len(Steps(t, "port")) = 5
        /\ Len(Steps(t, "reset")) \in {1, 2}
    BY <1>2, StepsAre
  <2>2. \A op \in Op : Len(Steps(t, op)) \in 1..6
    BY <2>1 DEF Op
  <2>3. Len(Steps(t, h[2])) \in 1..6
    BY <1>5, <2>2
  <2> QED
    BY <2>3, SMTT(30)
<1> HIDE DEF t, j
<1>8. t \in Setter
  BY <1>2 DEF t
<1>9. job' \in [Setter -> Work0] /\ job'[t] = j /\ \A u \in Setter : u # t => job'[u] = job[u]
  BY <1>3, <1>6, <1>8 DEF GwTypeOK
<1>10. \A u \in Setter : JobOK(u)'
  <2> SUFFICES ASSUME NEW u \in Setter PROVE JobOK(u)'
    OBVIOUS
  <2>1. CASE u # t
    BY <1>9, <2>1 DEF GwTypeOK, JobOK
  <2>2. CASE u = t
    BY <1>5, <1>6, <1>7, <1>9, <2>2 DEF JobOK, Op
  <2> QED
    BY <2>1, <2>2
<1>11. NoJob.op = "none"
  BY DEF NoJob
<1>12. \A u \in Setter : /\ (WillSave(u) => WillSave(u)') /\ (WillConfig(u) => WillConfig(u)')
                         /\ \A f \in Field : WillStore(u, f) => WillStore(u, f)'
  BY <1>3, <1>8, <1>9, <1>11 DEF WillSave, WillConfig, WillStore
<1>13. GwTypeOK'
  BY <1>3, <1>4, <1>9, <1>10 DEF GwTypeOK
<1>14. ~fcbGone /\ saved.rf24_addr # gw_params.rf24_addr => \E u \in Setter : WillSave(u)'
  BY <1>12 DEF AheadInv
<1>15. ~fcbGone => \A f \in Field : saved.net[f] # gw_params.net[f] => \E u \in Setter : WillStore(u, f)'
  BY <1>12 DEF AheadInv
<1>16. started /\ ready /\ chipAddr # gw_params.rf24_addr => \E u \in Setter : WillConfig(u)'
  BY <1>12 DEF AheadInv
<1> QED
  BY <1>3, <1>13, <1>14, <1>15, <1>16 DEF AheadInv

LEMMA GwStarts ==
  ASSUME GwTypeOK, AheadInv, MainStarts
  PROVE  GwTypeOK' /\ AheadInv'
<1>1. /\ chipAddr' = IF ready THEN gw_params.rf24_addr ELSE chipAddr
      /\ started' = TRUE /\ UNCHANGED <<orders, gw_params, saved, fcbGone, job, ready>>
  BY DEF MainStarts
<1>2. chipAddr' \in Nat \X Nat
  BY <1>1 DEF GwTypeOK, Params
<1>3. \A t \in Setter : JobOK(t)'
  BY <1>1 DEF GwTypeOK, JobOK
<1> QED
  BY <1>1, <1>2, <1>3 DEF GwTypeOK, AheadInv, WillSave, WillStore

LEMMA GwSame ==
  ASSUME GwBoxInv, UNCHANGED paramVars
  PROVE  GwBoxInv'
BY DEF paramVars, GwBoxInv, GwTypeOK, JobOK, AheadInv, WillSave, WillConfig, WillStore

LEMMA GwStep == GwBoxInv /\ [GwNext]_gwVars => GwBoxInv'
<1> SUFFICES ASSUME GwBoxInv, [GwNext]_gwVars PROVE GwBoxInv'
  OBVIOUS
<1> USE DEF GwBoxInv
<1>1. CASE MainStarts
  BY <1>1, GwStarts
<1>2. CASE PowerCycled \/ ResetReboots
  BY <1>2, GwRestarts DEF PowerCycled, ResetReboots
<1>3. CASE Take
  BY <1>3, GwTakes
<1>4. ASSUME NEW t \in Setter, Work(t) PROVE GwBoxInv'
  <2>1. job[t].op \in Op
    <3>1. job[t] # NoJob
      BY <1>4 DEF Work, NoJob
    <3> QED
      BY <3>1 DEF GwTypeOK, JobOK, Work0
  <2> QED
    BY <1>4, <2>1, WorkRadio, WorkNet, WorkReset DEF Op
<1>5. CASE UNCHANGED paramVars
  BY <1>5, GwSame
<1>6. CASE SelfTestEnds \/ Fault \/ FallsSilent \/ BlinkTurn \/ BlinkEnds
  BY <1>5, <1>6 DEF SelfTestEnds, Fault, FallsSilent, BlinkTurn, BlinkEnds
<1>7. ASSUME NEW t \in {"rx", "tx"}, Activity(t) \/ BlinkStarts(t) PROVE GwBoxInv'
  BY <1>5, <1>7 DEF Activity, BlinkStarts
<1>8. CASE UNCHANGED gwVars
  BY <1>5, <1>8 DEF gwVars
<1> QED
  BY <1>1, <1>2, <1>3, <1>4, <1>6, <1>7, <1>8 DEF GwNext

(* When no command is under way, RAM, settings and radio have the same     *)
(* parameters, however the commands of the two threads interleave          *)
(* (persist.c, rf24.c, udp.c, shell.c).                                    *)
THEOREM ParamsAgreeCorrect == GwSpec => []ParamsAgree
<1>1. GwBoxInv => ParamsAgree
  <2> SUFFICES ASSUME GwBoxInv, ~fcbGone, started, \A t \in Setter : job[t] = NoJob
               PROVE  saved = gw_params /\ (ready => chipAddr = gw_params.rf24_addr)
    BY DEF ParamsAgree
  <2>1. NoJob.op = "none"
    BY DEF NoJob
  <2>2. \A t \in Setter : ~WillSave(t) /\ ~WillConfig(t) /\ \A f \in Field : ~WillStore(t, f)
    BY <2>1 DEF WillSave, WillConfig, WillStore
  <2>3. saved.rf24_addr = gw_params.rf24_addr /\ \A f \in Field : saved.net[f] = gw_params.net[f]
    BY <2>2 DEF GwBoxInv, AheadInv
  <2>4. saved.net = gw_params.net
    BY <2>3 DEF GwBoxInv, GwTypeOK, Params
  <2> QED
    BY <2>2, <2>3, <2>4 DEF GwBoxInv, GwTypeOK, Params, AheadInv
<1> QED
  BY <1>1, GwBegun, GwStep, PTL DEF GwSpec

-----------------------------------------------------------------------------
(* J1939 *)

Name == Ecu \cup {HostName}
Snapshot == Ecu \X Task \X Nat
Claim == [kind : {"claimed"}, sa : 0..254, da : {SaGlobal}, what : Name]
Probe == [kind : {"request"}, sa : 0..254, da : 0..253, what : Name]
Ask == [kind : {"ask"}, sa : 0..254, da : 0..253, what : Nat]
Tp == [kind : {"tp"}, sa : 0..253, da : {SaGlobal}, what : [packet : 0..Packets, id : Snapshot]]
Frame == Claim \cup Probe \cup Ask \cup Tp
Peer == [seen : BOOLEAN, name : Nat]
BamState == [sa : 0..254, id : Nat, next : 0..Packets]

EcuType ==
  /\ claimer \in [Ecu -> [at : {"off", "claim", "window", "settle", "up"}, sa : 0..254]]
  /\ \A n \in Ecu : claimer[n].at \in {"claim", "window", "settle"} => claimer[n].sa \in 0..253
  /\ peer \in [Ecu -> Peer]
  /\ self_sa \in [Ecu -> 0..254] /\ addr_valid \in [Ecu -> BOOLEAN]
  /\ \A n \in Ecu : addr_valid[n] => self_sa[n] \in 0..253 /\ claimer[n].at = "up"
BamType ==
  /\ bam \in [Ecu -> [Task -> BamState]] /\ bams \in [Ecu -> Nat]
  /\ \A n \in Ecu : \A t \in Task : bam[n][t] # NoBam => bam[n][t].sa \in 0..253
QueueType == rx_msgq \in [Ecu -> Seq(Frame)] /\ rxq \in Seq(Frame)
PyAt == {"claim", "window", "drain1", "settle", "drain2", "run"}
PyState == [at : PyAt, sa : 0..254, cand : 0..253, valid : BOOLEAN, peer : Peer, reqs : Nat]
PyType ==
  /\ py \in PyState
  /\ py.valid => py.at = "run" /\ py.sa \in 0..253
JTypeOK ==
  /\ EcuType /\ BamType /\ QueueType /\ PyType
  /\ unheard \in BOOLEAN /\ overlap \in BOOLEAN

LEMMA JConstants ==
  /\ Ecu \subseteq Nat /\ HostName \in Nat /\ HostName \notin Ecu /\ Name \subseteq Nat
  /\ Preferred \in 0..253 /\ HostPreferred \in 0..253
  /\ Packets \in Nat /\ Packets > 0 /\ MsgqDepth \in Nat /\ MsgqDepth > 0
BY J1939Assumption DEF Name

(* What arrives where. *)
LEMMA OnBusTyped ==
  ASSUME NEW q \in [Ecu -> Seq(Frame)], NEW hq \in Seq(Frame), NEW f \in Frame, NEW from,
         OnBus(from, f, q, hq)
  PROVE  /\ QueueType'
         /\ \A n \in Ecu : rx_msgq'[n] = IF n # from /\ On(n) /\ Len(q[n]) < MsgqDepth
                                         THEN Append(q[n], f) ELSE q[n]
         /\ rxq' = IF from # HostName THEN Append(hq, f) ELSE hq
BY DEF OnBus, QueueType

LEMMA FramesTyped ==
  ASSUME NEW n \in Name, NEW sa \in 0..254
  PROVE  /\ JFrame("claimed", sa, SaGlobal, n) \in Frame
         /\ \A da \in 0..253 : JFrame("request", sa, da, n) \in Frame
         /\ \A da \in 0..253 : \A k \in Nat : JFrame("ask", sa, da, k) \in Frame
BY ZenonT(40) DEF Frame, Claim, Probe, Ask, JFrame, SaGlobal

LEMMA PacketTyped ==
  ASSUME NEW sa \in 0..253, NEW p \in 0..Packets, NEW id \in Snapshot
  PROVE  JFrame("tp", sa, SaGlobal, [packet |-> p, id |-> id]) \in Frame
BY DEF Frame, Tp, JFrame, SaGlobal

LEMMA FrameKinds ==
  ASSUME NEW f \in Frame
  PROVE  /\ f.kind = "claimed" => f.what \in Nat /\ f.sa \in 0..254
         /\ f.kind = "request" => f.da \in 0..253
         /\ f.kind = "ask" => f.what \in Nat
         /\ f.kind = "tp" => f.sa \in 0..253 /\ f.what.packet \in 0..Packets /\ f.what.id \in Snapshot
         /\ f.kind \in {"claimed", "request", "ask", "tp"}
BY JConstants DEF Frame, Claim, Probe, Ask, Tp

LEMMA TailTyped ==
  ASSUME QueueType, NEW n \in Ecu, rx_msgq[n] # <<>>
  PROVE  /\ RestOf(n) \in [Ecu -> Seq(Frame)] /\ RestOf(n)[n] = Tail(rx_msgq[n])
         /\ \A m \in Ecu : m # n => RestOf(n)[m] = rx_msgq[m]
         /\ Head(rx_msgq[n]) \in Frame
<1>1. rx_msgq[n] \in Seq(Frame)
  BY DEF QueueType
<1>2. Tail(rx_msgq[n]) \in Seq(Frame) /\ Head(rx_msgq[n]) \in Frame
  BY <1>1
<1> QED
  BY <1>2 DEF RestOf, QueueType

LEMMA JInitTyped == J1939Init => JTypeOK
<1> SUFFICES ASSUME J1939Init PROVE JTypeOK
  OBVIOUS
<1>1. NoPeer \in Peer
  BY DEF NoPeer, Peer
<1>2. NoBam \in BamState
  BY JConstants DEF NoBam, BamState, SaNull
<1>3. case.bams \in [Ecu -> Nat] /\ case.reqs \in Nat
  <2>1. case \in [on : SUBSET Ecu, bams : [Ecu -> Nat], reqs : Nat, fails : Nat]
    BY J1939Assumption DEF J1939Init
  <2> QED
    BY <2>1
<1>4. EcuType
  <2>1. Preferred \in 0..254 /\ SaNull \in 0..254
    BY JConstants DEF SaNull
  <2>2. /\ claimer \in [Ecu -> [at : {"off", "claim", "window", "settle", "up"}, sa : 0..254]]
        /\ \A n \in Ecu : claimer[n].sa = Preferred
    BY <2>1 DEF J1939Init
  <2> QED
    BY <1>1, <2>1, <2>2, JConstants DEF J1939Init, EcuType
<1>5. BamType
  BY <1>2, <1>3 DEF J1939Init, BamType
<1>6. QueueType
  BY DEF J1939Init, QueueType
<1>7. PyType
  BY <1>1, <1>3, JConstants DEF J1939Init, PyType, PyState, PyAt
<1> QED
  BY <1>4, <1>5, <1>6, <1>7 DEF JTypeOK, J1939Init

(* Claiming. *)
LEMMA ClaimsTyped ==
  ASSUME JTypeOK, NEW n \in Ecu,
         ClaimBegins(n) \/ Announces(n) \/ Takes(n) \/ Yields(n) \/ Reclaims(n)
  PROVE  JTypeOK'
<1> USE DEF JTypeOK
<1>1. n \in Name
  BY DEF Name
<1>2. UNCHANGED <<bam, bams, py, overlap>> /\ unheard' \in BOOLEAN
  BY DEF ClaimBegins, Announces, Takes, Yields, Reclaims, ClaimOnly, pyVars
<1>3. BamType' /\ PyType'
  BY <1>2 DEF BamType, PyType
<1>4. NoPeer \in Peer
  BY DEF NoPeer, Peer
<1>5. CASE ClaimBegins(n)
  <2>1. /\ claimer[n].at = "claim" /\ claimer[n].sa \in 0..253
        /\ claimer' = [claimer EXCEPT ![n].at = "window"]
        /\ peer' = [peer EXCEPT ![n] = NoPeer] /\ UNCHANGED <<addr_valid, self_sa>>
    BY <1>5 DEF ClaimBegins, ClaimOnly, EcuType
  <2>2. QueueType'
    <3>1. claimer[n].sa \in 0..254
      BY <2>1
    <3>2. JFrame("request", claimer[n].sa, claimer[n].sa, n) \in Frame
      BY <1>1, <2>1, <3>1, FramesTyped
    <3> QED
      BY <1>5, <3>2, OnBusTyped DEF ClaimBegins, QueueType
  <2>3. EcuType'
    BY <1>4, <2>1 DEF EcuType
  <2> QED
    BY <1>2, <1>3, <2>2, <2>3
<1>6. CASE Announces(n)
  <2>1. /\ claimer[n].at = "window" /\ claimer[n].sa \in 0..253
        /\ claimer' = [claimer EXCEPT ![n].at = "settle"] /\ UNCHANGED <<peer, addr_valid, self_sa>>
    BY <1>6 DEF Announces, ClaimOnly, EcuType
  <2>2. QueueType'
    <3>1. claimer[n].sa \in 0..254
      BY <2>1
    <3>2. JFrame("claimed", claimer[n].sa, SaGlobal, n) \in Frame
      BY <1>1, <3>1, FramesTyped
    <3> QED
      BY <1>6, <3>2, OnBusTyped DEF Announces, QueueType
  <2>3. EcuType'
    BY <2>1 DEF EcuType
  <2> QED
    BY <1>2, <1>3, <2>2, <2>3
<1>7. CASE Takes(n)
  <2>1. /\ claimer[n].at = "settle" /\ claimer[n].sa \in 0..253 /\ UNCHANGED <<peer, rx_msgq, rxq>>
        /\ self_sa' = [self_sa EXCEPT ![n] = claimer[n].sa] /\ addr_valid' = [addr_valid EXCEPT ![n] = TRUE]
        /\ claimer' = [claimer EXCEPT ![n] = [at |-> "up", sa |-> SaNull]]
    BY <1>7 DEF Takes, EcuType
  <2> HIDE DEF JTypeOK
  <2>2. EcuType'
    BY <2>1, SMTT(30) DEF JTypeOK, EcuType, SaNull
  <2>3. QueueType'
    BY <2>1 DEF JTypeOK, QueueType
  <2> QED
    BY <1>2, <1>3, <2>2, <2>3 DEF JTypeOK
<1>8. CASE Yields(n)
  <2>1. /\ claimer[n].at = "settle" /\ claimer[n].sa \in 0..253
        /\ UNCHANGED <<peer, addr_valid, self_sa>>
    BY <1>8 DEF Yields, ClaimOnly, EcuType
  <2>2. CASE claimer[n].sa > 0
    <3>1. /\ claimer' = [claimer EXCEPT ![n] = [at |-> "claim", sa |-> claimer[n].sa - 1]]
          /\ UNCHANGED <<rx_msgq, rxq>>
      BY <1>8, <2>2 DEF Yields
    <3>2. claimer[n].sa - 1 \in 0..253
      BY <2>1, <2>2
    <3> HIDE DEF JTypeOK
    <3>3. EcuType'
      BY <2>1, <3>1, <3>2 DEF JTypeOK, EcuType
    <3> QED
      BY <1>2, <1>3, <3>1, <3>3 DEF QueueType, JTypeOK
  <2>3. CASE ~(claimer[n].sa > 0)
    <3>1. /\ claimer' = [claimer EXCEPT ![n] = [at |-> "claim", sa |-> Preferred]]
          /\ OnBus(n, JFrame("claimed", SaNull, SaGlobal, n), rx_msgq, rxq)
      BY <1>8, <2>3 DEF Yields
    <3>2. SaNull \in 0..254
      BY DEF SaNull
    <3>3. QueueType'
      BY <1>1, <3>1, <3>2, FramesTyped, OnBusTyped DEF QueueType
    <3>4. EcuType'
      BY <2>1, <3>1, JConstants DEF EcuType
    <3> QED
      BY <1>2, <1>3, <3>3, <3>4
  <2> QED
    BY <2>2, <2>3
<1>9. CASE Reclaims(n)
  <2>1. /\ claimer' = [claimer EXCEPT ![n] = [at |-> "claim", sa |-> Preferred]] /\ ~addr_valid[n]
        /\ UNCHANGED <<peer, self_sa, addr_valid, rx_msgq, rxq>>
    BY <1>9 DEF Reclaims, ClaimOnly
  <2>2. Preferred \in 0..253 /\ Preferred \in 0..254
    BY JConstants
  <2>3. EcuType'
    BY <2>1, <2>2 DEF EcuType
  <2> QED
    BY <1>2, <1>3, <2>1, <2>3 DEF QueueType
<1> QED
  BY <1>5, <1>6, <1>7, <1>8, <1>9

(* A broadcast under a real address. *)
LEMMA BamBegun ==
  ASSUME JTypeOK, NEW n \in Ecu, NEW t \in Task, NEW id \in Nat, addr_valid[n], bam' = Bam(n, t, id)
  PROVE  /\ bam' \in [Ecu -> [Task -> BamState]]
         /\ bam'[n][t] = [sa |-> self_sa[n], id |-> id, next |-> 0] /\ self_sa[n] \in 0..253
         /\ \A m \in Ecu : \A u \in Task : m # n \/ u # t => bam'[m][u] = bam[m][u]
<1> DEFINE b == [sa |-> self_sa[n], id |-> id, next |-> 0]
<1>1. b \in BamState /\ self_sa[n] \in 0..253
  BY JConstants DEF BamState, JTypeOK, EcuType
<1>2. bam' = [bam EXCEPT ![n][t] = b]
  BY DEF Bam
<1> HIDE DEF b
<1>3. /\ bam' \in [Ecu -> [Task -> BamState]] /\ bam'[n][t] = b
      /\ \A m \in Ecu : \A u \in Task : m # n \/ u # t => bam'[m][u] = bam[m][u]
  BY <1>1, <1>2 DEF JTypeOK, BamType
<1> QED
  BY <1>1, <1>3 DEF b

LEMMA BegunTyped ==
  ASSUME JTypeOK, NEW n \in Ecu, NEW t \in Task, NEW id \in Nat, addr_valid[n], bam' = Bam(n, t, id),
         bams' \in [Ecu -> Nat]
  PROVE  BamType'
<1>1. /\ bam' \in [Ecu -> [Task -> BamState]]
      /\ bam'[n][t] = [sa |-> self_sa[n], id |-> id, next |-> 0] /\ self_sa[n] \in 0..253
      /\ \A m \in Ecu : \A u \in Task : m # n \/ u # t => bam'[m][u] = bam[m][u]
  BY BamBegun
<1>2. bam'[n][t].sa \in 0..253
  BY <1>1
<1> QED
  BY <1>1, <1>2, ZenonT(40) DEF BamType, JTypeOK

LEMMA MainBamTyped ==
  ASSUME JTypeOK, NEW n \in Ecu, MainBam(n)
  PROVE  JTypeOK'
<1>1. bams[n] \in Nat /\ "main" \in Task /\ bams' \in [Ecu -> Nat]
  BY DEF MainBam, JTypeOK, BamType, Task
<1>2. BamType'
  BY <1>1, BegunTyped DEF MainBam
<1> QED
  BY <1>2 DEF JTypeOK, MainBam, EcuType, QueueType, PyType, pyVars

LEMMA SendsTyped ==
  ASSUME JTypeOK, NEW n \in Ecu, NEW t \in Task, BamSends(n, t)
  PROVE  /\ JTypeOK' /\ bam[n][t] \in BamState /\ bam[n][t].sa \in 0..253
         /\ \/ /\ OnBus(n, JFrame("tp", bam[n][t].sa, SaGlobal,
                                  [packet |-> bam[n][t].next, id |-> <<n, t, bam[n][t].id>>]), rx_msgq, rxq)
               /\ \/ bam[n][t].next = Packets /\ bam'[n][t] = NoBam
                  \/ /\ bam[n][t].next < Packets /\ bam'[n][t].sa = bam[n][t].sa
                     /\ bam'[n][t].id = bam[n][t].id /\ bam'[n][t].next = bam[n][t].next + 1
            \/ UNCHANGED rxq /\ bam'[n][t] = NoBam
         /\ \A m \in Ecu : \A u \in Task : m # n \/ u # t => bam'[m][u] = bam[m][u]
<1> DEFINE b == bam[n][t]
           f == JFrame("tp", b.sa, SaGlobal, [packet |-> b.next, id |-> <<n, t, b.id>>])
           c == [b EXCEPT !.next = b.next + 1]
<1>1. b \in BamState /\ b.sa \in 0..253 /\ b.next \in 0..Packets /\ b.id \in Nat /\ b # NoBam
  BY SMTT(30) DEF JTypeOK, BamType, BamState, BamSends
<1>2. NoBam \in BamState
  BY JConstants DEF NoBam, BamState, SaNull
<1>3. f \in Frame
  BY <1>1, PacketTyped DEF Snapshot
<1>4. b.next < Packets => c \in BamState /\ c.sa = b.sa /\ c.id = b.id /\ c.next = b.next + 1
  BY <1>1, JConstants DEF BamState
<1>5. b.next = Packets \/ b.next < Packets
  BY <1>1, JConstants
<1>6. \/ /\ OnBus(n, f, rx_msgq, rxq) /\ unheard' \in BOOLEAN
         /\ bam' = [bam EXCEPT ![n][t] = IF b.next = Packets THEN NoBam ELSE c]
      \/ UNCHANGED <<rx_msgq, rxq, unheard>> /\ bam' = [bam EXCEPT ![n][t] = NoBam]
  BY DEF BamSends, JTypeOK
<1>7. UNCHANGED <<claimer, peer, self_sa, addr_valid, bams, py, overlap>>
  BY DEF BamSends, pyVars
<1>8. QueueType' /\ unheard' \in BOOLEAN
  BY <1>3, <1>6, OnBusTyped DEF JTypeOK, QueueType
<1> HIDE DEF c, f
<1>9. PICK d \in BamState :
        /\ bam' = [bam EXCEPT ![n][t] = d] /\ (d = NoBam \/ d.sa = b.sa)
        /\ \/ /\ OnBus(n, f, rx_msgq, rxq)
              /\ \/ b.next = Packets /\ d = NoBam
                 \/ b.next < Packets /\ d.sa = b.sa /\ d.id = b.id /\ d.next = b.next + 1
           \/ UNCHANGED rxq /\ d = NoBam
  <2>1. CASE /\ OnBus(n, f, rx_msgq, rxq)
             /\ bam' = [bam EXCEPT ![n][t] = IF b.next = Packets THEN NoBam ELSE c]
    BY <1>1, <1>2, <1>4, <1>5, <2>1, JConstants
  <2>2. CASE UNCHANGED <<rx_msgq, rxq, unheard>> /\ bam' = [bam EXCEPT ![n][t] = NoBam]
    BY <1>2, <2>2
  <2> QED
    BY <1>6, <2>1, <2>2
<1>10. /\ bam' \in [Ecu -> [Task -> BamState]] /\ bam'[n][t] = d
       /\ \A m \in Ecu : \A u \in Task : m # n \/ u # t => bam'[m][u] = bam[m][u]
  <2>1. bam \in [Ecu -> [Task -> BamState]]
    BY DEF JTypeOK, BamType
  <2> QED
    BY <1>9, <2>1
<1>11. BamType'
  BY <1>1, <1>7, <1>9, <1>10, ZenonT(40) DEF BamType, JTypeOK
<1>12. JTypeOK'
  BY <1>7, <1>8, <1>11 DEF JTypeOK, EcuType, PyType
<1> QED
  BY <1>1, <1>9, <1>10, <1>12 DEF f

(* The thread that takes frames. *)
LEMMA RxTyped ==
  ASSUME JTypeOK, NEW n \in Ecu, RxTakes(n)
  PROVE  JTypeOK'
<1> DEFINE f == Head(rx_msgq[n])
<1>1. /\ rx_msgq[n] # <<>> /\ f \in Frame
      /\ RestOf(n) \in [Ecu -> Seq(Frame)] /\ rxq \in Seq(Frame)
  BY TailTyped DEF RxTakes, JTypeOK, QueueType
<1>2. UNCHANGED <<claimer, self_sa, bams, py>>
  BY DEF RxTakes, JRxOnly, pyVars
<1>3. PyType'
  BY <1>2 DEF PyType, JTypeOK
<1>4. Taken(n) => QueueType'
  BY <1>1 DEF Taken, QueueType
<1> HIDE DEF f
<1>5. CASE f.kind = "claimed" /\ RxClaimed(n, f)
  <2>1. f.what \in Nat
    BY <1>1, <1>5, FrameKinds
  <2>2. /\ addr_valid' \in [Ecu -> BOOLEAN] /\ \A m \in Ecu : addr_valid'[m] => addr_valid[m]
    BY <1>5 DEF RxClaimed, JTypeOK, EcuType
  <2>3. peer' \in [Ecu -> Peer]
    <3>1. [seen |-> TRUE, name |-> f.what] \in Peer
      BY <2>1 DEF Peer
    <3> QED
      BY <1>5, <3>1 DEF RxClaimed, JTypeOK, EcuType
  <2>4. EcuType'
    BY <1>2, <2>2, <2>3 DEF EcuType, JTypeOK
  <2>5. Taken(n) /\ UNCHANGED <<bam, overlap>> /\ unheard' \in BOOLEAN
    BY <1>5 DEF RxClaimed, JTypeOK
  <2> QED
    BY <1>2, <1>3, <1>4, <2>4, <2>5 DEF JTypeOK, BamType
<1>6. CASE f.kind = "request" /\ RxRequest(n, f)
  <2>1. EcuType' /\ BamType' /\ unheard' \in BOOLEAN /\ overlap' \in BOOLEAN
    BY <1>2, <1>6 DEF RxRequest, JTypeOK, EcuType, BamType
  <2>2. CASE ForUs(n, f)
    <3>1. JFrame("claimed", self_sa[n], SaGlobal, n) \in Frame
      <4>1. self_sa[n] \in 0..254 /\ n \in Name
        BY DEF JTypeOK, EcuType, Name
      <4> QED
        BY <4>1, FramesTyped
    <3>2. QueueType'
      BY <1>1, <1>6, <2>2, <3>1, OnBusTyped DEF RxRequest
    <3> QED
      BY <1>3, <2>1, <3>2 DEF JTypeOK
  <2>3. CASE ~ForUs(n, f)
    BY <1>3, <1>4, <1>6, <2>1, <2>3 DEF RxRequest, JTypeOK
  <2> QED
    BY <2>2, <2>3
<1>7. CASE f.kind = "ask" /\ RxAsk(n, f)
  <2>1. EcuType' /\ QueueType' /\ unheard' \in BOOLEAN /\ overlap' \in BOOLEAN
    BY <1>2, <1>4, <1>7 DEF RxAsk, JTypeOK, EcuType
  <2>2. BamType'
    <3>1. CASE ForUs(n, f)
      <4>1. f.what \in Nat /\ "rx" \in Task /\ bams' \in [Ecu -> Nat]
        BY <1>1, <1>2, <1>7, FrameKinds DEF Task, JTypeOK, BamType
      <4> QED
        BY <1>7, <3>1, <4>1, BegunTyped DEF RxAsk, ForUs
    <3>2. CASE ~ForUs(n, f)
      BY <1>2, <1>7, <3>2 DEF RxAsk, BamType, JTypeOK
    <3> QED
      BY <3>1, <3>2
  <2> QED
    BY <1>3, <2>1, <2>2 DEF JTypeOK
<1>8. CASE f.kind = "tp" /\ Taken(n) /\ UNCHANGED <<addr_valid, peer, bam, unheard, overlap>>
  BY <1>2, <1>3, <1>4, <1>8 DEF JTypeOK, EcuType, BamType
<1> QED
  BY <1>5, <1>6, <1>7, <1>8 DEF RxTakes, f

(* The host leaves the nodes alone. *)
LEMMA PyApart ==
  ASSUME JTypeOK, PyOnly
  PROVE  EcuType' /\ BamType' /\ overlap' \in BOOLEAN
BY DEF JTypeOK, PyOnly, ecuVars, EcuType, BamType

(* The fields of the host's state, after an assignment to some of them. *)
SameBut(q, at, sa, cand, v, p) == q.at = at /\ q.sa = sa /\ q.cand = cand /\ q.valid = v /\ q.peer = p

LEMMA RecAt ==
  ASSUME NEW r \in PyState, NEW at \in PyAt
  PROVE  /\ [r EXCEPT !.at = at] \in PyState
         /\ SameBut([r EXCEPT !.at = at], at, r.sa, r.cand, r.valid, r.peer)
BY DEF PyState, SameBut

LEMMA RecReqs ==
  ASSUME NEW r \in PyState, NEW k \in Nat
  PROVE  /\ [r EXCEPT !.reqs = k] \in PyState
         /\ SameBut([r EXCEPT !.reqs = k], r.at, r.sa, r.cand, r.valid, r.peer)
BY DEF PyState, SameBut

LEMMA RecAtPeer ==
  ASSUME NEW r \in PyState, NEW at \in PyAt, NEW p \in Peer
  PROVE  /\ [r EXCEPT !.at = at, !.peer = p] \in PyState
         /\ SameBut([r EXCEPT !.at = at, !.peer = p], at, r.sa, r.cand, r.valid, p)
<1>1. PICK q1 \in PyState : q1 = [r EXCEPT !.at = at]
  <2>1. [r EXCEPT !.at = at] \in PyState
    BY DEF PyState
  <2> QED
    BY <2>1
<1>2. PICK q2 \in PyState : q2 = [q1 EXCEPT !.peer = p]
  <2>1. [q1 EXCEPT !.peer = p] \in PyState
    BY DEF PyState
  <2> QED
    BY <2>1
<1>3. [r EXCEPT !.at = at, !.peer = p] = q2
  BY <1>1, <1>2 DEF PyState
<1>4. SameBut(q2, at, r.sa, r.cand, r.valid, p)
  BY <1>1, <1>2 DEF PyState, SameBut
<1> QED
  BY <1>3, <1>4

LEMMA RecAtSaValid ==
  ASSUME NEW r \in PyState, NEW at \in PyAt, NEW sa \in 0..254, NEW v \in BOOLEAN
  PROVE  /\ [r EXCEPT !.at = at, !.sa = sa, !.valid = v] \in PyState
         /\ SameBut([r EXCEPT !.at = at, !.sa = sa, !.valid = v], at, sa, r.cand, v, r.peer)
<1>1. PICK q1 \in PyState : q1 = [r EXCEPT !.at = at]
  <2>1. [r EXCEPT !.at = at] \in PyState
    BY DEF PyState
  <2> QED
    BY <2>1
<1>2. PICK q2 \in PyState : q2 = [q1 EXCEPT !.sa = sa]
  <2>1. [q1 EXCEPT !.sa = sa] \in PyState
    BY DEF PyState
  <2> QED
    BY <2>1
<1>3. PICK q3 \in PyState : q3 = [q2 EXCEPT !.valid = v]
  <2>1. [q2 EXCEPT !.valid = v] \in PyState
    BY DEF PyState
  <2> QED
    BY <2>1
<1>4. [r EXCEPT !.at = at, !.sa = sa, !.valid = v] = q3
  BY <1>1, <1>2, <1>3 DEF PyState
<1>5. SameBut(q3, at, sa, r.cand, v, r.peer)
  BY <1>1, <1>2, <1>3 DEF PyState, SameBut
<1> QED
  BY <1>4, <1>5

LEMMA RecAtCand ==
  ASSUME NEW r \in PyState, NEW at \in PyAt, NEW cand \in 0..253
  PROVE  /\ [r EXCEPT !.at = at, !.cand = cand] \in PyState
         /\ SameBut([r EXCEPT !.at = at, !.cand = cand], at, r.sa, cand, r.valid, r.peer)
<1>1. PICK q1 \in PyState : q1 = [r EXCEPT !.at = at]
  <2>1. [r EXCEPT !.at = at] \in PyState
    BY DEF PyState
  <2> QED
    BY <2>1
<1>2. PICK q2 \in PyState : q2 = [q1 EXCEPT !.cand = cand]
  <2>1. [q1 EXCEPT !.cand = cand] \in PyState
    BY DEF PyState
  <2> QED
    BY <2>1
<1>3. [r EXCEPT !.at = at, !.cand = cand] = q2
  BY <1>1, <1>2 DEF PyState
<1>4. SameBut(q2, at, r.sa, cand, r.valid, r.peer)
  BY <1>1, <1>2 DEF PyState, SameBut
<1> QED
  BY <1>3, <1>4

LEMMA RecAtSa ==
  ASSUME NEW r \in PyState, NEW at \in PyAt, NEW sa \in 0..254
  PROVE  /\ [r EXCEPT !.at = at, !.sa = sa] \in PyState
         /\ SameBut([r EXCEPT !.at = at, !.sa = sa], at, sa, r.cand, r.valid, r.peer)
<1>1. PICK q1 \in PyState : q1 = [r EXCEPT !.at = at]
  <2>1. [r EXCEPT !.at = at] \in PyState
    BY DEF PyState
  <2> QED
    BY <2>1
<1>2. PICK q2 \in PyState : q2 = [q1 EXCEPT !.sa = sa]
  <2>1. [q1 EXCEPT !.sa = sa] \in PyState
    BY DEF PyState
  <2> QED
    BY <2>1
<1>3. [r EXCEPT !.at = at, !.sa = sa] = q2
  BY <1>1, <1>2 DEF PyState
<1>4. SameBut(q2, at, sa, r.cand, r.valid, r.peer)
  BY <1>1, <1>2 DEF PyState, SameBut
<1> QED
  BY <1>3, <1>4

LEMMA RecPeerValid ==
  ASSUME NEW r \in PyState, NEW p \in Peer, NEW v \in BOOLEAN
  PROVE  /\ [r EXCEPT !.peer = p, !.valid = v] \in PyState
         /\ SameBut([r EXCEPT !.peer = p, !.valid = v], r.at, r.sa, r.cand, v, p)
<1>1. PICK q1 \in PyState : q1 = [r EXCEPT !.peer = p]
  <2>1. [r EXCEPT !.peer = p] \in PyState
    BY DEF PyState
  <2> QED
    BY <2>1
<1>2. PICK q2 \in PyState : q2 = [q1 EXCEPT !.valid = v]
  <2>1. [q1 EXCEPT !.valid = v] \in PyState
    BY DEF PyState
  <2> QED
    BY <2>1
<1>3. [r EXCEPT !.peer = p, !.valid = v] = q2
  BY <1>1, <1>2 DEF PyState
<1>4. SameBut(q2, r.at, r.sa, r.cand, v, p)
  BY <1>1, <1>2 DEF PyState, SameBut
<1> QED
  BY <1>3, <1>4

LEMMA PyTyped ==
  ASSUME JTypeOK, PyNext
  PROVE  JTypeOK'
<1>1. PyOnly
  BY DEF PyNext, PyBegins, PyWakes, PyAnnounces, PyDecides, PyReclaims, PyRequests, PyHandles, Sweep
<1>2. EcuType' /\ BamType' /\ overlap' \in BOOLEAN
  BY <1>1, PyApart
<1>3. /\ HostName \in Name /\ py.sa \in 0..254 /\ py.cand \in 0..253 /\ Preferred \in 0..253
      /\ py.reqs \in Nat /\ py.peer \in Peer
      /\ rx_msgq \in [Ecu -> Seq(Frame)] /\ rxq \in Seq(Frame)
  BY JConstants DEF Name, JTypeOK, PyType, PyState, QueueType
<1>4. NoPeer \in Peer /\ TRUE \in BOOLEAN /\ PyAt = {"claim", "window", "drain1", "settle", "drain2", "run"}
  BY DEF NoPeer, Peer, PyAt
<1>13. py \in PyState /\ py.valid \in BOOLEAN /\ (py.valid => py.at = "run" /\ py.sa \in 0..253)
  BY DEF JTypeOK, PyType, PyState
<1>5. CASE PyBegins
  <2>1. QueueType'
    BY <1>3, <1>5, FramesTyped, OnBusTyped DEF PyBegins
  <2>2. PyType'
    <3>1. py' = [py EXCEPT !.at = "window", !.peer = NoPeer] /\ py.at = "claim"
      BY <1>5 DEF PyBegins
    <3>2. py' \in PyState /\ SameBut(py', "window", py.sa, py.cand, py.valid, NoPeer)
      BY <1>3, <1>4, <1>13, <3>1, RecAtPeer
    <3> QED
      BY <1>13, <3>1, <3>2 DEF PyType, SameBut
  <2> QED
    BY <1>2, <1>5, <2>1, <2>2 DEF PyBegins, JTypeOK
<1>6. CASE PyWakes
  <2>1. PICK at \in PyAt : py' = [py EXCEPT !.at = at] /\ py.at # "run"
    BY <1>4, <1>6 DEF PyWakes, PyGoes
  <2>2. py' \in PyState /\ SameBut(py', at, py.sa, py.cand, py.valid, py.peer)
    BY <1>3, <1>13, <2>1, RecAt
  <2>3. PyType'
    BY <1>13, <2>1, <2>2 DEF PyType, SameBut
  <2> QED
    BY <1>2, <1>6, <2>3 DEF PyWakes, JTypeOK, QueueType
<1>7. CASE PyAnnounces
  <2>1. QueueType'
    BY <1>3, <1>7, FramesTyped, OnBusTyped DEF PyAnnounces
  <2>2. PyType'
    <3>1. py' = [py EXCEPT !.at = "settle"] /\ py.at = "drain1"
      BY <1>7 DEF PyAnnounces, PyGoes
    <3>2. py' \in PyState /\ SameBut(py', "settle", py.sa, py.cand, py.valid, py.peer)
      BY <1>3, <1>4, <1>13, <3>1, RecAt
    <3> QED
      BY <1>13, <3>1, <3>2 DEF PyType, SameBut
  <2> QED
    BY <1>2, <1>7, <2>1, <2>2 DEF PyAnnounces, JTypeOK
<1>8. CASE PyDecides
  <2>1. UNCHANGED <<rx_msgq, rxq>> /\ unheard' \in BOOLEAN
    BY <1>8 DEF PyDecides, JTypeOK
  <2>2. ~py.valid
    BY <1>8 DEF PyDecides, JTypeOK, PyType, PyState
  <2>3. CASE ~PyLoses
    <3>1. py' = [py EXCEPT !.at = "run", !.sa = py.cand, !.valid = TRUE] /\ py.cand \in 0..254
      BY <1>3, <1>8, <2>3 DEF PyDecides
    <3>2. PyType'
      <4>1. "run" \in PyAt
        BY <1>4
      <4>2. py' \in PyState /\ SameBut(py', "run", py.cand, py.cand, TRUE, py.peer)
        BY <1>3, <1>4, <1>13, <3>1, <4>1, RecAtSaValid
      <4> QED
        BY <1>3, <4>2 DEF PyType, SameBut
    <3> QED
      BY <1>2, <2>1, <3>2 DEF JTypeOK, QueueType
  <2>4. CASE PyLoses /\ py.cand > 0
    <3>1. py' = [py EXCEPT !.at = "claim", !.cand = py.cand - 1] /\ py.cand - 1 \in 0..253
      BY <1>3, <1>8, <2>4 DEF PyDecides
    <3>2. PyType'
      <4>1. py' \in PyState /\ SameBut(py', "claim", py.sa, py.cand - 1, py.valid, py.peer)
        BY <1>3, <1>4, <1>13, <3>1, RecAtCand
      <4> QED
        BY <2>2, <4>1 DEF PyType, SameBut
    <3> QED
      BY <1>2, <2>1, <3>2 DEF JTypeOK, QueueType
  <2>5. CASE PyLoses /\ ~(py.cand > 0)
    <3>1. py' = [py EXCEPT !.at = "run", !.sa = SaNull] /\ SaNull \in 0..254
      BY <1>8, <2>5 DEF PyDecides, SaNull
    <3>2. PyType'
      <4>1. py' \in PyState /\ SameBut(py', "run", SaNull, py.cand, py.valid, py.peer)
        BY <1>3, <1>4, <1>13, <3>1, RecAtSa
      <4> QED
        BY <2>2, <4>1 DEF PyType, SameBut
    <3> QED
      BY <1>2, <2>1, <3>2 DEF JTypeOK, QueueType
  <2> QED
    BY <2>3, <2>4, <2>5
<1>9. CASE PyReclaims
  <2>1. py' = [py EXCEPT !.at = "claim", !.cand = py.sa] /\ py.sa \in 0..253 /\ ~py.valid
    BY <1>3, <1>9 DEF PyReclaims, SaNull
  <2>2. PyType'
    <3>1. py' \in PyState /\ SameBut(py', "claim", py.sa, py.sa, py.valid, py.peer)
      BY <1>3, <1>4, <1>13, <2>1, RecAtCand
    <3> QED
      BY <2>1, <3>1 DEF PyType, SameBut
  <2> QED
    BY <1>2, <1>9, <2>2 DEF PyReclaims, JTypeOK, QueueType
<1>10. CASE PyRequests
  <2>1. QueueType'
    BY <1>3, <1>10, FramesTyped, OnBusTyped DEF PyRequests
  <2>2. PyType'
    <3>1. py' = [py EXCEPT !.reqs = py.reqs - 1] /\ py.reqs - 1 \in Nat
      BY <1>3, <1>10 DEF PyRequests
    <3> QED
      <4>1. py' \in PyState /\ SameBut(py', py.at, py.sa, py.cand, py.valid, py.peer)
        BY <1>3, <1>4, <1>13, <3>1, RecReqs
      <4> QED
        BY <1>13, <4>1 DEF PyType, SameBut
  <2> QED
    BY <1>2, <1>10, <2>1, <2>2 DEF PyRequests, JTypeOK
<1>11. CASE PyHandles
  <2> DEFINE f == Head(rxq)
  <2>1. f \in Frame /\ Tail(rxq) \in Seq(Frame)
    BY <1>3, <1>11 DEF PyHandles
  <2> HIDE DEF f
  <2>2. CASE f.kind = "claimed" /\ PyClaimed(f)
    <3>1. f.what \in Nat
      BY <2>1, <2>2, FrameKinds
    <3>2. UNCHANGED rx_msgq /\ rxq' = Tail(rxq) /\ unheard' \in BOOLEAN
      BY <2>2 DEF PyClaimed, JTypeOK
    <3>3. PyType'
      <4>1. [seen |-> TRUE, name |-> f.what] \in Peer
        BY <3>1 DEF Peer
      <4>2. PICK p \in Peer, v \in BOOLEAN : py' = [py EXCEPT !.peer = p, !.valid = v] /\ (v => py.valid)
        BY <1>3, <2>2, <4>1 DEF PyClaimed, JTypeOK, PyType, PyState
      <4> QED
        <5>1. py' \in PyState /\ SameBut(py', py.at, py.sa, py.cand, v, p)
          BY <1>3, <1>4, <1>13, <4>2, RecPeerValid
        <5> QED
          BY <1>13, <4>2, <5>1 DEF PyType, SameBut
    <3> QED
      BY <1>2, <1>3, <2>1, <3>2, <3>3 DEF JTypeOK, QueueType
  <2>3. CASE f.kind = "request" /\ PyAsked(f)
    <3>1. UNCHANGED py /\ unheard' \in BOOLEAN
      BY <2>3 DEF PyAsked, JTypeOK
    <3>2. QueueType'
      <4>1. CASE f.da \in {py.sa, SaGlobal} /\ py.valid
        <5>1. JFrame("claimed", py.sa, SaGlobal, HostName) \in Frame
          BY <1>3, FramesTyped
        <5> QED
          BY <1>3, <1>11, <2>1, <2>3, <4>1, <5>1, OnBusTyped DEF PyAsked, f
      <4>2. CASE ~(f.da \in {py.sa, SaGlobal} /\ py.valid)
        BY <1>3, <2>1, <2>3, <4>2 DEF PyAsked, QueueType
      <4> QED
        BY <4>1, <4>2
    <3> QED
      BY <1>2, <3>1, <3>2 DEF JTypeOK, PyType
  <2>4. CASE f.kind = "tp" /\ rxq' = Tail(rxq) /\ UNCHANGED <<py, rx_msgq, unheard>>
    BY <1>2, <1>3, <2>1, <2>4 DEF JTypeOK, PyType, QueueType
  <2> QED
    BY <1>11, <2>2, <2>3, <2>4 DEF PyHandles, f
<1>12. CASE Sweep
  BY <1>2, <1>12 DEF Sweep, JTypeOK, PyType, QueueType
<1> QED
  BY <1>5, <1>6, <1>7, <1>8, <1>9, <1>10, <1>11, <1>12 DEF PyNext

-----------------------------------------------------------------------------
(* Broadcasts.  Of two frames of one address in the queue of the host, the  *)
(* later is of the same snapshot, or a control frame comes in between; so   *)
(* it is with a session and the queue, the queue and a sender, and the      *)
(* sender and a session.                                                    *)
Real == 0..253
IsTp(q, i, sa) == i \in 1..Len(q) /\ q[i].kind = "tp" /\ q[i].sa = sa
Opens(q, i, sa) == IsTp(q, i, sa) /\ q[i].what.packet = 0
Id(q, i) == q[i].what.id
Even(m) == \A i \in DOMAIN m : m[i] = m[1]

FlowsOn(q) == \A sa \in Real : \A i \in Nat : \A j \in Nat :
  IsTp(q, i, sa) /\ IsTp(q, j, sa) /\ i < j =>
    Id(q, i) = Id(q, j) \/ \E k \in Nat : i < k /\ k <= j /\ Opens(q, k, sa)
EndsIn(q, sa, id) == \A i \in Nat :
  IsTp(q, i, sa) => Id(q, i) = id \/ \E k \in Nat : i < k /\ Opens(q, k, sa)
Begun(q, s) == s.buf # <<>> => \A i \in Nat :
  IsTp(q, i, s.sa) => Id(q, i) = s.buf[1] \/ \E k \in Nat : k <= i /\ Opens(q, k, s.sa)
Reaches(q, s, sa, id) == s.sa = sa /\ s.buf # <<>> =>
  s.buf[1] = id \/ \E k \in Nat : Opens(q, k, sa)

IdOf(n, t) == <<n, t, bam[n][t].id>>
Midway(n, t) == bam[n][t] # NoBam /\ bam[n][t].next > 0

OneBam == \A n \in Ecu : \A t \in Task : \A m \in Ecu : \A u \in Task :
  bam[n][t] # NoBam /\ bam[m][u] # NoBam /\ bam[n][t].sa = bam[m][u].sa => n = m /\ t = u
BamsFit == \A n \in Ecu : \A t \in Task : Midway(n, t) =>
  /\ EndsIn(rxq, bam[n][t].sa, IdOf(n, t))
  /\ \A s \in sessions : Reaches(rxq, s, bam[n][t].sa, IdOf(n, t))
SessType ==
  /\ \A s \in sessions : s.sa \in Real /\ s.buf \in Seq(Snapshot)
  /\ rebuilt \subseteq Seq(Snapshot)
StreamInv ==
  /\ FlowsOn(rxq) /\ OneBam /\ BamsFit
  /\ \A s \in sessions : Begun(rxq, s) /\ Even(s.buf)
  /\ \A m \in rebuilt : Even(m)
BamInv == ~overlap => SessType /\ StreamInv

LEMMA TpOfAppend ==
  ASSUME NEW q \in Seq(Frame), NEW f \in Frame, NEW sa \in Real, NEW i \in Nat
  PROVE  /\ IsTp(q, i, sa) => IsTp(Append(q, f), i, sa) /\ Id(Append(q, f), i) = Id(q, i) /\ i < Len(q) + 1
         /\ Opens(q, i, sa) => Opens(Append(q, f), i, sa) /\ i < Len(q) + 1
         /\ IsTp(Append(q, f), i, sa) =>
              IsTp(q, i, sa) \/ (i = Len(q) + 1 /\ f.kind = "tp" /\ f.sa = sa)
<1>1. /\ Len(Append(q, f)) = Len(q) + 1 /\ Len(q) \in Nat
      /\ Append(q, f)[Len(q) + 1] = f
      /\ \A k \in 1..Len(q) : Append(q, f)[k] = q[k]
  BY AppendProperties
<1> QED
  BY <1>1 DEF IsTp, Opens, Id

LEMMA LastTp ==
  ASSUME NEW q \in Seq(Frame), NEW f \in Frame
  PROVE  /\ Len(q) + 1 \in Nat /\ Id(Append(q, f), Len(q) + 1) = f.what.id
         /\ f.kind = "tp" /\ f.what.packet = 0 => Opens(Append(q, f), Len(q) + 1, f.sa)
<1>1. /\ Len(Append(q, f)) = Len(q) + 1 /\ Len(q) \in Nat
      /\ Append(q, f)[Len(q) + 1] = f
  BY AppendProperties
<1> QED
  BY <1>1 DEF IsTp, Opens, Id

LEMMA TpOfTail ==
  ASSUME NEW q \in Seq(Frame), q # <<>>, NEW sa \in Real, NEW i \in Nat
  PROVE  /\ IsTp(Tail(q), i, sa) => i > 0 /\ IsTp(q, i + 1, sa) /\ Id(Tail(q), i) = Id(q, i + 1)
         /\ i > 1 /\ Opens(q, i, sa) => i - 1 \in Nat /\ Opens(Tail(q), i - 1, sa)
<1>1. /\ Len(Tail(q)) = Len(q) - 1 /\ Len(q) \in Nat
      /\ \A k \in 1..Len(Tail(q)) : Tail(q)[k] = q[k + 1]
  OBVIOUS
<1>2. IsTp(Tail(q), i, sa) => i > 0 /\ IsTp(q, i + 1, sa) /\ Id(Tail(q), i) = Id(q, i + 1)
  BY <1>1 DEF IsTp, Id
<1>3. ASSUME i > 1, Opens(q, i, sa) PROVE i - 1 \in Nat /\ Opens(Tail(q), i - 1, sa)
  <2>1. i - 1 \in 1..Len(Tail(q)) /\ Tail(q)[i - 1] = q[i]
    BY <1>1, <1>3 DEF Opens, IsTp
  <2> QED
    BY <1>3, <2>1 DEF Opens, IsTp
<1> QED
  BY <1>2, <1>3

(* What does not concern the broadcasts. *)
LEMMA StreamSame ==
  ASSUME JTypeOK, BamInv, UNCHANGED <<bam, sessions, rebuilt, overlap>>,
         NEW f \in Frame, f.kind # "tp", rxq' = rxq \/ rxq' = Append(rxq, f)
  PROVE  BamInv'
<1>1. CASE rxq' = rxq
  BY <1>1 DEF BamInv, SessType, StreamInv, OneBam, BamsFit, Midway, IdOf
<1>2. CASE rxq' = Append(rxq, f)
  <2> SUFFICES ASSUME ~overlap, StreamInv PROVE StreamInv'
    BY DEF BamInv, SessType
  <2> DEFINE q == Append(rxq, f)
  <2>1. /\ \A sa \in Real : \A i \in Nat : IsTp(q, i, sa) <=> IsTp(rxq, i, sa)
        /\ \A sa \in Real : \A i \in Nat : IsTp(rxq, i, sa) => Id(q, i) = Id(rxq, i)
        /\ \A sa \in Real : \A i \in Nat : Opens(rxq, i, sa) => Opens(q, i, sa)
    <3>1. rxq \in Seq(Frame)
      BY DEF JTypeOK, QueueType
    <3>2. ASSUME NEW sa \in Real, NEW i \in Nat
          PROVE  /\ IsTp(q, i, sa) <=> IsTp(rxq, i, sa)
                 /\ IsTp(rxq, i, sa) => Id(q, i) = Id(rxq, i)
                 /\ Opens(rxq, i, sa) => Opens(q, i, sa)
      <4>1. /\ IsTp(rxq, i, sa) => IsTp(q, i, sa) /\ Id(q, i) = Id(rxq, i)
            /\ Opens(rxq, i, sa) => Opens(q, i, sa)
            /\ IsTp(q, i, sa) => IsTp(rxq, i, sa) \/ f.kind = "tp"
        BY <3>1, TpOfAppend
      <4> QED
        BY <4>1
    <3> QED
      BY <3>2
  <2> HIDE DEF q
  <2>2. FlowsOn(q)
    BY <2>1 DEF StreamInv, FlowsOn
  <2>3. \A sa \in Real : \A id : EndsIn(rxq, sa, id) => EndsIn(q, sa, id)
    BY <2>1 DEF EndsIn
  <2>4. \A s : s.sa \in Real => (Begun(rxq, s) => Begun(q, s))
    BY <2>1 DEF Begun
  <2>5. \A s : \A id : \A sa \in Real : Reaches(rxq, s, sa, id) => Reaches(q, s, sa, id)
    BY <2>1 DEF Reaches
  <2>6. \A n \in Ecu : \A t \in Task : Midway(n, t) => bam[n][t].sa \in Real
    BY DEF Midway, JTypeOK, BamType, Real
  <2>7. rxq' = q
    BY <1>2 DEF q
  <2>8. BamsFit'
    BY <2>3, <2>5, <2>6, <2>7 DEF StreamInv, BamsFit, Midway, IdOf
  <2>9. \A s \in sessions : Begun(rxq, s)'
    BY <2>4, <2>7 DEF StreamInv, BamInv, SessType
  <2> QED
    BY <2>2, <2>7, <2>8, <2>9 DEF StreamInv, OneBam
<1> QED
  BY <1>1, <1>2

(* A broadcast begins.  No other one has its address. *)
LEMMA StreamBegins ==
  ASSUME JTypeOK, BamInv, NEW n \in Ecu, NEW t \in Task, NEW id \in Nat, addr_valid[n],
         bam' = Bam(n, t, id), overlap' = (overlap \/ Under(self_sa[n]) # {}),
         UNCHANGED <<sessions, rebuilt, rxq>>
  PROVE  BamInv'
<1> SUFFICES ASSUME ~overlap, Under(self_sa[n]) = {}, StreamInv PROVE StreamInv'
  BY DEF BamInv, SessType
<1>1. /\ bam'[n][t] = [sa |-> self_sa[n], id |-> id, next |-> 0] /\ self_sa[n] \in 0..253
      /\ \A m \in Ecu : \A u \in Task : m # n \/ u # t => bam'[m][u] = bam[m][u]
  BY BamBegun
<1>2. \A m \in Ecu : \A u \in Task : bam[m][u].sa # self_sa[n]
  <2> SUFFICES ASSUME NEW m \in Ecu, NEW u \in Task, bam[m][u].sa = self_sa[n] PROVE FALSE
    OBVIOUS
  <2>1. <<m, u>> \in Under(self_sa[n])
    BY DEF Under
  <2> QED
    BY <2>1
<1>3. bam'[n][t].sa = self_sa[n] /\ ~(bam'[n][t].next > 0)
  BY <1>1
<1>4. OneBam'
  BY <1>1, <1>2, <1>3 DEF OneBam, StreamInv
<1>5. \A m \in Ecu : \A u \in Task : Midway(m, u)' => (m # n \/ u # t)
  BY <1>3 DEF Midway
<1>6. BamsFit'
  BY <1>1, <1>5 DEF StreamInv, BamsFit, Midway, IdOf
<1> QED
  BY <1>4, <1>6 DEF StreamInv

(* A packet is sent.                                                        *)
LEMMA StreamSends ==
  ASSUME JTypeOK, BamInv, NEW n \in Ecu, NEW t \in Task, BamSends(n, t)
  PROVE  BamInv'
<1> DEFINE b == bam[n][t]
           id == <<n, t, b.id>>
           f == JFrame("tp", b.sa, SaGlobal, [packet |-> b.next, id |-> id])
           q == Append(rxq, f)
<1>1. /\ b \in BamState /\ b.sa \in 0..253 /\ b.sa \in Real /\ b # NoBam
      /\ \/ /\ OnBus(n, f, rx_msgq, rxq)
            /\ \/ bam'[n][t] = NoBam
               \/ bam'[n][t].sa = b.sa /\ bam'[n][t].id = b.id /\ bam'[n][t].next = b.next + 1
         \/ UNCHANGED rxq /\ bam'[n][t] = NoBam
      /\ \A m \in Ecu : \A u \in Task : m # n \/ u # t => bam'[m][u] = bam[m][u]
  BY SendsTyped, ZenonT(40) DEF BamSends, Real
<1>2. UNCHANGED <<sessions, rebuilt, overlap>>
  BY DEF BamSends, pyVars
<1> SUFFICES ASSUME ~overlap, StreamInv PROVE StreamInv'
  BY <1>2 DEF BamInv, SessType
<1>3. \A s \in sessions : s.sa \in Real
  BY DEF BamInv, SessType
<1>4. OneBam'
  BY <1>1 DEF StreamInv, OneBam
<1>5. b.next \in Nat /\ f \in Frame /\ f.kind = "tp" /\ f.sa = b.sa /\ f.what.packet = b.next /\ f.what.id = id
  <2>1. b.next \in 0..Packets /\ b.id \in Nat
    BY <1>1 DEF BamState
  <2>2. id \in Snapshot
    BY <2>1 DEF Snapshot
  <2> QED
    <3>1. f \in Frame
      BY <1>1, <2>1, <2>2, PacketTyped
    <3> QED
      BY <2>1, <3>1 DEF JFrame
<1> HIDE DEF f, id
<1>6. CASE UNCHANGED rxq /\ bam'[n][t] = NoBam
  <2>1. BamsFit'
    BY <1>1, <1>2, <1>6 DEF StreamInv, BamsFit, Midway, IdOf
  <2> QED
    BY <1>2, <1>4, <1>6, <2>1 DEF StreamInv
<1>7. CASE /\ OnBus(n, f, rx_msgq, rxq)
           /\ \/ bam'[n][t] = NoBam
              \/ bam'[n][t].sa = b.sa /\ bam'[n][t].id = b.id /\ bam'[n][t].next = b.next + 1
  <2> DEFINE e == Len(rxq) + 1
  <2>1. rxq \in Seq(Frame) /\ e \in Nat /\ rxq' = q
    <3>1. n # HostName /\ rxq \in Seq(Frame)
      BY JConstants DEF JTypeOK, QueueType
    <3> QED
      BY <1>7, <3>1 DEF OnBus
  <2>2. /\ \A sa \in Real : \A i \in Nat : IsTp(q, i, sa) => IsTp(rxq, i, sa) \/ (i = e /\ sa = b.sa)
        /\ \A sa \in Real : \A i \in Nat : IsTp(rxq, i, sa) => Id(q, i) = Id(rxq, i) /\ i < e
        /\ \A sa \in Real : \A i \in Nat : Opens(rxq, i, sa) => Opens(q, i, sa) /\ i < e
        /\ Id(q, e) = id
        /\ b.next = 0 => Opens(q, e, b.sa)
    <3>1. ASSUME NEW sa \in Real, NEW i \in Nat
          PROVE  /\ IsTp(q, i, sa) => IsTp(rxq, i, sa) \/ (i = e /\ sa = b.sa)
                 /\ IsTp(rxq, i, sa) => Id(q, i) = Id(rxq, i) /\ i < e
                 /\ Opens(rxq, i, sa) => Opens(q, i, sa) /\ i < e
      <4>1. /\ IsTp(rxq, i, sa) => IsTp(q, i, sa) /\ Id(q, i) = Id(rxq, i) /\ i < e
            /\ Opens(rxq, i, sa) => Opens(q, i, sa) /\ i < e
            /\ IsTp(q, i, sa) => IsTp(rxq, i, sa) \/ (i = e /\ f.kind = "tp" /\ f.sa = sa)
        BY <1>5, <2>1, TpOfAppend
      <4> QED
        BY <1>5, <4>1
    <3>2. Id(q, e) = id /\ (b.next = 0 => Opens(q, e, b.sa))
      BY <1>5, <2>1, LastTp
    <3> QED
      BY <3>1, <3>2
  <2> HIDE DEF q, e
  <2>3. b.next = 0 \/ Midway(n, t)
    BY <1>1, <1>5 DEF Midway
  <2>4. IdOf(n, t) = id
    BY DEF IdOf, id
  <2>5. EndsIn(rxq, b.sa, id) \/ Opens(q, e, b.sa)
    BY <2>2, <2>3, <2>4 DEF StreamInv, BamsFit
  <2>6. \A s \in sessions : Reaches(rxq, s, b.sa, id) \/ Opens(q, e, b.sa)
    BY <2>2, <2>3, <2>4 DEF StreamInv, BamsFit
  <2>7. FlowsOn(q)
    <3> SUFFICES ASSUME NEW sa \in Real, NEW i \in Nat, NEW j \in Nat, IsTp(q, i, sa), IsTp(q, j, sa), i < j
                 PROVE  Id(q, i) = Id(q, j) \/ \E k \in Nat : i < k /\ k <= j /\ Opens(q, k, sa)
      BY DEF FlowsOn
    <3>1. CASE IsTp(rxq, j, sa)
      <4>1. IsTp(rxq, i, sa)
        BY <2>1, <2>2, <3>1
      <4> QED
        BY <2>2, <3>1, <4>1 DEF StreamInv, FlowsOn
    <3>2. CASE j = e /\ sa = b.sa
      <4>1. IsTp(rxq, i, sa) /\ i < e
        BY <2>1, <2>2, <3>2
      <4>2. CASE Opens(q, e, b.sa)
        BY <2>1, <3>2, <4>1, <4>2
      <4>3. CASE EndsIn(rxq, b.sa, id)
        <5>1. Id(rxq, i) = id \/ \E k \in Nat : i < k /\ Opens(rxq, k, sa)
          BY <3>2, <4>1, <4>3 DEF EndsIn
        <5> QED
          BY <2>1, <2>2, <3>2, <4>1, <5>1
      <4> QED
        BY <2>5, <4>2, <4>3
    <3> QED
      BY <2>2, <3>1, <3>2
  <2>8. \A s \in sessions : Begun(q, s)
    <3> SUFFICES ASSUME NEW s \in sessions, s.buf # <<>>, NEW i \in Nat, IsTp(q, i, s.sa)
                 PROVE  Id(q, i) = s.buf[1] \/ \E k \in Nat : k <= i /\ Opens(q, k, s.sa)
      BY DEF Begun
    <3>1. CASE IsTp(rxq, i, s.sa)
      BY <1>3, <2>2, <3>1 DEF StreamInv, Begun
    <3>2. CASE i = e /\ s.sa = b.sa
      <4>1. CASE Opens(q, e, b.sa)
        BY <2>1, <3>2, <4>1
      <4>2. CASE Reaches(rxq, s, b.sa, id)
        <5>1. s.buf[1] = id \/ \E k \in Nat : Opens(rxq, k, s.sa)
          BY <3>2, <4>2 DEF Reaches
        <5> QED
          BY <1>3, <2>1, <2>2, <3>2, <5>1
      <4> QED
        BY <2>6, <4>1, <4>2
    <3> QED
      BY <1>3, <2>2, <3>1, <3>2
  <2>9. EndsIn(q, b.sa, id)
    <3> SUFFICES ASSUME NEW i \in Nat, IsTp(q, i, b.sa)
                 PROVE  Id(q, i) = id \/ \E k \in Nat : i < k /\ Opens(q, k, b.sa)
      BY DEF EndsIn
    <3>1. CASE i = e
      BY <2>2, <3>1
    <3>2. CASE IsTp(rxq, i, b.sa)
      BY <1>1, <2>1, <2>2, <2>5, <3>2 DEF EndsIn
    <3> QED
      BY <1>1, <2>2, <3>1, <3>2
  <2>10. \A s \in sessions : Reaches(q, s, b.sa, id)
    BY <1>1, <2>1, <2>2, <2>6 DEF Reaches
  <2>11. BamsFit'
    <3> SUFFICES ASSUME NEW m \in Ecu, NEW u \in Task, Midway(m, u)'
                 PROVE  /\ EndsIn(q, bam'[m][u].sa, IdOf(m, u)')
                        /\ \A s \in sessions : Reaches(q, s, bam'[m][u].sa, IdOf(m, u)')
      BY <1>2, <2>1 DEF BamsFit
    <3>1. CASE m = n /\ u = t
      <4>1. bam'[n][t].sa = b.sa /\ IdOf(m, u)' = id
        BY <1>7, <3>1 DEF Midway, IdOf, id
      <4> QED
        BY <2>9, <2>10, <3>1, <4>1
    <3>2. CASE m # n \/ u # t
      <4> DEFINE c == bam[m][u]
      <4>1. bam'[m][u] = c /\ IdOf(m, u)' = IdOf(m, u) /\ Midway(m, u)
        BY <1>1, <3>2 DEF IdOf, Midway
      <4>2. c.sa \in Real /\ c.sa # b.sa
        BY <1>1, <3>2, <4>1 DEF StreamInv, OneBam, Midway, JTypeOK, BamType, Real
      <4>3. EndsIn(rxq, c.sa, IdOf(m, u)) /\ \A s \in sessions : Reaches(rxq, s, c.sa, IdOf(m, u))
        BY <4>1 DEF StreamInv, BamsFit
      <4> HIDE DEF c
      <4>4. EndsIn(q, c.sa, IdOf(m, u))
        BY <2>2, <4>2, <4>3 DEF EndsIn
      <4>5. \A s \in sessions : Reaches(q, s, c.sa, IdOf(m, u))
        BY <2>2, <4>2, <4>3 DEF Reaches
      <4> QED
        BY <4>1, <4>4, <4>5
    <3> QED
      BY <3>1, <3>2
  <2> QED
    BY <1>2, <1>4, <2>1, <2>7, <2>8, <2>11 DEF StreamInv
<1> QED
  BY <1>1, <1>6, <1>7 DEF f, id

(* The sessions after a packet. *)
LEMMA OnTpSessions ==
  ASSUME NEW f \in Frame, f.kind = "tp", OnTp(f), SessType, \A s \in sessions : Even(s.buf),
         \A s \in sessions : s.sa = f.sa /\ f.what.packet # 0 /\ s.buf # <<>> => s.buf[1] = f.what.id
  PROVE  /\ SessType'
         /\ \A s \in sessions' : Even(s.buf)
         /\ \A s \in sessions' : \/ s \in sessions /\ s.sa # f.sa
                                 \/ s.sa = f.sa /\ s.buf = <<>>
                                 \/ s.sa = f.sa /\ s.buf[1] = f.what.id
         /\ \A m \in rebuilt' : m \in rebuilt \/ Even(m)
<1>1. f.sa \in 0..253 /\ f.what.id \in Snapshot
  BY FrameKinds
<1>2. CASE f.what.packet = 0
  <2>1. sessions' = With(f.sa, <<>>) /\ rebuilt' = rebuilt
    BY <1>2 DEF OnTp
  <2>2. \A s \in sessions' : (s \in sessions /\ s.sa # f.sa) \/ (s.sa = f.sa /\ s.buf = <<>>)
    BY <2>1 DEF With, Session
  <2>3. Even(<<>>) /\ <<>> \in Seq(Snapshot)
    BY DEF Even
  <2> QED
    BY <1>1, <2>1, <2>2, <2>3 DEF SessType, Real
<1>3. CASE sessions' = sessions \ Session(f.sa) /\ rebuilt' = rebuilt
  BY <1>3 DEF SessType, Session
<1>4. ASSUME f.what.packet # 0, NEW s \in Session(f.sa), NEW buf, buf = Append(s.buf, f.what.id),
             \/ sessions' = sessions \ Session(f.sa) /\ rebuilt' = rebuilt \cup {buf}
             \/ sessions' = With(f.sa, buf) /\ rebuilt' = rebuilt
      PROVE  /\ SessType'
             /\ \A x \in sessions' : Even(x.buf)
             /\ \A x \in sessions' : \/ x \in sessions /\ x.sa # f.sa
                                     \/ x.sa = f.sa /\ x.buf = <<>>
                                     \/ x.sa = f.sa /\ x.buf[1] = f.what.id
             /\ \A m \in rebuilt' : m \in rebuilt \/ Even(m)
  <2>1. s \in sessions /\ s.sa = f.sa /\ s.buf \in Seq(Snapshot) /\ Even(s.buf)
    BY <1>4 DEF Session, SessType
  <2>2. s.buf = <<>> \/ s.buf[1] = f.what.id
    BY <1>4, <2>1
  <2>3. /\ buf \in Seq(Snapshot) /\ Len(buf) = Len(s.buf) + 1 /\ Len(s.buf) \in Nat
        /\ buf[Len(s.buf) + 1] = f.what.id
        /\ \A i \in 1..Len(s.buf) : buf[i] = s.buf[i]
    BY <1>1, <1>4, <2>1, AppendProperties
  <2>4. buf[1] = f.what.id
    <3>1. CASE s.buf = <<>>
      <4>1. Len(s.buf) = 0
        BY <3>1
      <4> QED
        BY <2>3, <4>1
    <3>2. CASE s.buf # <<>>
      <4>1. 1 \in 1..Len(s.buf)
        BY <2>1, <3>2
      <4> QED
        BY <2>2, <2>3, <3>2, <4>1
    <3> QED
      BY <3>1, <3>2
  <2>5. Even(buf)
    <3> SUFFICES ASSUME NEW i \in DOMAIN buf PROVE buf[i] = buf[1]
      BY DEF Even
    <3>1. i \in 1..(Len(s.buf) + 1)
      BY <2>3
    <3>2. CASE i = Len(s.buf) + 1
      BY <2>3, <2>4, <3>2
    <3>3. CASE i \in 1..Len(s.buf)
      <4>1. s.buf[i] = s.buf[1] /\ s.buf # <<>>
        BY <2>1, <3>3 DEF Even
      <4> QED
        BY <2>2, <2>3, <2>4, <3>3, <4>1
    <3> QED
      BY <2>3, <3>1, <3>2, <3>3
  <2>6. CASE sessions' = sessions \ Session(f.sa) /\ rebuilt' = rebuilt \cup {buf}
    BY <2>3, <2>5, <2>6 DEF SessType, Session
  <2>7. CASE sessions' = With(f.sa, buf) /\ rebuilt' = rebuilt
    <3>1. \A x \in sessions' : (x \in sessions /\ x.sa # f.sa) \/ (x.sa = f.sa /\ x.buf = buf)
      BY <2>7 DEF With, Session
    <3> QED
      BY <1>1, <2>3, <2>4, <2>5, <2>7, <3>1 DEF SessType, Real
  <2> QED
    BY <1>4, <2>6, <2>7
<1>5. \/ f.what.packet = 0
      \/ sessions' = sessions \ Session(f.sa) /\ rebuilt' = rebuilt
      \/ f.what.packet # 0 /\ \E s \in Session(f.sa) : \E buf \in {Append(s.buf, f.what.id)} :
           \/ sessions' = sessions \ Session(f.sa) /\ rebuilt' = rebuilt \cup {buf}
           \/ sessions' = With(f.sa, buf) /\ rebuilt' = rebuilt
  BY DEF OnTp
<1> QED
  BY <1>2, <1>3, <1>4, <1>5

(* The host takes a frame. *)
LEMMA StreamHandles ==
  ASSUME JTypeOK, BamInv, rxq # <<>>, rxq' = Tail(rxq), UNCHANGED <<bam, overlap>>,
         NEW f, f = Head(rxq), (f.kind = "tp" /\ OnTp(f)) \/ (f.kind # "tp" /\ UNCHANGED <<sessions, rebuilt>>)
  PROVE  BamInv'
<1> DEFINE q == Tail(rxq)
<1>1. rxq \in Seq(Frame) /\ f \in Frame /\ f = rxq[1] /\ Len(rxq) > 0 /\ Len(rxq) \in Nat
  BY DEF JTypeOK, QueueType
<1>2. /\ \A sa \in Real : \A i \in Nat : IsTp(q, i, sa) => i > 0 /\ IsTp(rxq, i + 1, sa) /\ Id(q, i) = Id(rxq, i + 1)
      /\ \A sa \in Real : \A k \in Nat : k > 1 /\ Opens(rxq, k, sa) => k - 1 \in Nat /\ Opens(q, k - 1, sa)
  BY <1>1, TpOfTail
<1>3. /\ \A sa \in Real : \A k \in Nat : Opens(rxq, k, sa) =>
           k > 1 \/ (k = 1 /\ f.kind = "tp" /\ f.sa = sa /\ f.what.packet = 0)
      /\ Id(rxq, 1) = f.what.id
      /\ f.kind = "tp" => f.sa \in Real /\ IsTp(rxq, 1, f.sa)
  <2>1. f.kind = "tp" => f.sa \in Real
    BY <1>1, FrameKinds DEF Real
  <2>2. 1 \in 1..Len(rxq)
    BY <1>1
  <2> QED
    BY <1>1, <2>1, <2>2 DEF Opens, IsTp, Id
<1>4. \A n \in Ecu : \A t \in Task : Midway(n, t) => bam[n][t].sa \in Real
  BY DEF Midway, JTypeOK, BamType, Real
<1>5. ~overlap /\ f.kind = "tp" =>
        \A s \in sessions : s.sa = f.sa /\ f.what.packet # 0 /\ s.buf # <<>> => s.buf[1] = f.what.id
  <2> SUFFICES ASSUME StreamInv, ~overlap, f.kind = "tp", NEW s \in sessions, s.sa = f.sa, f.what.packet # 0, s.buf # <<>>
               PROVE  s.buf[1] = f.what.id
    BY DEF BamInv
  <2>1. Id(rxq, 1) = s.buf[1] \/ \E k \in Nat : k <= 1 /\ Opens(rxq, k, f.sa)
    BY <1>3 DEF StreamInv, Begun
  <2> QED
    BY <1>3, <2>1
<1> HIDE DEF q
<1>6. FlowsOn(rxq) => FlowsOn(q)
  <2> SUFFICES ASSUME FlowsOn(rxq), NEW sa \in Real, NEW i \in Nat, NEW j \in Nat,
                      IsTp(q, i, sa), IsTp(q, j, sa), i < j
               PROVE  Id(q, i) = Id(q, j) \/ \E k \in Nat : i < k /\ k <= j /\ Opens(q, k, sa)
    BY DEF FlowsOn
  <2>1. /\ IsTp(rxq, i + 1, sa) /\ IsTp(rxq, j + 1, sa) /\ i + 1 < j + 1 /\ i + 1 \in Nat /\ j + 1 \in Nat
        /\ Id(q, i) = Id(rxq, i + 1) /\ Id(q, j) = Id(rxq, j + 1)
    BY <1>2
  <2>2. Id(rxq, i + 1) = Id(rxq, j + 1) \/ \E k \in Nat : i + 1 < k /\ k <= j + 1 /\ Opens(rxq, k, sa)
    BY <2>1 DEF FlowsOn
  <2>3. ASSUME NEW k \in Nat, i + 1 < k, k <= j + 1, Opens(rxq, k, sa)
        PROVE  \E l \in Nat : i < l /\ l <= j /\ Opens(q, l, sa)
    <3>1. k - 1 \in Nat /\ Opens(q, k - 1, sa) /\ i < k - 1 /\ k - 1 <= j
      BY <1>2, <2>3
    <3> QED
      BY <3>1
  <2> QED
    BY <2>1, <2>2, <2>3
<1>7. \A sa \in Real : \A id : EndsIn(rxq, sa, id) => EndsIn(q, sa, id)
  <2> SUFFICES ASSUME NEW sa \in Real, NEW id, EndsIn(rxq, sa, id), NEW i \in Nat, IsTp(q, i, sa)
               PROVE  Id(q, i) = id \/ \E k \in Nat : i < k /\ Opens(q, k, sa)
    BY DEF EndsIn
  <2>1. IsTp(rxq, i + 1, sa) /\ i + 1 \in Nat /\ Id(q, i) = Id(rxq, i + 1)
    BY <1>2
  <2>2. Id(rxq, i + 1) = id \/ \E k \in Nat : i + 1 < k /\ Opens(rxq, k, sa)
    BY <2>1 DEF EndsIn
  <2>3. ASSUME NEW k \in Nat, i + 1 < k, Opens(rxq, k, sa) PROVE \E l \in Nat : i < l /\ Opens(q, l, sa)
    <3>1. k - 1 \in Nat /\ Opens(q, k - 1, sa) /\ i < k - 1
      BY <1>2, <2>3
    <3> QED
      BY <3>1
  <2> QED
    BY <2>1, <2>2, <2>3
(* a session that the frame does not change *)
<1>8. ASSUME NEW s, s.sa \in Real, f.kind # "tp" \/ s.sa # f.sa, Begun(rxq, s)
      PROVE  Begun(q, s)
  <2> SUFFICES ASSUME s.buf # <<>>, NEW i \in Nat, IsTp(q, i, s.sa)
               PROVE  Id(q, i) = s.buf[1] \/ \E k \in Nat : k <= i /\ Opens(q, k, s.sa)
    BY DEF Begun
  <2>1. IsTp(rxq, i + 1, s.sa) /\ i + 1 \in Nat /\ Id(q, i) = Id(rxq, i + 1)
    BY <1>2, <1>8
  <2>2. Id(rxq, i + 1) = s.buf[1] \/ \E k \in Nat : k <= i + 1 /\ Opens(rxq, k, s.sa)
    BY <1>8, <2>1 DEF Begun
  <2>3. ASSUME NEW k \in Nat, k <= i + 1, Opens(rxq, k, s.sa) PROVE \E l \in Nat : l <= i /\ Opens(q, l, s.sa)
    <3>1. k - 1 \in Nat /\ Opens(q, k - 1, s.sa) /\ k - 1 <= i
      BY <1>2, <1>3, <1>8, <2>3
    <3> QED
      BY <3>1
  <2> QED
    BY <2>1, <2>2, <2>3
<1>9. ASSUME NEW s, s.sa \in Real, f.kind # "tp" \/ s.sa # f.sa, NEW sa \in Real, NEW id, Reaches(rxq, s, sa, id)
      PROVE  Reaches(q, s, sa, id)
  <2> SUFFICES ASSUME s.sa = sa, s.buf # <<>>
               PROVE  s.buf[1] = id \/ \E k \in Nat : Opens(q, k, sa)
    BY DEF Reaches
  <2>1. s.buf[1] = id \/ \E k \in Nat : Opens(rxq, k, sa)
    BY <1>9 DEF Reaches
  <2>2. ASSUME NEW k \in Nat, Opens(rxq, k, sa) PROVE \E l \in Nat : Opens(q, l, sa)
    <3>1. k - 1 \in Nat /\ Opens(q, k - 1, sa)
      BY <1>2, <1>3, <1>9, <2>2
    <3> QED
      BY <3>1
  <2> QED
    BY <2>1, <2>2
(* one that it does: the next frames follow this one *)
<1>10. ASSUME f.kind = "tp", FlowsOn(rxq), NEW s, s.sa = f.sa, s.buf = <<>> \/ s.buf[1] = f.what.id
       PROVE  Begun(q, s)
  <2> SUFFICES ASSUME s.buf # <<>>, NEW i \in Nat, IsTp(q, i, s.sa)
               PROVE  Id(q, i) = s.buf[1] \/ \E k \in Nat : k <= i /\ Opens(q, k, s.sa)
    BY DEF Begun
  <2>1. i > 0 /\ IsTp(rxq, i + 1, f.sa) /\ i + 1 \in Nat /\ Id(q, i) = Id(rxq, i + 1) /\ IsTp(rxq, 1, f.sa)
    BY <1>2, <1>3, <1>10
  <2>2. Id(rxq, 1) = Id(rxq, i + 1) \/ \E k \in Nat : 1 < k /\ k <= i + 1 /\ Opens(rxq, k, f.sa)
    BY <1>3, <1>10, <2>1 DEF FlowsOn
  <2>3. ASSUME NEW k \in Nat, 1 < k, k <= i + 1, Opens(rxq, k, f.sa) PROVE \E l \in Nat : l <= i /\ Opens(q, l, f.sa)
    <3>1. k - 1 \in Nat /\ Opens(q, k - 1, f.sa) /\ k - 1 <= i
      BY <1>2, <1>3, <1>10, <2>3
    <3> QED
      BY <3>1
  <2> QED
    BY <1>3, <1>10, <2>1, <2>2, <2>3
<1>11. ASSUME f.kind = "tp", NEW s, s.sa = f.sa, s.buf = <<>> \/ s.buf[1] = f.what.id,
              NEW sa \in Real, NEW id, EndsIn(rxq, sa, id)
       PROVE  Reaches(q, s, sa, id)
  <2> SUFFICES ASSUME s.sa = sa, s.buf # <<>>
               PROVE  s.buf[1] = id \/ \E k \in Nat : Opens(q, k, sa)
    BY DEF Reaches
  <2>1. Id(rxq, 1) = id \/ \E k \in Nat : 1 < k /\ Opens(rxq, k, sa)
    BY <1>3, <1>11 DEF EndsIn
  <2>2. ASSUME NEW k \in Nat, 1 < k, Opens(rxq, k, sa) PROVE \E l \in Nat : Opens(q, l, sa)
    <3>1. k - 1 \in Nat /\ Opens(q, k - 1, sa)
      BY <1>2, <2>2
    <3> QED
      BY <3>1
  <2> QED
    BY <1>3, <1>11, <2>1, <2>2
<1>12. rxq' = q
  BY DEF q
<1>13. OneBam => OneBam'
  BY DEF OneBam
<1>14. CASE f.kind # "tp" /\ UNCHANGED <<sessions, rebuilt>>
  <2> SUFFICES ASSUME ~overlap, SessType, StreamInv PROVE StreamInv'
    BY <1>14 DEF BamInv, SessType
  <2>1. \A s \in sessions : s.sa \in Real
    BY DEF SessType
  <2>2. BamsFit'
    BY <1>4, <1>7, <1>9, <1>12, <1>14, <2>1 DEF StreamInv, BamsFit, Midway, IdOf
  <2>3. \A s \in sessions : Begun(q, s)
    BY <1>8, <1>14, <2>1 DEF StreamInv
  <2> QED
    BY <1>6, <1>12, <1>13, <1>14, <2>2, <2>3 DEF StreamInv
<1>15. CASE f.kind = "tp" /\ OnTp(f)
  <2> SUFFICES ASSUME ~overlap, SessType, StreamInv PROVE SessType' /\ StreamInv'
    BY DEF BamInv
  <2>1. /\ SessType' /\ \A s \in sessions' : Even(s.buf)
        /\ \A s \in sessions' : \/ s \in sessions /\ s.sa # f.sa
                                \/ s.sa = f.sa /\ (s.buf = <<>> \/ s.buf[1] = f.what.id)
        /\ \A m \in rebuilt' : m \in rebuilt \/ Even(m)
    BY <1>1, <1>5, <1>15, OnTpSessions DEF StreamInv
  <2>2. FlowsOn(rxq) /\ \A s \in sessions : s.sa \in Real /\ Begun(rxq, s)
    BY DEF StreamInv, SessType
  <2>3. \A s \in sessions' : Begun(q, s)
    BY <1>8, <1>10, <1>15, <2>1, <2>2
  <2>4. BamsFit'
    <3> SUFFICES ASSUME NEW n \in Ecu, NEW t \in Task, Midway(n, t)
                 PROVE  /\ EndsIn(q, bam[n][t].sa, IdOf(n, t))
                        /\ \A s \in sessions' : Reaches(q, s, bam[n][t].sa, IdOf(n, t))
      BY <1>12 DEF BamsFit, Midway, IdOf
    <3>1. /\ bam[n][t].sa \in Real /\ EndsIn(rxq, bam[n][t].sa, IdOf(n, t))
          /\ \A s \in sessions : Reaches(rxq, s, bam[n][t].sa, IdOf(n, t))
      BY <1>4 DEF StreamInv, BamsFit
    <3>2. \A s \in sessions' : Reaches(q, s, bam[n][t].sa, IdOf(n, t))
      BY <1>9, <1>11, <1>15, <2>1, <2>2, <3>1
    <3> QED
      BY <1>7, <3>1, <3>2
  <2> QED
    BY <1>6, <1>12, <1>13, <2>1, <2>3, <2>4 DEF StreamInv
<1> QED
  BY <1>14, <1>15

LEMMA BamInit == J1939Init => BamInv
<1> SUFFICES ASSUME J1939Init PROVE SessType /\ StreamInv
  BY DEF BamInv
<1>1. \A n \in Ecu : \A t \in Task : bam[n][t] = NoBam
  BY DEF J1939Init
<1>2. \A sa : \A i : ~IsTp(rxq, i, sa)
  BY DEF J1939Init, IsTp
<1> QED
  BY <1>1, <1>2 DEF J1939Init, SessType, StreamInv, FlowsOn, OneBam, BamsFit, Midway

LEMMA EcuStream ==
  ASSUME JTypeOK, BamInv, NEW n \in Ecu, EcuNext(n)
  PROVE  BamInv'
<1>1. n \in Name /\ n # HostName /\ rxq \in Seq(Frame) /\ SaNull \in 0..254
  BY JConstants DEF Name, JTypeOK, QueueType, SaNull
<1>2. CASE ClaimBegins(n) \/ Announces(n) \/ Takes(n) \/ Yields(n) \/ Reclaims(n)
  <2>1. UNCHANGED <<bam, sessions, rebuilt, overlap>>
    BY <1>2 DEF ClaimBegins, Announces, Takes, Yields, Reclaims, ClaimOnly, pyVars
  <2>2. PICK f \in Frame : f.kind # "tp" /\ (rxq' = rxq \/ rxq' = Append(rxq, f))
    <3>1. CASE ClaimBegins(n)
      <4>1. claimer[n].sa \in 0..253 /\ claimer[n].sa \in 0..254
        BY <3>1 DEF ClaimBegins, JTypeOK, EcuType
      <4>2. JFrame("request", claimer[n].sa, claimer[n].sa, n) \in Frame
        BY <1>1, <4>1, FramesTyped
      <4> QED
        BY <1>1, <3>1, <4>2 DEF ClaimBegins, OnBus, JFrame
    <3>2. CASE Announces(n)
      <4>1. claimer[n].sa \in 0..254
        BY <3>2 DEF Announces, JTypeOK, EcuType
      <4>2. JFrame("claimed", claimer[n].sa, SaGlobal, n) \in Frame
        BY <1>1, <4>1, FramesTyped
      <4> QED
        BY <1>1, <3>2, <4>2 DEF Announces, OnBus, JFrame
    <3>3. CASE Takes(n) \/ Yields(n) \/ Reclaims(n)
      <4>1. JFrame("claimed", SaNull, SaGlobal, n) \in Frame
        BY <1>1, FramesTyped
      <4> QED
        BY <1>1, <3>3, <4>1 DEF Takes, Yields, Reclaims, OnBus, JFrame
    <3> QED
      BY <1>2, <3>1, <3>2, <3>3
  <2> QED
    BY <2>1, <2>2, StreamSame
<1>3. CASE MainBam(n)
  <2>1. bams[n] \in Nat /\ "main" \in Task
    BY DEF JTypeOK, BamType, Task
  <2> QED
    BY <1>3, <2>1, StreamBegins DEF MainBam, pyVars
<1>4. ASSUME NEW t \in Task, BamSends(n, t) PROVE BamInv'
  BY <1>4, StreamSends
<1>5. CASE RxTakes(n)
  <2> DEFINE f == Head(rx_msgq[n])
  <2>1. f \in Frame /\ UNCHANGED <<sessions, rebuilt>> /\ JFrame("claimed", SaNull, SaGlobal, n) \in Frame
    BY <1>1, <1>5, TailTyped, FramesTyped DEF RxTakes, JTypeOK, QueueType, JRxOnly, pyVars
  <2> HIDE DEF f
  <2>2. CASE f.kind = "ask" /\ RxAsk(n, f) /\ ForUs(n, f)
    <3>1. f.what \in Nat /\ "rx" \in Task
      BY <2>1, <2>2, FrameKinds DEF Task
    <3> QED
      BY <2>1, <2>2, <3>1, StreamBegins DEF RxAsk, ForUs, Taken
  <2>3. CASE f.kind = "request" /\ RxRequest(n, f) /\ ForUs(n, f)
    <3>1. JFrame("claimed", self_sa[n], SaGlobal, n) \in Frame
      <4>1. self_sa[n] \in 0..254
        BY DEF JTypeOK, EcuType
      <4> QED
        BY <1>1, <4>1, FramesTyped
    <3>2. rxq' = Append(rxq, JFrame("claimed", self_sa[n], SaGlobal, n)) /\ UNCHANGED <<bam, overlap>>
      BY <1>1, <2>3 DEF RxRequest, OnBus
    <3>3. JFrame("claimed", self_sa[n], SaGlobal, n).kind # "tp"
      BY DEF JFrame
    <3> QED
      BY <2>1, <3>1, <3>2, <3>3, StreamSame
  <2>4. CASE UNCHANGED <<bam, overlap, rxq>>
    <3>1. JFrame("claimed", SaNull, SaGlobal, n).kind # "tp"
      BY DEF JFrame
    <3> QED
      BY <2>1, <2>4, <3>1, StreamSame
  <2> QED
    BY <1>5, <2>2, <2>3, <2>4 DEF RxTakes, f, RxClaimed, RxRequest, RxAsk, Taken
<1> QED
  BY <1>2, <1>3, <1>4, <1>5 DEF EcuNext

LEMMA PyStream ==
  ASSUME JTypeOK, BamInv, PyNext
  PROVE  BamInv'
<1>1. UNCHANGED <<bam, overlap>>
  BY DEF PyNext, PyBegins, PyWakes, PyAnnounces, PyDecides, PyReclaims, PyRequests, PyHandles, Sweep, PyOnly, ecuVars
<1>2. CASE PyHandles
  <2> DEFINE f == Head(rxq)
  <2>1. rxq # <<>> /\ rxq' = Tail(rxq)
    BY <1>2 DEF PyHandles, PyClaimed, PyAsked, OnBus
  <2>2. (f.kind = "tp" /\ OnTp(f)) \/ (f.kind # "tp" /\ UNCHANGED <<sessions, rebuilt>>)
    BY <1>2 DEF PyHandles, PyClaimed, PyAsked
  <2> QED
    BY <1>1, <2>1, <2>2, StreamHandles
<1>3. CASE Sweep
  <2>1. sessions' \subseteq sessions /\ UNCHANGED <<rebuilt, rxq>>
    BY <1>3 DEF Sweep
  <2> QED
    BY <1>1, <2>1 DEF BamInv, SessType, StreamInv, OneBam, BamsFit, Midway, IdOf
<1>4. CASE PyBegins \/ PyWakes \/ PyAnnounces \/ PyDecides \/ PyReclaims \/ PyRequests
  <2>1. UNCHANGED <<sessions, rebuilt, rxq>>
    BY <1>4 DEF PyBegins, PyWakes, PyAnnounces, PyDecides, PyReclaims, PyRequests, OnBus
  <2> QED
    BY <1>1, <2>1 DEF BamInv, SessType, StreamInv, OneBam, BamsFit, Midway, IdOf
<1> QED
  BY <1>2, <1>3, <1>4 DEF PyNext

LEMMA JStep == JTypeOK /\ BamInv /\ [J1939Next]_j1939Vars => JTypeOK' /\ BamInv'
<1> SUFFICES ASSUME JTypeOK, BamInv, [J1939Next]_j1939Vars PROVE JTypeOK' /\ BamInv'
  OBVIOUS
<1>1. CASE UNCHANGED j1939Vars
  <2>1. UNCHANGED <<claimer, peer, self_sa, addr_valid, bam, bams, rx_msgq, rxq>>
    BY <1>1 DEF j1939Vars, ecuVars
  <2>2. UNCHANGED <<py, sessions, rebuilt, overlap, unheard>>
    BY <1>1 DEF j1939Vars, pyVars
  <2>3. EcuType' /\ BamType' /\ QueueType' /\ PyType'
    BY <2>1, <2>2 DEF JTypeOK, EcuType, BamType, QueueType, PyType
  <2>4. JTypeOK'
    BY <1>1, <2>2, <2>3 DEF JTypeOK, j1939Vars
  <2>5. BamInv'
    BY <2>1, <2>2 DEF BamInv, SessType, StreamInv, OneBam, BamsFit, Midway, IdOf
  <2> QED
    BY <2>4, <2>5
<1>2. ASSUME NEW n \in Ecu, EcuNext(n) PROVE JTypeOK' /\ BamInv'
  BY <1>2, EcuStream, ClaimsTyped, MainBamTyped, SendsTyped, RxTyped DEF EcuNext
<1>3. CASE PyNext
  BY <1>3, PyStream, PyTyped
<1> QED
  BY <1>1, <1>2, <1>3 DEF J1939Next

(* What the host puts together is one snapshot of one node, unless two     *)
(* broadcasts ran at once under one address (j1939_tp.c, j1939_host.py).   *)
THEOREM BamWholeCorrect == J1939Spec => [](JTypeOK /\ BamWhole)
<1>1. BamInv => BamWhole
  BY DEF BamInv, StreamInv, BamWhole, Even
<1> QED
  BY <1>1, JInitTyped, BamInit, JStep, PTL DEF J1939Spec

-----------------------------------------------------------------------------
(* Addresses.  What a node or the host holds, has announced or probes for,  *)
(* and what it knows, or has still to read, of a stronger claim.            *)
QueueOf(x) == IF x = HostName THEN rxq ELSE rx_msgq[x]
Holds(x, sa) ==
  IF x = HostName THEN py.valid /\ py.sa = sa ELSE addr_valid[x] /\ self_sa[x] = sa
Settles(x, sa) ==
  IF x = HostName THEN py.at \in {"settle", "drain2"} /\ py.cand = sa /\ py.sa = sa
  ELSE claimer[x].at = "settle" /\ claimer[x].sa = sa
Probes(x, sa) ==
  IF x = HostName THEN py.at = "window" /\ py.cand = sa
  ELSE claimer[x].at = "window" /\ claimer[x].sa = sa
Watches(x, sa) == Probes(x, sa) \/ (x = HostName /\ py.at = "drain1" /\ py.cand = sa)
Saw(x, sa) ==
  IF x = HostName THEN py.at \in {"window", "drain1", "settle", "drain2"} /\ py.cand = sa /\ PyLoses
  ELSE claimer[x].at \in {"window", "settle"} /\ claimer[x].sa = sa /\ Loses(x)

Rival(q, sa, y) == \E i \in 1..Len(q) : q[i].kind = "claimed" /\ q[i].sa = sa /\ q[i].what < y
Asked(q, sa) == \E i \in 1..Len(q) : q[i].kind = "request" /\ q[i].da = sa

Wants(x, sa) == Holds(x, sa) \/ Settles(x, sa)
Tries(x, sa) == Wants(x, sa) \/ Watches(x, sa)
Warned(y, sa) == Saw(y, sa) \/ Rival(QueueOf(y), sa, y)
Answers(x, y, sa) == Holds(x, sa) /\ Asked(QueueOf(x), sa) /\ (x = HostName \/ Probes(y, sa))

(* Of two that want an address the weaker one is warned, or the stronger    *)
(* one will still answer its probe.                                         *)
Yielding(x, y, sa) == Wants(x, sa) /\ Tries(y, sa) => Warned(y, sa) \/ Answers(x, y, sa)
PairInv == ~unheard => \A x \in Name : \A y \in Name : \A sa \in Real : x < y => Yielding(x, y, sa)

-----------------------------------------------------------------------------
(* Queues. *)
Grows(q, r) == \A i \in 1..Len(q) : i \in 1..Len(r) /\ r[i] = q[i]

LEMMA AppendGrows ==
  ASSUME NEW q \in Seq(Frame), NEW f \in Frame
  PROVE  /\ Grows(q, q) /\ Grows(q, Append(q, f))
         /\ Len(q) + 1 \in 1..Len(Append(q, f)) /\ Append(q, f)[Len(q) + 1] = f
BY DEF Grows

LEMMA GrowsKeeps ==
  ASSUME NEW q, NEW r, Grows(q, r), NEW sa, NEW y
  PROVE  (Rival(q, sa, y) => Rival(r, sa, y)) /\ (Asked(q, sa) => Asked(r, sa))
BY DEF Grows, Rival, Asked

LEMMA TailKeeps ==
  ASSUME NEW q \in Seq(Frame), q # <<>>, NEW sa, NEW y
  PROVE  /\ Rival(q, sa, y) =>
              Rival(Tail(q), sa, y) \/ (Head(q).kind = "claimed" /\ Head(q).sa = sa /\ Head(q).what < y)
         /\ Asked(q, sa) => Asked(Tail(q), sa) \/ (Head(q).kind = "request" /\ Head(q).da = sa)
<1>1. \A i \in 1..Len(q) : i = 1 \/ (i - 1 \in 1..Len(Tail(q)) /\ Tail(q)[i - 1] = q[i])
  OBVIOUS
<1>2. Head(q) = q[1]
  OBVIOUS
<1> QED
  BY <1>1, <1>2 DEF Rival, Asked

LEMMA ClaimArrives ==
  ASSUME NEW q \in Seq(Frame), NEW sa \in 0..254, NEW x \in Name, NEW y \in Name, x < y
  PROVE  Rival(Append(q, JFrame("claimed", sa, SaGlobal, x)), sa, y)
<1> DEFINE f == JFrame("claimed", sa, SaGlobal, x)
<1>1. f \in Frame /\ f.kind = "claimed" /\ f.sa = sa /\ f.what = x
  BY FramesTyped DEF JFrame
<1> HIDE DEF f
<1>2. Len(q) + 1 \in 1..Len(Append(q, f)) /\ Append(q, f)[Len(q) + 1] = f
  BY <1>1, AppendGrows
<1>3. Rival(Append(q, f), sa, y)
  BY <1>1, <1>2 DEF Rival
<1> QED
  BY <1>3 DEF f

LEMMA ProbeArrives ==
  ASSUME NEW q \in Seq(Frame), NEW sa \in 0..254, NEW da \in 0..253, NEW x \in Name
  PROVE  Asked(Append(q, JFrame("request", sa, da, x)), da)
<1> DEFINE f == JFrame("request", sa, da, x)
<1>1. f \in Frame /\ f.kind = "request" /\ f.da = da
  BY FramesTyped DEF JFrame
<1> HIDE DEF f
<1>2. Len(q) + 1 \in 1..Len(Append(q, f)) /\ Append(q, f)[Len(q) + 1] = f
  BY <1>1, AppendGrows
<1>3. Asked(Append(q, f), da)
  BY <1>1, <1>2 DEF Asked
<1> QED
  BY <1>3 DEF f

(* A frame of one arrives at all the others that are on. *)
LEMMA BusReaches ==
  ASSUME QueueType, NEW from \in Name, NEW f \in Frame,
         NEW q \in [Ecu -> Seq(Frame)], NEW hq \in Seq(Frame), OnBus(from, f, q, hq),
         \A n \in Ecu : n # from => q[n] = rx_msgq[n], from # HostName => hq = rxq
  PROVE  /\ \A w \in Name : w # from => Grows(QueueOf(w), QueueOf(w)')
         /\ \A w \in Name : w # from /\ ~Overruns(from) /\ (w = HostName \/ On(w)) =>
              QueueOf(w)' = Append(QueueOf(w), f)
         /\ from = HostName => rxq' = hq
         /\ from # HostName => rx_msgq'[from] = q[from]
<1>1. /\ \A n \in Ecu : rx_msgq'[n] = IF n # from /\ On(n) /\ Len(q[n]) < MsgqDepth
                                      THEN Append(q[n], f) ELSE q[n]
      /\ rxq' = IF from # HostName THEN Append(hq, f) ELSE hq
  BY DEF OnBus
<1>2. ASSUME NEW w \in Name, w # from
      PROVE  /\ Grows(QueueOf(w), QueueOf(w)')
             /\ ~Overruns(from) /\ (w = HostName \/ On(w)) => QueueOf(w)' = Append(QueueOf(w), f)
  <2>1. CASE w = HostName
    <3>1. QueueOf(w) = rxq /\ QueueOf(w)' = Append(rxq, f) /\ rxq \in Seq(Frame)
      BY <1>1, <1>2, <2>1 DEF QueueOf, QueueType
    <3> QED
      BY <3>1, AppendGrows
  <2>2. CASE w \in Ecu
    <3>1. /\ QueueOf(w) = rx_msgq[w] /\ QueueOf(w)' = rx_msgq'[w] /\ rx_msgq[w] \in Seq(Frame)
          /\ q[w] = rx_msgq[w]
      BY <1>2, <2>2, JConstants DEF QueueOf, QueueType
    <3>2. QueueOf(w)' = Append(QueueOf(w), f) \/ QueueOf(w)' = QueueOf(w)
      BY <1>1, <2>2, <3>1
    <3>3. ~Overruns(from) /\ On(w) => QueueOf(w)' = Append(QueueOf(w), f)
      BY <1>1, <1>2, <2>2, <3>1 DEF Overruns, Room
    <3>4. Grows(QueueOf(w), QueueOf(w)) /\ Grows(QueueOf(w), Append(QueueOf(w), f))
      BY <3>1, AppendGrows
    <3>5. Grows(QueueOf(w), QueueOf(w)')
      BY <3>2, <3>4
    <3>6. w # HostName
      BY <2>2, JConstants
    <3> QED
      BY <3>3, <3>5, <3>6
  <2> QED
    BY <2>1, <2>2 DEF Name
<1>3. from # HostName => from \in Ecu
  BY DEF Name
<1> QED
  BY <1>1, <1>2, <1>3

-----------------------------------------------------------------------------
(* A step of one leaves what all the others hold, watch for and know.       *)
Same(w) ==
  IF w = HostName
  THEN py'.at = py.at /\ py'.sa = py.sa /\ py'.cand = py.cand /\ py'.valid = py.valid /\ py'.peer = py.peer
  ELSE /\ claimer'[w] = claimer[w] /\ peer'[w] = peer[w]
       /\ self_sa'[w] = self_sa[w] /\ addr_valid'[w] = addr_valid[w]
Moves(z) == \A w \in Name : w # z => Same(w) /\ Grows(QueueOf(w), QueueOf(w)')

LEMMA SameHolds ==
  ASSUME NEW w \in Name, Same(w), NEW sa
  PROVE  /\ Holds(w, sa)' <=> Holds(w, sa)
         /\ Wants(w, sa)' <=> Wants(w, sa)
         /\ Tries(w, sa)' <=> Tries(w, sa)
         /\ Probes(w, sa)' <=> Probes(w, sa)
         /\ Saw(w, sa)' <=> Saw(w, sa)
<1>1. CASE w = HostName
  BY <1>1 DEF Same, Holds, Settles, Probes, Watches, Saw, Wants, Tries, PyLoses
<1>2. CASE w # HostName
  BY <1>2 DEF Same, Holds, Settles, Probes, Watches, Saw, Wants, Tries, Loses
<1> QED
  BY <1>1, <1>2

LEMMA WarnedStays ==
  ASSUME NEW w \in Name, Same(w), Grows(QueueOf(w), QueueOf(w)'), NEW sa, Warned(w, sa)
  PROVE  Warned(w, sa)'
<1>1. Saw(w, sa)' <=> Saw(w, sa)
  BY SameHolds
<1>2. Rival(QueueOf(w), sa, w) => Rival(QueueOf(w)', sa, w)
  BY GrowsKeeps
<1> QED
  BY <1>1, <1>2 DEF Warned

LEMMA AnswersStays ==
  ASSUME NEW x \in Name, Same(x), Grows(QueueOf(x), QueueOf(x)'), NEW y \in Name, NEW sa,
         x = HostName \/ (Probes(y, sa) => Probes(y, sa)'), Answers(x, y, sa)
  PROVE  Answers(x, y, sa)'
<1>1. Holds(x, sa)'
  BY SameHolds DEF Answers
<1>2. Asked(QueueOf(x)', sa)
  BY GrowsKeeps DEF Answers
<1> QED
  BY <1>1, <1>2 DEF Answers

LEMMA PairStep ==
  ASSUME PairInv, ~unheard, NEW z \in Name, Moves(z),
         \A y \in Name : \A sa \in Real : z < y /\ Wants(z, sa)' /\ Tries(y, sa) =>
           Warned(y, sa)' \/ Answers(z, y, sa)',
         \A x \in Name : \A sa \in Real : x < z /\ Wants(x, sa) /\ Tries(z, sa)' =>
           Warned(z, sa)' \/ Answers(x, z, sa)'
  PROVE  PairInv'
<1> SUFFICES ASSUME NEW x \in Name, NEW y \in Name, NEW sa \in Real, x < y, Wants(x, sa)', Tries(y, sa)'
             PROVE  Warned(y, sa)' \/ Answers(x, y, sa)'
  BY DEF PairInv, Yielding
<1>1. x # y
  BY JConstants
<1>2. CASE x = z
  <2>1. Tries(y, sa)
    BY <1>1, <1>2, SameHolds DEF Moves
  <2> QED
    BY <1>2, <2>1
<1>3. CASE y = z
  <2>1. Wants(x, sa)
    BY <1>1, <1>3, SameHolds DEF Moves
  <2> QED
    BY <1>3, <2>1
<1>4. CASE x # z /\ y # z
  <2>1. /\ Same(x) /\ Grows(QueueOf(x), QueueOf(x)')
        /\ Same(y) /\ Grows(QueueOf(y), QueueOf(y)')
    BY <1>4 DEF Moves
  <2>2. Wants(x, sa) /\ Tries(y, sa) /\ (Probes(y, sa)' <=> Probes(y, sa))
    BY <2>1, SameHolds
  <2>3. Warned(y, sa) \/ Answers(x, y, sa)
    BY <2>2 DEF PairInv, Yielding
  <2> QED
    BY <2>1, <2>2, <2>3, WarnedStays, AnswersStays
<1> QED
  BY <1>2, <1>3, <1>4

(* What the one that moves wanted before. *)
LEMMA StrongStays ==
  ASSUME PairInv, ~unheard, NEW z \in Name, Moves(z), NEW y \in Name, NEW sa \in Real, z < y,
         Wants(z, sa), Tries(y, sa),
         Holds(z, sa) => Holds(z, sa)', Asked(QueueOf(z), sa) => Asked(QueueOf(z)', sa)
  PROVE  Warned(y, sa)' \/ Answers(z, y, sa)'
<1>1. y # z
  BY JConstants
<1>2. Same(y) /\ Grows(QueueOf(y), QueueOf(y)') /\ (Probes(y, sa)' <=> Probes(y, sa))
  BY <1>1, SameHolds DEF Moves
<1>3. Warned(y, sa) \/ Answers(z, y, sa)
  BY DEF PairInv, Yielding
<1>4. Answers(z, y, sa) => Answers(z, y, sa)'
  BY <1>2 DEF Answers
<1> QED
  BY <1>2, <1>3, <1>4, WarnedStays

LEMMA WeakStays ==
  ASSUME PairInv, ~unheard, NEW z \in Name, Moves(z), NEW x \in Name, NEW sa \in Real, x < z,
         Wants(x, sa), Tries(z, sa),
         Warned(z, sa) => Warned(z, sa)',
         x = HostName \/ (Probes(z, sa) => Probes(z, sa)') \/ Asked(QueueOf(x), sa) = FALSE
  PROVE  Warned(z, sa)' \/ Answers(x, z, sa)'
<1>1. x # z
  BY JConstants
<1>2. Same(x) /\ Grows(QueueOf(x), QueueOf(x)')
  BY <1>1 DEF Moves
<1>3. Warned(z, sa) \/ Answers(x, z, sa)
  BY DEF PairInv, Yielding
<1>4. Answers(x, z, sa) => Answers(x, z, sa)'
  <2> SUFFICES ASSUME Answers(x, z, sa) PROVE Answers(x, z, sa)'
    OBVIOUS
  <2>1. x = HostName \/ (Probes(z, sa) => Probes(z, sa)')
    BY DEF Answers
  <2> QED
    BY <1>2, <2>1, AnswersStays
<1> QED
  BY <1>3, <1>4

(* In a quiet moment no node has a frame to look at. *)
LEMMA QuietQueues ==
  ASSUME Heard, NEW n \in Ecu, NEW sa
  PROVE  QueueOf(n) = <<>> /\ ~Asked(QueueOf(n), sa) /\ ~Rival(QueueOf(n), sa, n)
<1>1. QueueOf(n) = <<>>
  BY JConstants DEF Heard, QueueOf
<1>2. Len(<<>>) = 0
  OBVIOUS
<1> QED
  BY <1>1, <1>2 DEF Asked, Rival

-----------------------------------------------------------------------------
(* A node claims. *)
LEMMA UnchangedGrows ==
  ASSUME QueueType, NEW w \in Name, UNCHANGED <<rx_msgq, rxq>>
  PROVE  Grows(QueueOf(w), QueueOf(w)') /\ QueueOf(w)' = QueueOf(w)
BY DEF QueueOf, Grows

LEMMA NodeApart ==
  ASSUME JTypeOK, NEW n \in Ecu, UNCHANGED py,
         \A m \in Ecu : m # n => claimer'[m] = claimer[m] /\ peer'[m] = peer[m]
                                 /\ self_sa'[m] = self_sa[m] /\ addr_valid'[m] = addr_valid[m]
  PROVE  \A w \in Name : w # n => Same(w)
BY DEF Same, Name

LEMMA ClaimBeginsPair ==
  ASSUME JTypeOK, PairInv, NEW n \in Ecu, ClaimBegins(n), ~unheard'
  PROVE  PairInv'
<1> DEFINE s == claimer[n].sa
           f == JFrame("request", s, s, n)
<1>1. /\ ~unheard /\ ~Overruns(n) /\ ~Deaf(s) /\ claimer[n].at = "claim" /\ s \in 0..253 /\ s \in 0..254
      /\ OnBus(n, f, rx_msgq, rxq) /\ QueueType /\ n \in Name /\ n # HostName /\ ~addr_valid[n]
  <2>1. /\ ~unheard /\ ~Overruns(n) /\ ~Deaf(s) /\ claimer[n].at = "claim" /\ s = claimer[n].sa
        /\ OnBus(n, f, rx_msgq, rxq)
    BY DEF ClaimBegins
  <2>2. s \in 0..253 /\ ~addr_valid[n]
    BY <2>1 DEF JTypeOK, EcuType
  <2>3. QueueType /\ n \in Name /\ n # HostName
    BY JConstants DEF JTypeOK, Name
  <2> QED
    BY <2>1, <2>2, <2>3
<1>2. /\ claimer' \in [Ecu -> [at : {"off", "claim", "window", "settle", "up"}, sa : 0..254]]
      /\ claimer'[n].at = "window" /\ claimer'[n].sa = s
      /\ UNCHANGED <<self_sa, addr_valid, py>>
      /\ \A m \in Ecu : m # n => claimer'[m] = claimer[m] /\ peer'[m] = peer[m]
  BY DEF ClaimBegins, ClaimOnly, pyVars, JTypeOK, EcuType
<1>3. f \in Frame
  BY <1>1, FramesTyped
<1> HIDE DEF f
<1>4. /\ \A w \in Name : w # n => Grows(QueueOf(w), QueueOf(w)')
      /\ \A w \in Name : w # n /\ (w = HostName \/ On(w)) => QueueOf(w)' = Append(QueueOf(w), f)
  <2>1. rx_msgq \in [Ecu -> Seq(Frame)] /\ rxq \in Seq(Frame)
    BY <1>1 DEF QueueType
  <2> QED
    BY <1>1, <1>3, <2>1, BusReaches
<1>5. \A w \in Name : w # n => Same(w)
  BY <1>2, NodeApart
<1>6. Moves(n)
  BY <1>4, <1>5 DEF Moves
<1>7. ASSUME NEW y \in Name, NEW sa \in Real PROVE ~Wants(n, sa)'
  BY <1>1, <1>2 DEF Wants, Holds, Settles
<1>8. ASSUME NEW x \in Name, NEW sa \in Real, x < n, Wants(x, sa), Tries(n, sa)'
      PROVE  Answers(x, n, sa)'
  <2>1. sa = s /\ Probes(n, sa)' /\ x # n
    BY <1>1, <1>2, <1>8, JConstants DEF Tries, Wants, Holds, Settles, Watches, Probes
  <2>2. Holds(x, sa)
    <3>1. CASE x = HostName
      BY <1>1, <1>8, <2>1, <3>1 DEF Wants, Settles, Deaf
    <3>2. CASE x \in Ecu /\ claimer[x].at = "settle" /\ claimer[x].sa = sa
      <4>1. claimer[x] = [at |-> "settle", sa |-> sa]
        BY <3>2 DEF JTypeOK, EcuType
      <4> QED
        BY <1>1, <2>1, <3>2, <4>1 DEF Deaf
    <3> QED
      BY <1>8, <3>1, <3>2 DEF Wants, Settles, Name
  <2>3. x = HostName \/ On(x)
    BY <2>2 DEF Holds, On, Name, JTypeOK, EcuType
  <2>4. QueueOf(x)' = Append(QueueOf(x), f) /\ QueueOf(x) \in Seq(Frame)
    BY <1>1, <1>4, <2>1, <2>3 DEF QueueOf, QueueType, Name
  <2>5. Asked(Append(QueueOf(x), f), sa)
    BY <1>1, <2>1, <2>4, ProbeArrives DEF f
  <2>6. Holds(x, sa)'
    BY <1>5, <2>1, <2>2, SameHolds
  <2> QED
    BY <2>1, <2>4, <2>5, <2>6 DEF Answers
<1> QED
  BY <1>1, <1>6, <1>7, <1>8, PairStep

LEMMA AnnouncesPair ==
  ASSUME JTypeOK, PairInv, NEW n \in Ecu, Announces(n), ~unheard'
  PROVE  PairInv'
<1> DEFINE s == claimer[n].sa
           f == JFrame("claimed", s, SaGlobal, n)
<1>1. /\ ~unheard /\ ~Overruns(n) /\ claimer[n].at = "window" /\ s \in 0..253 /\ s \in 0..254 /\ Heard
      /\ OnBus(n, f, rx_msgq, rxq) /\ QueueType /\ n \in Name /\ n # HostName /\ ~addr_valid[n]
  <2>1. /\ ~unheard /\ ~Overruns(n) /\ claimer[n].at = "window" /\ s = claimer[n].sa /\ Heard
        /\ OnBus(n, f, rx_msgq, rxq)
    BY DEF Announces
  <2>2. s \in 0..253 /\ ~addr_valid[n]
    BY <2>1 DEF JTypeOK, EcuType
  <2>3. QueueType /\ n \in Name /\ n # HostName
    BY JConstants DEF JTypeOK, Name
  <2> QED
    BY <2>1, <2>2, <2>3
<1>2. /\ claimer' \in [Ecu -> [at : {"off", "claim", "window", "settle", "up"}, sa : 0..254]]
      /\ claimer'[n].at = "settle" /\ claimer'[n].sa = s
      /\ UNCHANGED <<self_sa, addr_valid, py, peer>>
      /\ \A m \in Ecu : m # n => claimer'[m] = claimer[m]
  BY DEF Announces, ClaimOnly, pyVars, JTypeOK, EcuType
<1>3. f \in Frame
  BY <1>1, FramesTyped
<1> HIDE DEF f
<1>4. /\ \A w \in Name : w # n => Grows(QueueOf(w), QueueOf(w)')
      /\ \A w \in Name : w # n /\ (w = HostName \/ On(w)) => QueueOf(w)' = Append(QueueOf(w), f)
      /\ rx_msgq'[n] = rx_msgq[n]
  <2>1. rx_msgq \in [Ecu -> Seq(Frame)] /\ rxq \in Seq(Frame)
    BY <1>1 DEF QueueType
  <2> QED
    BY <1>1, <1>3, <2>1, BusReaches
<1>5. \A w \in Name : w # n => Same(w)
  BY <1>2, NodeApart
<1>6. Moves(n)
  BY <1>4, <1>5 DEF Moves
<1>7. ASSUME NEW y \in Name, NEW sa \in Real, n < y, Wants(n, sa)', Tries(y, sa)
      PROVE  Warned(y, sa)'
  <2>1. sa = s /\ y # n
    BY <1>1, <1>2, <1>7, JConstants DEF Wants, Holds, Settles
  <2>2. y = HostName \/ On(y)
    BY <1>7 DEF Tries, Wants, Holds, Settles, Watches, Probes, On, Name, JTypeOK, EcuType
  <2>3. QueueOf(y)' = Append(QueueOf(y), f) /\ QueueOf(y) \in Seq(Frame)
    BY <1>1, <1>4, <2>1, <2>2 DEF QueueOf, QueueType, Name
  <2>4. Rival(Append(QueueOf(y), f), sa, y)
    BY <1>1, <1>7, <2>1, <2>3, ClaimArrives DEF f
  <2> QED
    BY <2>3, <2>4 DEF Warned
<1>8. ASSUME NEW x \in Name, NEW sa \in Real, x < n, Wants(x, sa), Tries(n, sa)'
      PROVE  Warned(n, sa)' \/ Answers(x, n, sa)'
  <2>1. sa = s /\ x # n /\ Probes(n, sa) /\ Tries(n, sa)
    BY <1>1, <1>2, <1>8, JConstants DEF Tries, Wants, Holds, Settles, Watches, Probes
  <2>2. Warned(n, sa) => Warned(n, sa)'
    <3>1. Warned(n, sa) => Saw(n, sa)
      BY <1>1, QuietQueues DEF Warned
    <3>2. Saw(n, sa) => Saw(n, sa)'
      BY <1>1, <1>2 DEF Saw, Loses
    <3> QED
      BY <3>1, <3>2 DEF Warned
  <2>3. x = HostName \/ Asked(QueueOf(x), sa) = FALSE
    BY <1>1, QuietQueues DEF Name
  <2> QED
    BY <1>1, <1>6, <1>8, <2>1, <2>2, <2>3, WeakStays
<1> QED
  BY <1>1, <1>6, <1>7, <1>8, PairStep

LEMMA TakesPair ==
  ASSUME JTypeOK, PairInv, NEW n \in Ecu, Takes(n), ~unheard'
  PROVE  PairInv'
<1> DEFINE s == claimer[n].sa
<1>1. /\ ~unheard /\ claimer[n].at = "settle" /\ s \in 0..253 /\ Heard /\ ~Loses(n)
      /\ QueueType /\ n \in Name /\ n # HostName /\ ~addr_valid[n]
  BY JConstants DEF Takes, JTypeOK, EcuType, Name
<1>2. /\ claimer'[n].at = "up" /\ self_sa'[n] = s /\ addr_valid'[n]
      /\ UNCHANGED <<py, peer, rx_msgq, rxq>>
      /\ \A m \in Ecu : m # n => claimer'[m] = claimer[m] /\ self_sa'[m] = self_sa[m]
                                 /\ addr_valid'[m] = addr_valid[m]
  BY DEF Takes, pyVars, JTypeOK, EcuType
<1>5. \A w \in Name : w # n => Same(w)
  BY <1>2, NodeApart
<1>6. Moves(n) /\ QueueOf(n)' = QueueOf(n)
  BY <1>1, <1>2, <1>5, UnchangedGrows DEF Moves
<1>9. \A sa \in Real : Tries(n, sa)' => sa = s /\ Settles(n, sa)
  BY <1>1, <1>2 DEF Tries, Wants, Holds, Settles, Watches, Probes
<1>7. ASSUME NEW y \in Name, NEW sa \in Real, n < y, Wants(n, sa)', Tries(y, sa)
      PROVE  Warned(y, sa)' \/ Answers(n, y, sa)'
  <2>1. Wants(n, sa) /\ ~Holds(n, sa)
    BY <1>1, <1>7, <1>9 DEF Wants, Holds, Tries
  <2> QED
    BY <1>1, <1>6, <1>7, <2>1, StrongStays
<1>8. ASSUME NEW x \in Name, NEW sa \in Real, x < n, Wants(x, sa), Tries(n, sa)'
      PROVE  Warned(n, sa)' \/ Answers(x, n, sa)'
  <2>1. Tries(n, sa) /\ ~Saw(n, sa) /\ ~Probes(n, sa)
    BY <1>1, <1>8, <1>9 DEF Tries, Wants, Saw, Probes
  <2>2. ~Warned(n, sa)
    BY <1>1, <2>1, QuietQueues DEF Warned
  <2> QED
    BY <1>1, <1>6, <1>8, <2>1, <2>2, WeakStays
<1> QED
  BY <1>1, <1>6, <1>7, <1>8, PairStep

LEMMA LeavesPair ==
  ASSUME JTypeOK, PairInv, NEW n \in Ecu, Yields(n) \/ Reclaims(n), ~unheard'
  PROVE  PairInv'
<1>1. /\ ~unheard /\ ~addr_valid[n] /\ QueueType /\ n \in Name /\ n # HostName /\ SaNull \in 0..254
  BY JConstants DEF Yields, Reclaims, JTypeOK, EcuType, Name, SaNull
<1>2. /\ claimer'[n].at = "claim" /\ UNCHANGED <<py, peer, self_sa, addr_valid>>
      /\ \A m \in Ecu : m # n => claimer'[m] = claimer[m]
  BY DEF Yields, Reclaims, ClaimOnly, pyVars, JTypeOK, EcuType
<1>3. JFrame("claimed", SaNull, SaGlobal, n) \in Frame
  BY <1>1, FramesTyped
<1>4. \A w \in Name : w # n => Grows(QueueOf(w), QueueOf(w)')
  <2>1. rx_msgq \in [Ecu -> Seq(Frame)] /\ rxq \in Seq(Frame)
    BY <1>1 DEF QueueType
  <2>2. UNCHANGED <<rx_msgq, rxq>> \/ OnBus(n, JFrame("claimed", SaNull, SaGlobal, n), rx_msgq, rxq)
    BY DEF Yields, Reclaims
  <2> QED
    BY <1>1, <1>3, <2>1, <2>2, BusReaches, UnchangedGrows
<1>5. \A w \in Name : w # n => Same(w)
  BY <1>2, NodeApart
<1>6. Moves(n)
  BY <1>4, <1>5 DEF Moves
<1>7. \A sa \in Real : ~Tries(n, sa)' /\ ~Wants(n, sa)'
  BY <1>1, <1>2 DEF Tries, Wants, Holds, Settles, Watches, Probes
<1> QED
  BY <1>1, <1>6, <1>7, PairStep

(* A node sends. *)
LEMMA QuietPair ==
  ASSUME JTypeOK, PairInv, ~unheard, NEW z \in Name, \A w \in Name : Same(w) /\ Grows(QueueOf(w), QueueOf(w)')
  PROVE  PairInv'
<1>1. Moves(z)
  BY DEF Moves
<1>2. ASSUME NEW y \in Name, NEW sa \in Real, z < y, Wants(z, sa)', Tries(y, sa)
      PROVE  Warned(y, sa)' \/ Answers(z, y, sa)'
  <2>1. Wants(z, sa) /\ (Holds(z, sa)' <=> Holds(z, sa))
    BY <1>2, SameHolds
  <2>2. Asked(QueueOf(z), sa) => Asked(QueueOf(z)', sa)
    BY GrowsKeeps
  <2> QED
    BY <1>1, <1>2, <2>1, <2>2, StrongStays
<1>3. ASSUME NEW x \in Name, NEW sa \in Real, x < z, Wants(x, sa), Tries(z, sa)'
      PROVE  Warned(z, sa)' \/ Answers(x, z, sa)'
  <2>1. Tries(z, sa) /\ (Probes(z, sa)' <=> Probes(z, sa))
    BY <1>3, SameHolds
  <2>2. Warned(z, sa) => Warned(z, sa)'
    BY WarnedStays
  <2> QED
    BY <1>1, <1>3, <2>1, <2>2, WeakStays
<1> QED
  BY <1>1, <1>2, <1>3, PairStep

LEMMA SendsPair ==
  ASSUME JTypeOK, PairInv, NEW n \in Ecu, MainBam(n) \/ (\E t \in Task : BamSends(n, t)), ~unheard'
  PROVE  PairInv'
<1>1. n \in Name /\ n # HostName /\ QueueType /\ UNCHANGED <<claimer, peer, self_sa, addr_valid, py>>
  BY JConstants DEF MainBam, BamSends, pyVars, Name, JTypeOK
<1>2. ~unheard
  BY DEF MainBam, BamSends
<1>3. \A w \in Name : Same(w)
  BY <1>1 DEF Same
<1>4. CASE UNCHANGED <<rx_msgq, rxq>>
  BY <1>1, <1>2, <1>3, <1>4, UnchangedGrows, QuietPair
<1>5. ASSUME NEW t \in Task, BamSends(n, t),
             OnBus(n, JFrame("tp", bam[n][t].sa, SaGlobal,
                             [packet |-> bam[n][t].next, id |-> <<n, t, bam[n][t].id>>]), rx_msgq, rxq)
      PROVE  PairInv'
  <2> DEFINE b == bam[n][t]
             f == JFrame("tp", b.sa, SaGlobal, [packet |-> b.next, id |-> <<n, t, b.id>>])
  <2>1. b.sa \in 0..253 /\ b.next \in 0..Packets /\ b.id \in Nat
    BY <1>5, SMTT(30) DEF JTypeOK, BamType, BamState, BamSends
  <2>2. f \in Frame
    BY <2>1, PacketTyped DEF Snapshot
  <2>3. rx_msgq \in [Ecu -> Seq(Frame)] /\ rxq \in Seq(Frame) /\ OnBus(n, f, rx_msgq, rxq)
    BY <1>1, <1>5 DEF QueueType
  <2> HIDE DEF f
  <2>4. /\ \A w \in Name : w # n => Grows(QueueOf(w), QueueOf(w)')
        /\ rx_msgq'[n] = rx_msgq[n]
    BY <1>1, <2>2, <2>3, BusReaches
  <2>5. Grows(QueueOf(n), QueueOf(n)')
    BY <1>1, <2>4 DEF QueueOf, Grows
  <2> QED
    BY <1>1, <1>2, <1>3, <2>4, <2>5, QuietPair
<1> QED
  BY <1>4, <1>5 DEF MainBam, BamSends

-----------------------------------------------------------------------------
(* A frame is taken. *)
LEMMA PassedOver ==
  ASSUME PairInv, ~unheard, NEW z \in Name, Same(z), Moves(z),
         QueueOf(z) \in Seq(Frame), QueueOf(z) # <<>>, QueueOf(z)' = Tail(QueueOf(z)),
         Head(QueueOf(z)).kind # "claimed",
         \A y \in Name : \A sa \in Real :
           z < y /\ Head(QueueOf(z)).kind = "request" /\ Head(QueueOf(z)).da = sa /\ Holds(z, sa) /\ Tries(y, sa)
             => Rival(QueueOf(y)', sa, y)
  PROVE  PairInv'
<1> DEFINE q == QueueOf(z)
<1>1. ASSUME NEW y \in Name, NEW sa \in Real, z < y, Wants(z, sa)', Tries(y, sa)
      PROVE  Warned(y, sa)' \/ Answers(z, y, sa)'
  <2>1. Wants(z, sa) /\ (Holds(z, sa)' <=> Holds(z, sa))
    BY <1>1, SameHolds
  <2>2. CASE Holds(z, sa) /\ Asked(q, sa) /\ ~Asked(Tail(q), sa)
    <3>1. Head(q).kind = "request" /\ Head(q).da = sa
      BY <2>2, TailKeeps
    <3>2. Rival(QueueOf(y)', sa, y)
      BY <1>1, <2>2, <3>1
    <3> QED
      BY <3>2 DEF Warned
  <2>3. CASE Asked(q, sa) => Asked(Tail(q), sa)
    BY <1>1, <2>1, <2>3, StrongStays
  <2>4. CASE ~Holds(z, sa)
    <3>1. Warned(y, sa)
      BY <1>1, <2>1, <2>4 DEF PairInv, Yielding, Answers
    <3>2. y # z
      BY <1>1, JConstants
    <3> QED
      BY <3>1, <3>2, WarnedStays DEF Moves
  <2> QED
    BY <2>2, <2>3, <2>4
<1>2. ASSUME NEW x \in Name, NEW sa \in Real, x < z, Wants(x, sa), Tries(z, sa)'
      PROVE  Warned(z, sa)' \/ Answers(x, z, sa)'
  <2>1. Tries(z, sa) /\ (Probes(z, sa)' <=> Probes(z, sa)) /\ (Saw(z, sa)' <=> Saw(z, sa))
    BY <1>2, SameHolds
  <2>2. Rival(q, sa, z) => Rival(Tail(q), sa, z)
    BY TailKeeps
  <2>3. Warned(z, sa) => Warned(z, sa)'
    BY <2>1, <2>2 DEF Warned
  <2> QED
    BY <1>2, <2>1, <2>3, WeakStays
<1> QED
  BY <1>1, <1>2, PairStep

LEMMA ClaimTaken ==
  ASSUME PairInv, ~unheard, NEW z \in Name, Moves(z),
         QueueOf(z) \in Seq(Frame), QueueOf(z) # <<>>, QueueOf(z)' = Tail(QueueOf(z)),
         Head(QueueOf(z)).kind = "claimed",
         \A sa \in Real : /\ Wants(z, sa)' => Wants(z, sa)
                          /\ Tries(z, sa)' => Tries(z, sa)
                          /\ Wants(z, sa)' /\ Holds(z, sa) => Holds(z, sa)'
                          /\ Probes(z, sa) => Probes(z, sa)'
                          /\ Tries(z, sa)' /\ Saw(z, sa) => Saw(z, sa)'
                          /\ Tries(z, sa)' /\ Head(QueueOf(z)).sa = sa /\ Head(QueueOf(z)).what < z => Saw(z, sa)'
  PROVE  PairInv'
<1> DEFINE q == QueueOf(z)
<1>1. ASSUME NEW y \in Name, NEW sa \in Real, z < y, Wants(z, sa)', Tries(y, sa)
      PROVE  Warned(y, sa)' \/ Answers(z, y, sa)'
  <2>1. Asked(q, sa) => Asked(Tail(q), sa)
    BY TailKeeps
  <2> QED
    BY <1>1, <2>1, StrongStays
<1>2. ASSUME NEW x \in Name, NEW sa \in Real, x < z, Wants(x, sa), Tries(z, sa)'
      PROVE  Warned(z, sa)' \/ Answers(x, z, sa)'
  <2>1. Rival(q, sa, z) => Rival(Tail(q), sa, z) \/ Saw(z, sa)'
    BY <1>2, TailKeeps
  <2>2. Warned(z, sa) => Warned(z, sa)'
    BY <1>2, <2>1 DEF Warned
  <2> QED
    BY <1>2, <2>2, WeakStays
<1> QED
  BY <1>1, <1>2, PairStep

LEMMA RxPair ==
  ASSUME JTypeOK, PairInv, NEW n \in Ecu, RxTakes(n), ~unheard'
  PROVE  PairInv'
<1> DEFINE f == Head(rx_msgq[n])
<1>1. /\ n \in Name /\ n # HostName /\ n \in Nat /\ QueueType
      /\ QueueOf(n) = rx_msgq[n] /\ QueueOf(n)' = rx_msgq'[n]
  BY JConstants DEF Name, JTypeOK, QueueOf
<1>2. /\ rx_msgq[n] # <<>> /\ rx_msgq[n] \in Seq(Frame) /\ f \in Frame
      /\ RestOf(n) \in [Ecu -> Seq(Frame)] /\ rxq \in Seq(Frame)
      /\ RestOf(n)[n] = Tail(rx_msgq[n]) /\ \A m \in Ecu : m # n => RestOf(n)[m] = rx_msgq[m]
  BY <1>1, TailTyped DEF RxTakes, QueueType
<1>3. UNCHANGED <<claimer, self_sa, py>>
  BY DEF RxTakes, JRxOnly, pyVars
<1>4. ASSUME Taken(n)
      PROVE  QueueOf(n)' = Tail(rx_msgq[n]) /\ \A w \in Name : w # n => Grows(QueueOf(w), QueueOf(w)')
  <2>1. QueueOf(n)' = Tail(rx_msgq[n])
    BY <1>1, <1>2, <1>4 DEF Taken
  <2>2. ASSUME NEW w \in Name, w # n PROVE Grows(QueueOf(w), QueueOf(w)')
    BY <1>2, <1>4, <2>2 DEF Taken, QueueOf, Grows, Name
  <2> QED
    BY <2>1, <2>2
<1> HIDE DEF f
<1>5. CASE f.kind = "claimed" /\ RxClaimed(n, f)
  <2> DEFINE mine == f.sa = self_sa[n] /\ addr_valid[n]
             rival == f.sa = claimer[n].sa /\ ~addr_valid[n]
  <2>1. /\ ~unheard /\ Taken(n) /\ f.what \in Nat
        /\ ~(rival /\ peer[n].seen /\ peer[n].name < f.what)
    BY <1>2, <1>5, FrameKinds DEF RxClaimed
  <2>2. /\ addr_valid'[n] <=> addr_valid[n] /\ ~(mine /\ f.what < n)
        /\ \A m \in Ecu : m # n => addr_valid'[m] = addr_valid[m]
    BY <1>5 DEF RxClaimed, JTypeOK, EcuType
  <2>3. /\ peer'[n] = IF rival THEN [seen |-> TRUE, name |-> f.what] ELSE peer[n]
        /\ peer[n].name \in Nat
        /\ \A m \in Ecu : m # n => peer'[m] = peer[m]
    BY <1>5 DEF RxClaimed, JTypeOK, EcuType, Peer
  <2>4. Moves(n)
    <3>1. \A w \in Name : w # n => Same(w)
      BY <1>3, <2>2, <2>3, NodeApart
    <3> QED
      BY <1>4, <2>1, <3>1 DEF Moves
  <2>5. addr_valid[n] => claimer[n].at = "up"
    BY DEF JTypeOK, EcuType
  <2>6. ASSUME NEW sa \in Real
        PROVE  /\ Wants(n, sa)' => Wants(n, sa)
               /\ Tries(n, sa)' => Tries(n, sa)
               /\ Wants(n, sa)' /\ Holds(n, sa) => Holds(n, sa)'
               /\ Probes(n, sa) => Probes(n, sa)'
    BY <1>1, <1>3, <2>2, <2>5 DEF Wants, Tries, Holds, Settles, Watches, Probes
  <2>7. ASSUME NEW sa \in Real, Tries(n, sa)', Saw(n, sa)
        PROVE  Saw(n, sa)'
    <3>1. claimer[n].at \in {"window", "settle"} /\ claimer[n].sa = sa /\ peer[n].seen /\ peer[n].name < n
      BY <1>1, <2>7 DEF Saw, Loses
    <3>2. peer'[n].seen /\ peer'[n].name < n
      BY <1>1, <2>1, <2>3, <3>1
    <3> QED
      BY <1>1, <1>3, <3>1, <3>2 DEF Saw, Loses
  <2>8. ASSUME NEW sa \in Real, Tries(n, sa)', f.sa = sa, f.what < n
        PROVE  Saw(n, sa)'
    <3>1. claimer[n].at \in {"window", "settle"} /\ claimer[n].sa = sa
      BY <1>1, <1>3, <2>2, <2>8 DEF Wants, Tries, Holds, Settles, Watches, Probes
    <3>2. peer'[n].seen /\ peer'[n].name < n
      BY <2>3, <2>5, <2>8, <3>1
    <3> QED
      BY <1>1, <1>3, <3>1, <3>2 DEF Saw, Loses
  <2>9. QueueOf(n)' = Tail(QueueOf(n)) /\ f = Head(QueueOf(n))
    BY <1>1, <1>4, <2>1 DEF f
  <2> QED
    BY <1>1, <1>2, <1>5, <2>1, <2>4, <2>6, <2>7, <2>8, <2>9, ClaimTaken
<1>6. CASE f.kind = "request" /\ RxRequest(n, f) /\ ForUs(n, f)
  <2> DEFINE s == self_sa[n]
             g == JFrame("claimed", s, SaGlobal, n)
  <2>1. /\ OnBus(n, g, RestOf(n), rxq) /\ ~unheard /\ ~Overruns(n) /\ UNCHANGED <<addr_valid, peer>>
        /\ addr_valid[n]
    BY <1>6 DEF RxRequest, ForUs
  <2>2. s \in 0..254 /\ g \in Frame
    <3>1. s \in 0..254
      BY DEF JTypeOK, EcuType
    <3> QED
      BY <1>1, <3>1, FramesTyped
  <2> HIDE DEF g
  <2>3. /\ \A w \in Name : w # n => Grows(QueueOf(w), QueueOf(w)')
        /\ \A w \in Name : w # n /\ (w = HostName \/ On(w)) => QueueOf(w)' = Append(QueueOf(w), g)
        /\ rx_msgq'[n] = Tail(rx_msgq[n])
    BY <1>1, <1>2, <2>1, <2>2, BusReaches
  <2>4. \A w \in Name : Same(w)
    BY <1>1, <1>3, <2>1 DEF Same
  <2>5. ASSUME NEW y \in Name, NEW sa \in Real, n < y, Holds(n, sa), Tries(y, sa)
        PROVE  Rival(QueueOf(y)', sa, y)
    <3>1. y # n /\ s = sa
      BY <1>1, <2>5, JConstants DEF Holds
    <3>2. y = HostName \/ On(y)
      BY <2>5 DEF Tries, Wants, Holds, Settles, Watches, Probes, On, Name, JTypeOK, EcuType
    <3>3. QueueOf(y)' = Append(QueueOf(y), g) /\ QueueOf(y) \in Seq(Frame)
      BY <1>1, <2>3, <3>1, <3>2 DEF QueueOf, QueueType, Name
    <3>4. Rival(Append(QueueOf(y), g), sa, y)
      BY <1>1, <2>2, <2>5, <3>1, <3>3, ClaimArrives DEF g
    <3> QED
      BY <3>3, <3>4
  <2>6. Moves(n) /\ f = Head(QueueOf(n)) /\ QueueOf(n)' = Tail(QueueOf(n))
    BY <1>1, <2>3, <2>4 DEF Moves, f
  <2> QED
    BY <1>1, <1>2, <1>6, <2>1, <2>4, <2>5, <2>6, PassedOver
<1>7. CASE /\ f.kind # "claimed" /\ (f.kind = "request" => ~ForUs(n, f))
           /\ Taken(n) /\ UNCHANGED <<addr_valid, peer, unheard>>
  <2>1. \A w \in Name : Same(w)
    BY <1>1, <1>3, <1>7 DEF Same
  <2>2. \A sa \in Real : ~(f.kind = "request" /\ f.da = sa /\ Holds(n, sa))
    BY <1>1, <1>7 DEF ForUs, Holds
  <2>3. Moves(n) /\ f = Head(QueueOf(n)) /\ QueueOf(n)' = Tail(QueueOf(n))
    BY <1>1, <1>4, <1>7, <2>1 DEF Moves, f
  <2> QED
    BY <1>1, <1>2, <1>7, <2>1, <2>2, <2>3, PassedOver
<1> QED
  BY <1>5, <1>6, <1>7 DEF RxTakes, f, RxRequest, RxAsk

-----------------------------------------------------------------------------
(* The host. *)
LEMMA HostApart ==
  ASSUME PyOnly
  PROVE  \A w \in Name : w # HostName => Same(w)
BY DEF PyOnly, ecuVars, Same

LEMMA HostFacts ==
  ASSUME JTypeOK
  PROVE  /\ HostName \in Name /\ HostName \notin Ecu /\ HostName \in Nat /\ QueueType
         /\ rx_msgq \in [Ecu -> Seq(Frame)] /\ rxq \in Seq(Frame)
         /\ QueueOf(HostName) = rxq /\ QueueOf(HostName)' = rxq'
         /\ py \in PyState /\ py.sa \in 0..254 /\ py.cand \in 0..253 /\ py.peer \in Peer /\ py.reqs \in Nat
         /\ (py.valid => py.at = "run" /\ py.sa \in 0..253)
BY JConstants DEF Name, JTypeOK, QueueType, QueueOf, PyType, PyState

LEMMA OnlyOthers ==
  ASSUME JTypeOK, NEW y \in Name, y # HostName, NEW sa, Tries(y, sa)
  PROVE  y \in Ecu /\ On(y) /\ QueueOf(y) \in Seq(Frame)
BY DEF Tries, Wants, Holds, Settles, Watches, Probes, On, Name, JTypeOK, EcuType, QueueOf, QueueType

LEMMA PyBeginsPair ==
  ASSUME JTypeOK, PairInv, PyBegins, ~unheard'
  PROVE  PairInv'
<1> DEFINE s == py.cand
           f == JFrame("request", py.sa, s, HostName)
<1>1. /\ ~unheard /\ ~Overruns(HostName) /\ ~Deaf(s) /\ py.at = "claim" /\ ~py.valid
      /\ OnBus(HostName, f, rx_msgq, rxq) /\ PyOnly
      /\ py' = [py EXCEPT !.at = "window", !.peer = NoPeer]
  BY HostFacts DEF PyBegins
<1>2. SameBut(py', "window", py.sa, py.cand, py.valid, NoPeer)
  <2>1. "window" \in PyAt /\ NoPeer \in Peer /\ py \in PyState
    BY HostFacts DEF PyAt, NoPeer, Peer
  <2> QED
    BY <1>1, <2>1, RecAtPeer
<1>3. f \in Frame
  BY HostFacts, FramesTyped
<1> HIDE DEF f
<1>4. /\ \A w \in Name : w # HostName => Grows(QueueOf(w), QueueOf(w)')
      /\ \A w \in Name : w # HostName /\ On(w) => QueueOf(w)' = Append(QueueOf(w), f)
  BY <1>1, <1>3, HostFacts, BusReaches
<1>5. \A w \in Name : w # HostName => Same(w)
  BY <1>1, HostApart
<1>6. Moves(HostName)
  BY <1>4, <1>5 DEF Moves
<1>7. ASSUME NEW sa \in Real PROVE ~Wants(HostName, sa)' /\ (Tries(HostName, sa)' => sa = s /\ Probes(HostName, sa)')
  BY <1>1, <1>2 DEF Wants, Tries, Watches, Probes, Holds, Settles, SameBut
<1>8. ASSUME NEW x \in Name, NEW sa \in Real, x < HostName, Wants(x, sa), Tries(HostName, sa)'
      PROVE  Answers(x, HostName, sa)'
  <2>1. sa = s /\ Probes(HostName, sa)' /\ x # HostName
    BY <1>7, <1>8, JConstants
  <2>2. x \in Ecu /\ On(x) /\ QueueOf(x) \in Seq(Frame)
    BY <1>8, <2>1, OnlyOthers DEF Tries
  <2>3. Holds(x, sa)
    <3>1. ~Settles(x, sa)
      <4>1. claimer[x].at = "settle" /\ claimer[x].sa = sa => claimer[x] = [at |-> "settle", sa |-> sa]
        BY <2>2 DEF JTypeOK, EcuType
      <4> QED
        BY <1>1, <2>1, <2>2, <4>1 DEF Deaf, Settles
    <3> QED
      BY <1>8, <3>1 DEF Wants
  <2>4. QueueOf(x)' = Append(QueueOf(x), f)
    BY <1>4, <2>1, <2>2
  <2>5. Asked(Append(QueueOf(x), f), sa)
    BY <2>1, <2>2, HostFacts, ProbeArrives DEF f
  <2>6. Holds(x, sa)'
    BY <1>5, <2>1, <2>3, SameHolds
  <2> QED
    BY <2>1, <2>4, <2>5, <2>6 DEF Answers
<1> QED
  BY <1>1, <1>6, <1>7, <1>8, HostFacts, PairStep

LEMMA PyWakesPair ==
  ASSUME JTypeOK, PairInv, PyWakes, ~unheard'
  PROVE  PairInv'
<1>1. /\ ~unheard /\ py.at \in {"window", "settle"} /\ Heard /\ ~py.valid /\ PyOnly
      /\ UNCHANGED <<rx_msgq, rxq>>
      /\ py' = [py EXCEPT !.at = IF py.at = "window" THEN "drain1" ELSE "drain2"]
  BY HostFacts DEF PyWakes, PyGoes
<1>2. SameBut(py', IF py.at = "window" THEN "drain1" ELSE "drain2", py.sa, py.cand, py.valid, py.peer)
  <2>1. "drain1" \in PyAt /\ "drain2" \in PyAt /\ py \in PyState
    BY HostFacts DEF PyAt
  <2> QED
    BY <1>1, <2>1, RecAt
<1>3. Moves(HostName) /\ QueueOf(HostName)' = QueueOf(HostName)
  BY <1>1, HostApart, HostFacts, UnchangedGrows DEF Moves
<1>4. ASSUME NEW sa \in Real
      PROVE  /\ Wants(HostName, sa)' => Wants(HostName, sa) /\ ~Holds(HostName, sa)
             /\ Tries(HostName, sa)' => Tries(HostName, sa)
             /\ Saw(HostName, sa) => Saw(HostName, sa)'
  BY <1>1, <1>2 DEF Wants, Tries, Watches, Probes, Holds, Settles, SameBut, Saw, PyLoses
<1>5. ASSUME NEW y \in Name, NEW sa \in Real, HostName < y, Wants(HostName, sa)', Tries(y, sa)
      PROVE  Warned(y, sa)' \/ Answers(HostName, y, sa)'
  BY <1>1, <1>3, <1>4, <1>5, HostFacts, StrongStays
<1>6. ASSUME NEW x \in Name, NEW sa \in Real, x < HostName, Wants(x, sa), Tries(HostName, sa)'
      PROVE  Warned(HostName, sa)' \/ Answers(x, HostName, sa)'
  <2>1. x \in Ecu
    BY <1>6, HostFacts DEF Name
  <2>2. Asked(QueueOf(x), sa) = FALSE
    BY <1>1, <2>1, QuietQueues
  <2>3. Warned(HostName, sa) => Warned(HostName, sa)'
    BY <1>3, <1>4 DEF Warned
  <2> QED
    BY <1>1, <1>3, <1>4, <1>6, <2>2, <2>3, HostFacts, WeakStays
<1> QED
  BY <1>1, <1>3, <1>5, <1>6, HostFacts, PairStep

LEMMA PyAnnouncesPair ==
  ASSUME JTypeOK, PairInv, PyAnnounces, ~unheard'
  PROVE  PairInv'
<1> DEFINE f == JFrame("claimed", py.sa, SaGlobal, HostName)
<1>1. /\ ~unheard /\ ~Overruns(HostName) /\ py.at = "drain1" /\ rxq = <<>> /\ ~py.valid /\ PyOnly
      /\ OnBus(HostName, f, rx_msgq, rxq) /\ py' = [py EXCEPT !.at = "settle"]
  BY HostFacts DEF PyAnnounces, PyGoes
<1>2. SameBut(py', "settle", py.sa, py.cand, py.valid, py.peer)
  <2>1. "settle" \in PyAt /\ py \in PyState
    BY HostFacts DEF PyAt
  <2> QED
    BY <1>1, <2>1, RecAt
<1>3. f \in Frame
  BY HostFacts, FramesTyped
<1> HIDE DEF f
<1>4. /\ \A w \in Name : w # HostName => Grows(QueueOf(w), QueueOf(w)')
      /\ \A w \in Name : w # HostName /\ On(w) => QueueOf(w)' = Append(QueueOf(w), f)
      /\ rxq' = rxq
  BY <1>1, <1>3, HostFacts, BusReaches
<1>5. Moves(HostName)
  BY <1>1, <1>4, HostApart DEF Moves
<1>6. ASSUME NEW sa \in Real
      PROVE  /\ Tries(HostName, sa)' => sa = py.cand /\ sa = py.sa /\ Tries(HostName, sa)
             /\ ~Probes(HostName, sa)
             /\ Saw(HostName, sa) => Saw(HostName, sa)'
  BY <1>1, <1>2 DEF Wants, Tries, Watches, Probes, Holds, Settles, SameBut, Saw, PyLoses
<1>7. ASSUME NEW y \in Name, NEW sa \in Real, HostName < y, Wants(HostName, sa)', Tries(y, sa)
      PROVE  Warned(y, sa)'
  <2>1. sa = py.sa /\ y # HostName
    BY <1>6, <1>7, JConstants DEF Tries
  <2>2. On(y) /\ QueueOf(y) \in Seq(Frame)
    BY <1>7, <2>1, OnlyOthers
  <2>3. QueueOf(y)' = Append(QueueOf(y), f)
    BY <1>4, <2>1, <2>2
  <2>4. Rival(Append(QueueOf(y), f), sa, y)
    BY <1>7, <2>1, <2>2, HostFacts, ClaimArrives DEF f
  <2> QED
    BY <2>3, <2>4 DEF Warned
<1>8. ASSUME NEW x \in Name, NEW sa \in Real, x < HostName, Wants(x, sa), Tries(HostName, sa)'
      PROVE  Warned(HostName, sa)' \/ Answers(x, HostName, sa)'
  <2>1. Warned(HostName, sa) => Warned(HostName, sa)'
    BY <1>4, <1>6, HostFacts DEF Warned
  <2> QED
    BY <1>1, <1>5, <1>6, <1>8, <2>1, HostFacts, WeakStays
<1> QED
  BY <1>1, <1>5, <1>7, <1>8, HostFacts, PairStep

LEMMA PyDecidesPair ==
  ASSUME JTypeOK, PairInv, PyDecides, ~unheard'
  PROVE  PairInv'
<1>1. /\ ~unheard /\ py.sa = py.cand /\ py.at = "drain2" /\ rxq = <<>> /\ ~py.valid /\ PyOnly
      /\ UNCHANGED <<rx_msgq, rxq>>
  BY HostFacts DEF PyDecides
<1>2. Moves(HostName) /\ QueueOf(HostName)' = QueueOf(HostName)
  BY <1>1, HostApart, HostFacts, UnchangedGrows DEF Moves
<1>3. {"run", "claim"} \subseteq PyAt /\ py \in PyState /\ TRUE \in BOOLEAN /\ SaNull \in 0..254
  BY HostFacts DEF PyAt, SaNull
<1>4. CASE ~PyLoses
  <2>1. SameBut(py', "run", py.cand, py.cand, TRUE, py.peer)
    <3>1. py' = [py EXCEPT !.at = "run", !.sa = py.cand, !.valid = TRUE] /\ py.cand \in 0..254
      BY <1>4, HostFacts DEF PyDecides
    <3> QED
      BY <1>3, <3>1, RecAtSaValid
  <2>2. ASSUME NEW sa \in Real
        PROVE  /\ Tries(HostName, sa)' => Settles(HostName, sa)
               /\ ~Holds(HostName, sa) /\ ~Probes(HostName, sa) /\ ~Saw(HostName, sa)
    BY <1>1, <1>4, <2>1 DEF Wants, Tries, Watches, Probes, Holds, Settles, SameBut, Saw
  <2>3. ASSUME NEW y \in Name, NEW sa \in Real, HostName < y, Wants(HostName, sa)', Tries(y, sa)
        PROVE  Warned(y, sa)' \/ Answers(HostName, y, sa)'
    <3>1. Wants(HostName, sa)
      BY <2>2, <2>3 DEF Wants, Tries
    <3> QED
      BY <1>1, <1>2, <2>2, <2>3, <3>1, HostFacts, StrongStays
  <2>4. ASSUME NEW x \in Name, NEW sa \in Real, x < HostName, Wants(x, sa), Tries(HostName, sa)'
        PROVE  Warned(HostName, sa)' \/ Answers(x, HostName, sa)'
    <3>1. ~Rival(<<>>, sa, HostName)
      BY DEF Rival
    <3>2. ~Warned(HostName, sa) /\ Tries(HostName, sa)
      BY <1>1, <2>2, <2>4, <3>1, HostFacts DEF Warned, Tries, Wants
    <3> QED
      BY <1>1, <1>2, <2>2, <2>4, <3>2, HostFacts, WeakStays
  <2> QED
    BY <1>1, <1>2, <2>3, <2>4, HostFacts, PairStep
<1>5. CASE PyLoses
  <2>1. py'.at \in {"run", "claim"} /\ ~py'.valid
    <3>1. CASE py.cand > 0
      <4>1. py' = [py EXCEPT !.at = "claim", !.cand = py.cand - 1] /\ py.cand - 1 \in 0..253
        BY <1>5, <3>1, HostFacts DEF PyDecides
      <4>2. SameBut(py', "claim", py.sa, py.cand - 1, py.valid, py.peer)
        BY <1>3, <4>1, RecAtCand
      <4> QED
        BY <1>1, <4>2 DEF SameBut
    <3>2. CASE ~(py.cand > 0)
      <4>1. py' = [py EXCEPT !.at = "run", !.sa = SaNull]
        BY <1>5, <3>2 DEF PyDecides
      <4>2. SameBut(py', "run", SaNull, py.cand, py.valid, py.peer)
        BY <1>3, <4>1, RecAtSa
      <4> QED
        BY <1>1, <4>2 DEF SameBut
    <3> QED
      BY <3>1, <3>2
  <2>2. \A sa \in Real : ~Tries(HostName, sa)' /\ ~Wants(HostName, sa)'
    BY <2>1 DEF Wants, Tries, Watches, Probes, Holds, Settles
  <2> QED
    BY <1>1, <1>2, <2>2, HostFacts, PairStep
<1> QED
  BY <1>4, <1>5

LEMMA PyReclaimsPair ==
  ASSUME JTypeOK, PairInv, PyReclaims, ~unheard'
  PROVE  PairInv'
<1>1. /\ ~unheard /\ PyOnly /\ UNCHANGED <<rx_msgq, rxq>> /\ ~py.valid
      /\ py' = [py EXCEPT !.at = "claim", !.cand = py.sa] /\ py.sa \in 0..253
  BY HostFacts DEF PyReclaims, SaNull
<1>2. SameBut(py', "claim", py.sa, py.sa, py.valid, py.peer)
  <2>1. "claim" \in PyAt /\ py \in PyState
    BY HostFacts DEF PyAt
  <2> QED
    BY <1>1, <2>1, RecAtCand
<1>3. Moves(HostName)
  BY <1>1, HostApart, HostFacts, UnchangedGrows DEF Moves
<1>4. \A sa \in Real : ~Tries(HostName, sa)' /\ ~Wants(HostName, sa)'
  BY <1>1, <1>2 DEF Wants, Tries, Watches, Probes, Holds, Settles, SameBut
<1> QED
  BY <1>1, <1>3, <1>4, HostFacts, PairStep

LEMMA PyQuietPair ==
  ASSUME JTypeOK, PairInv, PyRequests \/ Sweep, ~unheard'
  PROVE  PairInv'
<1>1. ~unheard /\ PyOnly
  <2>1. CASE PyRequests
    BY <2>1 DEF PyRequests
  <2>2. CASE Sweep
    <3>1. UNCHANGED unheard /\ PyOnly
      BY <2>2 DEF Sweep
    <3> QED
      BY <3>1
  <2> QED
    BY <2>1, <2>2
<1>2. CASE Sweep
  <2>1. UNCHANGED <<py, rx_msgq, rxq>>
    BY <1>2 DEF Sweep
  <2>2. \A w \in Name : Same(w)
    BY <1>1, <2>1, HostApart DEF Same
  <2> QED
    BY <1>1, <2>1, <2>2, HostFacts, UnchangedGrows, QuietPair
<1>3. CASE PyRequests
  <2> DEFINE f == JFrame("ask", py.sa, Preferred, py.reqs)
  <2>1. /\ OnBus(HostName, f, rx_msgq, rxq) /\ py' = [py EXCEPT !.reqs = py.reqs - 1] /\ py.reqs - 1 \in Nat
    BY <1>3, HostFacts DEF PyRequests
  <2>2. SameBut(py', py.at, py.sa, py.cand, py.valid, py.peer)
    BY <2>1, HostFacts, RecReqs
  <2>3. f \in Frame
    BY HostFacts, FramesTyped, JConstants
  <2> HIDE DEF f
  <2>4. /\ \A w \in Name : w # HostName => Grows(QueueOf(w), QueueOf(w)')
        /\ rxq' = rxq
    BY <2>1, <2>3, HostFacts, BusReaches
  <2>5. \A w \in Name : Same(w)
    BY <1>1, <2>2, HostApart DEF Same, SameBut
  <2>6. Grows(QueueOf(HostName), QueueOf(HostName)')
    BY <2>4, HostFacts DEF Grows
  <2> QED
    BY <1>1, <2>4, <2>5, <2>6, HostFacts, QuietPair
<1> QED
  BY <1>2, <1>3

LEMMA PyHandlesPair ==
  ASSUME JTypeOK, PairInv, PyHandles, ~unheard'
  PROVE  PairInv'
<1> DEFINE f == Head(rxq)
<1>1. /\ PyOnly /\ rxq # <<>> /\ f \in Frame /\ Tail(rxq) \in Seq(Frame) /\ py.at \in {"drain1", "drain2", "run"}
      /\ Head(QueueOf(HostName)) = f /\ QueueOf(HostName) # <<>>
  BY HostFacts DEF PyHandles
<1>2. \A w \in Name : w # HostName => Same(w)
  BY <1>1, HostApart
<1>3. UNCHANGED rx_msgq => \A w \in Name : w # HostName => Grows(QueueOf(w), QueueOf(w)')
  BY DEF QueueOf, Grows
<1> HIDE DEF f
<1>4. CASE f.kind = "claimed" /\ PyClaimed(f)
  <2> DEFINE rival == py.at \in {"drain1", "drain2"} /\ f.sa = py.cand
             p == IF rival THEN [seen |-> TRUE, name |-> f.what] ELSE py.peer
             v == py.valid /\ ~(f.sa = py.sa /\ f.what < HostName)
  <2>1. /\ ~unheard /\ ~(rival /\ py.peer.seen /\ py.peer.name < f.what) /\ f.what \in Nat
        /\ rxq' = Tail(rxq) /\ UNCHANGED rx_msgq
        /\ py' = [py EXCEPT !.peer = p, !.valid = v]
    BY <1>1, <1>4, FrameKinds DEF PyClaimed
  <2>2. py.peer.name \in Nat /\ py.valid \in BOOLEAN
    BY HostFacts DEF Peer, PyState
  <2>3. p \in Peer /\ v \in BOOLEAN
    BY <2>1, <2>2, HostFacts DEF Peer
  <2>4. /\ rival => p.seen /\ p.name = f.what
        /\ ~rival => p = py.peer
        /\ v => py.valid /\ ~(f.sa = py.sa /\ f.what < HostName)
        /\ py.valid /\ ~(f.sa = py.sa /\ f.what < HostName) => v
    OBVIOUS
  <2> HIDE DEF p, v
  <2>5. SameBut(py', py.at, py.sa, py.cand, v, p)
    BY <2>1, <2>3, HostFacts, RecPeerValid
  <2>6. Moves(HostName) /\ QueueOf(HostName)' = Tail(QueueOf(HostName))
    BY <1>2, <1>3, <2>1, HostFacts DEF Moves
  <2>7. ASSUME NEW sa \in Real
        PROVE  /\ Wants(HostName, sa)' => Wants(HostName, sa)
               /\ Tries(HostName, sa)' => Tries(HostName, sa)
               /\ Wants(HostName, sa)' /\ Holds(HostName, sa) => Holds(HostName, sa)'
               /\ Probes(HostName, sa) => Probes(HostName, sa)'
    BY <2>4, <2>5, HostFacts DEF Wants, Tries, Watches, Probes, Holds, Settles, SameBut
  <2>8. ASSUME NEW sa \in Real, Tries(HostName, sa)', Saw(HostName, sa)
        PROVE  Saw(HostName, sa)'
    <3>1. py.at \in {"drain1", "drain2"} /\ py.cand = sa /\ py.peer.seen /\ py.peer.name < HostName
      BY <1>1, <2>8 DEF Saw, PyLoses
    <3>2. p.seen /\ p.name < HostName
      BY <2>1, <2>2, <2>4, <3>1, HostFacts
    <3> QED
      BY <2>5, <3>1, <3>2 DEF Saw, PyLoses, SameBut
  <2>9. ASSUME NEW sa \in Real, Tries(HostName, sa)', f.sa = sa, f.what < HostName
        PROVE  Saw(HostName, sa)'
    <3>1. py.at \in {"drain1", "drain2"} /\ py.cand = sa
      BY <1>1, <2>4, <2>5, <2>9, HostFacts DEF Wants, Tries, Watches, Probes, Holds, Settles, SameBut
    <3>2. p.seen /\ p.name < HostName
      BY <2>4, <2>9, <3>1
    <3> QED
      BY <2>5, <3>1, <3>2 DEF Saw, PyLoses, SameBut
  <2> QED
    BY <1>1, <1>4, <2>1, <2>6, <2>7, <2>8, <2>9, HostFacts, ClaimTaken
<1>5. CASE f.kind = "request" /\ PyAsked(f) /\ f.da \in {py.sa, SaGlobal} /\ py.valid
  <2> DEFINE g == JFrame("claimed", py.sa, SaGlobal, HostName)
  <2>1. OnBus(HostName, g, rx_msgq, Tail(rxq)) /\ ~unheard /\ ~Overruns(HostName) /\ UNCHANGED py
    BY <1>5 DEF PyAsked
  <2>2. g \in Frame
    BY HostFacts, FramesTyped
  <2> HIDE DEF g
  <2>3. /\ \A w \in Name : w # HostName => Grows(QueueOf(w), QueueOf(w)')
        /\ \A w \in Name : w # HostName /\ On(w) => QueueOf(w)' = Append(QueueOf(w), g)
        /\ rxq' = Tail(rxq)
    BY <1>1, <2>1, <2>2, HostFacts, BusReaches
  <2>4. Same(HostName) /\ Moves(HostName)
    BY <1>2, <2>1, <2>3 DEF Same, Moves
  <2>5. ASSUME NEW y \in Name, NEW sa \in Real, HostName < y, Holds(HostName, sa), Tries(y, sa)
        PROVE  Rival(QueueOf(y)', sa, y)
    <3>1. sa = py.sa /\ y # HostName
      BY <2>5, JConstants DEF Holds
    <3>2. On(y) /\ QueueOf(y) \in Seq(Frame)
      BY <2>5, <3>1, OnlyOthers
    <3>3. QueueOf(y)' = Append(QueueOf(y), g)
      BY <2>3, <3>1, <3>2
    <3>4. Rival(Append(QueueOf(y), g), sa, y)
      BY <2>5, <3>1, <3>2, HostFacts, ClaimArrives DEF g
    <3> QED
      BY <3>3, <3>4
  <2> QED
    BY <1>1, <1>5, <2>1, <2>3, <2>4, <2>5, HostFacts, PassedOver
<1>6. CASE /\ f.kind # "claimed" /\ (f.kind = "request" => ~(f.da = py.sa /\ py.valid))
           /\ rxq' = Tail(rxq) /\ UNCHANGED <<py, rx_msgq, unheard>>
  <2>1. Same(HostName) /\ Moves(HostName)
    BY <1>2, <1>3, <1>6 DEF Same, Moves
  <2>2. \A sa \in Real : ~(f.kind = "request" /\ f.da = sa /\ Holds(HostName, sa))
    BY <1>6 DEF Holds
  <2> QED
    BY <1>1, <1>6, <2>1, <2>2, HostFacts, PassedOver
<1> QED
  BY <1>4, <1>5, <1>6 DEF PyHandles, f, PyAsked

-----------------------------------------------------------------------------
LEMMA PairInit == J1939Init => PairInv
<1> SUFFICES ASSUME J1939Init, NEW x \in Name, NEW sa \in Real PROVE ~Wants(x, sa)
  BY DEF PairInv, Yielding
<1> QED
  BY DEF J1939Init, Wants, Holds, Settles, Name

LEMMA PairNext == JTypeOK /\ PairInv /\ [J1939Next]_j1939Vars => PairInv'
<1> SUFFICES ASSUME JTypeOK, PairInv, [J1939Next]_j1939Vars, ~unheard' PROVE PairInv'
  BY DEF PairInv
<1>1. CASE UNCHANGED j1939Vars
  BY <1>1 DEF j1939Vars, ecuVars, pyVars, PairInv, Yielding, Tries, Wants, Watches, Probes, Holds,
              Settles, Warned, Saw, Answers, QueueOf, Loses, PyLoses
<1>2. ASSUME NEW n \in Ecu, EcuNext(n) PROVE PairInv'
  BY <1>2, ClaimBeginsPair, AnnouncesPair, TakesPair, LeavesPair, SendsPair, RxPair DEF EcuNext
<1>3. CASE PyNext
  BY <1>3, PyBeginsPair, PyWakesPair, PyAnnouncesPair, PyDecidesPair, PyReclaimsPair, PyQuietPair,
     PyHandlesPair DEF PyNext
<1> QED
  BY <1>1, <1>2, <1>3 DEF J1939Next

(* Once all frames are handled, two that hold one address contradict it.    *)
LEMMA OneHolder ==
  ASSUME JTypeOK, PairInv, ~unheard, Heard, rxq = <<>>, NEW sa \in Real,
         NEW x \in Name, NEW y \in Name, Holds(x, sa), Holds(y, sa), x < y
  PROVE  FALSE
<1>1. Warned(y, sa) \/ Answers(x, y, sa)
  BY DEF PairInv, Yielding, Wants, Tries
<1>2. ~Saw(y, sa)
  BY DEF Saw, Holds, JTypeOK, EcuType, PyType, Name
<1>3. QueueOf(x) = <<>> /\ QueueOf(y) = <<>>
  BY DEF QueueOf, Heard, Name
<1>4. ~Rival(<<>>, sa, y) /\ ~Asked(<<>>, sa)
  BY DEF Rival, Asked
<1> QED
  BY <1>1, <1>2, <1>3, <1>4 DEF Warned, Answers

LEMMA UniqueFollows == JTypeOK /\ PairInv => Unique
<1> SUFFICES ASSUME JTypeOK, PairInv, ~unheard, Heard, rxq = <<>>, NEW sa \in 0..253
             PROVE  Cardinality(Holders(sa)) <= 1
  BY DEF Unique
<1>1. sa \in Real
  BY DEF Real
<1>2. Holders(sa) \subseteq Name /\ \A x \in Holders(sa) : Holds(x, sa)
  BY JConstants DEF Holders, Holds, Name
<1>3. \A x \in Holders(sa) : \A y \in Holders(sa) : x = y
  <2> SUFFICES ASSUME NEW x \in Holders(sa), NEW y \in Holders(sa), x # y PROVE FALSE
    OBVIOUS
  <2>1. x \in Nat /\ y \in Nat /\ x \in Name /\ y \in Name
    BY <1>2, JConstants
  <2>2. x < y \/ y < x
    BY <2>1
  <2> QED
    BY <1>1, <1>2, <2>1, <2>2, OneHolder
<1>4. CASE Holders(sa) = {}
  BY <1>4, FS_EmptySet
<1>5. ASSUME NEW x \in Holders(sa) PROVE Cardinality(Holders(sa)) <= 1
  <2>1. Holders(sa) = {x}
    BY <1>3, <1>5
  <2>2. Cardinality({x}) = 1
    BY FS_Singleton
  <2> QED
    BY <2>1, <2>2
<1> QED
  BY <1>4, <1>5

(* An address has one holder once the frames under way are handled, and     *)
(* what the host puts together from it is one snapshot, each unless the     *)
(* model's history variables say that something was not heard, or that two  *)
(* broadcasts overlapped (j1939.c:110, j1939_host.py:137).                  *)
THEOREM OneClaimOneSnapshotCorrect == J1939Spec => []OneClaimOneSnapshot
<1>1. J1939Init => JTypeOK /\ BamInv /\ PairInv
  BY JInitTyped, BamInit, PairInit
<1>2. JTypeOK /\ BamInv /\ PairInv /\ [J1939Next]_j1939Vars => JTypeOK' /\ BamInv' /\ PairInv'
  BY JStep, PairNext
<1>3. JTypeOK /\ BamInv /\ PairInv => OneClaimOneSnapshot
  <2>1. BamInv => BamWhole
    BY DEF BamInv, StreamInv, BamWhole, Even
  <2> QED
    BY <2>1, UniqueFollows DEF OneClaimOneSnapshot
<1> QED
  BY <1>1, <1>2, <1>3, PTL DEF J1939Spec
=============================================================================
