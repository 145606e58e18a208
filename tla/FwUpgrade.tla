------------------------------ MODULE FwUpgrade ------------------------------
(***************************************************************************)
(* The three firmware upgrade channels of io-edge-hub side by side: the    *)
(* UDP RX thread, the CAN RX thread and the WebSocket thread share the     *)
(* lock of fw_upgrade_state.c and the secondary slot.                      *)
(*                                                                         *)
(* Enabled is the set of channels built in (IO_WEB, CAN_FW_UPGRADE and     *)
(* UDP_FW_UPGRADE are Kconfig options).                                    *)
(***************************************************************************)
EXTENDS UdpFwUpgrade, CanFwUpgrade, WsFwUpgrade

CONSTANT Enabled

ASSUME ImageAssumption == Image \subseteq Seq(Chunk)
ASSUME EnabledAssumption == Enabled \subseteq Channel

vars == <<stateVars, udpVars, canVars, wsVars>>

TypeOK == StateTypeOK /\ UdpTypeOK /\ CanTypeOK /\ WsTypeOK

Init == StateInit /\ UdpInit /\ CanInit /\ WsInit

UdpStep == "UDP" \in Enabled /\ UdpNext /\ UNCHANGED <<canVars, wsVars>>
CanStep == "CAN" \in Enabled /\ CanNext /\ UNCHANGED <<udpVars, wsVars>>
WsStep  == "WS" \in Enabled /\ WsNext /\ UNCHANGED <<udpVars, canVars>>

(* A restart at any moment: FW_CMD_REBOOT of either library, main's        *)
(* delayed reboot, the watchdog, a fault or a power cut.                   *)
Reboot ==
  /\ StateReboot
  /\ UdpClose
  /\ CanClose
  /\ ws_pc' = "idle"
  /\ fw_upg' = NoUpgrade
  /\ ws_ctx' = FreshCtx
  /\ reboot_pending' = FALSE

Next == UdpStep \/ CanStep \/ WsStep \/ Reboot

Spec == Init /\ [][Next]_vars

-----------------------------------------------------------------------------
Upgrading(c) ==
  CASE c = "UDP" -> UdpUpgrading
    [] c = "CAN" -> CanUpgrading
    [] c = "WS"  -> WsUpgrading

(* fw_upgrade_state.h:6: while a channel upgrades, the requests of the     *)
(* others are refused.  Never are two channels between the lock and the    *)
(* end of their session at once.                                           *)
MutualExclusion ==
  \A c, d \in Channel : Upgrading(c) /\ Upgrading(d) => c = d

(* udp_fw_upgrade.c:129: a session that fails returns the lock, one that   *)
(* succeeds keeps it until the restart.  UDP and WebSocket never hold the  *)
(* lock without an open session or a pending swap.                         *)
NoLeak ==
  holder \in {"UDP", "WS"} => Upgrading(holder) \/ Armed

(* can_fw_upgrade.c:229: every START erases and initialises anew, after a  *)
(* transfer that failed midway too.  So the CAN channel itself is never    *)
(* what makes its START refused: when it holds the lock, its image waits   *)
(* for the restart or its RX thread is still executing a command.          *)
CanRestartable ==
  holder = "CAN" => Armed \/ can_pc # "idle"

(* ws_io.c:415 and fw_upgrade_state.c:22: the lock stays taken from a      *)
(* successful end of a session until the restart, so that no channel       *)
(* erases slot1 in between.                                                *)
ArmedHeld == Armed => upgrade_active

(* The slot MCUboot is asked to swap in holds, from the request to the     *)
(* restart, the image whose CRC the UDP host announced in END.             *)
Holds(image) == \A p \in 1..Len(image) : slot1[p] = image[p]

UdpArmedImage == armed.by = "UDP" => Holds(armed.image)

(* The same for the image the CAN host was told is complete: CONFIRM       *)
(* answers 0x55AA55AA after comparing fw_written with the announced size.  *)
CanArmedImage == armed.by = "CAN" => Holds(armed.image)

(* While a UDP session is open, the offset its answers carry counts the    *)
(* chunks the writer holds, in flash or in RAM: a go-back-N host that      *)
(* resumes from it neither skips nor repeats data.                         *)
OffsetCountsStored == fw_started => fw_received = Taken(udp_ctx)

-----------------------------------------------------------------------------
(* Why the invariants above are kept, step by step: the lock is taken when *)
(* and only when a channel holds it, under that channel's label; a channel *)
(* that upgrades holds it; a session is open exactly where the command     *)
(* being executed needs it; and the image UDP verified stays in the slot   *)
(* as long as its request is ahead or pending.                             *)
Label(c) == IF c = "CAN" THEN "UDP" ELSE c

UdpSession ==
  /\ UdpUpgrading => holder = "UDP"
  /\ udp_pc = "start" => ~fw_started
  /\ udp_pc = "request" => fw_started

CanSession ==
  /\ CanUpgrading => holder = "CAN"

WsSession ==
  /\ WsUpgrading => holder = "WS"
  /\ ws_pc = "start" => ~fw_upg.active
  /\ ws_pc \in {"verify", "request"} => fw_upg.active

LockInv ==
  /\ upgrade_active <=> holder # NoChannel
  /\ upgrade_active => current_channel = Label(holder)

VerifiedInv ==
  /\ udp_pc = "request" => Holds(udp_crc)
  /\ armed.by = "UDP" => holder = "UDP" /\ ~UdpUpgrading /\ Holds(armed.image)

IndInv ==
  /\ LockInv
  /\ UdpSession /\ CanSession /\ WsSession
  /\ NoLeak
  /\ OffsetCountsStored
  /\ VerifiedInv

-----------------------------------------------------------------------------
(* The lock implements exclusive ownership of the slot, up to the restart: *)
(* the owner is the channel that took the lock.  True of the builds        *)
(* without the web server (Enabled without "WS"), see ArmedHeld.           *)
Exclusive == INSTANCE ExclusiveSlot
  WITH Client <- Channel, None <- NoChannel, Content <- Slot,
       owner <- holder, slot <- slot1, pending <- armed.by

ImplementsExclusiveSlot == Exclusive!Spec
=============================================================================
