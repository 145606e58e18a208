----------------------------- MODULE MCFwUpgrade -----------------------------
(***************************************************************************)
(* Firmware and font upgrades for TLC, one application at a time:          *)
(* FwUpgrade (io-edge-hub) and CoFwUpgrade (canopen-io) with a slot of     *)
(* SlotLen chunks written in blocks of two, ApolloWeb (apollo-v2), and ApolloStart *)
(* (apollo-v2 from main on); and n2e-gw on its network (GwNet).            *)
(***************************************************************************)
EXTENDS CoFwUpgrade, ApolloWeb, ApolloStart, GwNet, TLC

CONSTANTS a, b, App    \* App: the applications of the run

VARIABLE app

UpgradeInit == app \in App /\ CoInit /\ ApInit /\ StartInit /\ GwNetInit
UpgradeNext ==
  \/ app = "io-edge-hub" /\ Next /\ UNCHANGED <<app, sdoVars, apVars, startVars, gwNetVars>>
  \/ app = "canopen-io" /\ CoNext /\ UNCHANGED <<app, apVars, startVars, gwNetVars>>
  \/ app = "apollo-v2" /\ ApNext /\ UNCHANGED <<app, vars, sdoVars, startVars, gwNetVars>>
  \/ app = "apollo-v2 start" /\ StartNext /\ UNCHANGED <<app, vars, sdoVars, apVars, gwNetVars>>
  \/ app = "n2e-gw" /\ GwNetNext /\ UNCHANGED <<app, vars, sdoVars, apVars, startVars>>
UpgradeSpec == UpgradeInit /\ [][UpgradeNext]_<<app, vars, sdoVars, apVars, startVars, gwNetVars>>

(* What a host was told is complete is kept: the image confirmed over SDO   *)
(* (fw_download.c), the font and the image the web page of apollo-v2 sent   *)
(* (ws.c).                                                                  *)
CompleteIsKept == SdoImageKept /\ WholeOnly

(* What the threads of a start promise each other: of apollo-v2 (net.c,     *)
(* storage.c, display.c), of n2e-gw and its configuration port (main.c,     *)
(* udp_fw_upgrade.c).                                                       *)
ComesUp == BringUp /\ Reachable

MCChunk == {a, b}
MCImage == {<<a, b>>, <<a, b, a>>}
MCBlocks == [f \in {1, 2, 3} |-> IF f = 2 THEN 1 ELSE 2]
MCSubnet == {"home", "far"}
MCCommand == {"DISCOVER", "GET_NET", "REBOOT"}
MCLease == {"lease1", "lease2"}
=============================================================================
