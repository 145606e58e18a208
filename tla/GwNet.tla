-------------------------------- MODULE GwNet --------------------------------
(***************************************************************************)
(* n2e-gw on its network: net_init and the events of the interface         *)
(* (main.c), the configuration port that opens at the first of them, and   *)
(* the RX thread with its two looks at the address: whether a foreign      *)
(* sender is heard, and where the answer goes (udp_fw_upgrade.c).  The     *)
(* interface, the event thread and the DHCP client are Zephyr's.           *)
(***************************************************************************)
EXTENDS Naturals, Sequences

CONSTANTS
  Subnet,      \* the subnets of senders and of the device's addresses
  Command,     \* the commands a sender asks for, 0x05 REBOOT among them
  QueueLen     \* bound: link changes the event thread has not handled

ASSUME GwNetAssumption ==
  /\ {"DISCOVER", "REBOOT"} \subseteq Command /\ "none" \notin Subnet
  /\ QueueLen \in Nat \ {0}

NoSubnet == "none"
Allowed == {"DISCOVER"}     \* gw_udp_init

VARIABLES
  mode,            \* the parameters main loads: use_dhcp, an ip_addr that parses or not
  begun, adminUp, carrier, addr,
  events,          \* IF_UP, IF_DOWN on their way to the handlers
  gw_net_link_up, net_link_sem,
  dhcpStarted,
  running,         \* gw_params.running
  config_sock, udp_fw_started,
  bindFailed,      \* history: the last socket or bind failed
  rx,              \* the RX thread: unborn, idle, or at a step of a command
  answer           \* history: the last answer; moved: the address changed under it

linkVars == <<begun, adminUp, carrier, addr, events, dhcpStarted>>
mainVars == <<mode, running>>
flagVars == <<gw_net_link_up, net_link_sem>>
portVars == <<config_sock, udp_fw_started, bindFailed>>
gwNetVars == <<linkVars, mainVars, flagVars, portVars, rx, answer>>

Unborn == [at |-> "unborn", cmd |-> "none", from |-> NoSubnet, moved |-> FALSE]
Waiting == [Unborn EXCEPT !.at = "recvfrom"]
NoAnswer == [cmd |-> "none", to |-> "none", moved |-> FALSE]

(* The interface is not started by itself (ETH_NET_IF_NO_AUTO_START), so   *)
(* udp_fw_init finds it down and waits for IF_UP.                          *)
GwNetInit ==
  /\ mode = "unread"
  /\ begun = FALSE /\ adminUp = FALSE /\ carrier = FALSE /\ addr = NoSubnet
  /\ events = <<>> /\ gw_net_link_up = FALSE /\ net_link_sem = 0
  /\ dhcpStarted = FALSE /\ running = FALSE
  /\ config_sock = FALSE /\ udp_fw_started = FALSE /\ bindFailed = FALSE
  /\ rx = Unborn /\ answer = NoAnswer

oper == adminUp /\ carrier

-----------------------------------------------------------------------------
(* The interface *)

Cable ==
  /\ Len(events) < QueueLen
  /\ carrier' = ~carrier
  /\ events' = IF adminUp THEN Append(events, IF carrier THEN "IF_DOWN" ELSE "IF_UP") ELSE events
  /\ UNCHANGED <<begun, adminUp, addr, dhcpStarted, mainVars, flagVars, portVars, rx, answer>>

(* A lease comes, changes or is lost, under whatever the RX thread does.   *)
DhcpAnswers ==
  /\ dhcpStarted
  /\ addr' \in (Subnet \cup {NoSubnet}) \ {addr}
  /\ rx' = [rx EXCEPT !.moved = rx.at \notin {"unborn", "recvfrom"}]
  /\ UNCHANGED <<begun, adminUp, carrier, events, dhcpStarted, mainVars, flagVars, portVars, answer>>

-----------------------------------------------------------------------------
(* main *)

(* An address that does not parse leaves the interface down for good.  The *)
(* commands that change the parameters are GwBox's.                        *)
net_init ==
  /\ ~begun /\ begun' = TRUE
  /\ mode' \in {"static", "dhcp", "invalid"}
  /\ adminUp' = (mode' # "invalid")
  /\ IF mode' = "static" THEN addr' \in Subnet ELSE UNCHANGED addr
  /\ events' = IF adminUp' /\ carrier THEN <<"IF_UP">> ELSE <<>>
  /\ UNCHANGED <<carrier, dhcpStarted, running, flagVars, portVars, rx, answer>>

(* Up, signalled, or five seconds over.                                    *)
Runs ==
  /\ begun /\ ~running /\ running' = TRUE
  /\ \/ oper /\ UNCHANGED flagVars
     \/ ~oper /\ net_link_sem = 1 /\ net_link_sem' = 0 /\ UNCHANGED gw_net_link_up
     \/ ~oper /\ net_link_sem = 0 /\ UNCHANGED flagVars
  /\ UNCHANGED <<mode, linkVars, portVars, rx, answer>>

-----------------------------------------------------------------------------
(* The event thread *)

\* a plausible bug: every IF_UP opens the port anew
UdpFwStartAnew ==
  IF config_sock
  THEN config_sock' = FALSE /\ bindFailed' = FALSE /\ UNCHANGED <<udp_fw_started, rx>>   \* EADDRINUSE
  ELSE /\ config_sock' = TRUE /\ udp_fw_started' = TRUE /\ bindFailed' = FALSE
       /\ rx' = Waiting

(* socket or bind may fail: the next IF_UP tries again.                    *)
UdpFwStart ==
  \/ udp_fw_started /\ UNCHANGED <<portVars, rx>>
  \/ /\ ~udp_fw_started /\ udp_fw_started' = TRUE
     /\ config_sock' = TRUE /\ bindFailed' = FALSE /\ rx' = Waiting
  \/ /\ ~udp_fw_started
     /\ config_sock' = FALSE /\ bindFailed' = TRUE /\ UNCHANGED <<udp_fw_started, rx>>

\* a plausible bug: a link that goes down is not noticed
IfEventKeepsUp(e) ==
  /\ gw_net_link_up' = TRUE
  /\ net_link_sem' = IF e = "IF_UP" THEN 1 ELSE net_link_sem
  /\ dhcpStarted' = (dhcpStarted \/ (e = "IF_UP" /\ mode = "dhcp"))

(* net_if_event_handler *)
IfEvent(e) ==
  /\ gw_net_link_up' = (e = "IF_UP")
  /\ net_link_sem' = IF e = "IF_UP" THEN 1 ELSE net_link_sem
  /\ dhcpStarted' = (dhcpStarted \/ (e = "IF_UP" /\ mode = "dhcp"))

EventThread ==
  /\ events # <<>> /\ events' = Tail(events)
  /\ IfEvent(Head(events))
  /\ IF Head(events) = "IF_UP" THEN UdpFwStart ELSE UNCHANGED <<portVars, rx>>
  /\ UNCHANGED <<begun, adminUp, carrier, addr, mainVars, answer>>

-----------------------------------------------------------------------------
(* The RX thread of the configuration port *)

(* Nothing to compare with counts as the same subnet.                      *)
IsSameSubnet(from) == addr \in {NoSubnet, from}

Recvfrom(cmd, from) ==
  /\ rx.at = "recvfrom"
  /\ rx' = [at |-> "check", cmd |-> cmd, from |-> from, moved |-> FALSE]
  /\ UNCHANGED <<linkVars, mainVars, flagVars, portVars, answer>>

\* a plausible bug: what is not allowed is answered as well
ChecksNothing ==
  /\ rx.at = "check" /\ rx' = [rx EXCEPT !.at = "handle", !.moved = FALSE]
  /\ UNCHANGED <<linkVars, mainVars, flagVars, portVars, answer>>

Checks ==
  /\ rx.at = "check"
  /\ rx' = IF ~IsSameSubnet(rx.from) /\ rx.cmd \notin Allowed THEN Waiting
           ELSE [rx EXCEPT !.at = "handle", !.moved = FALSE]
  /\ UNCHANGED <<linkVars, mainVars, flagVars, portVars, answer>>

(* The route is decided anew.                                              *)
UdpFwReply ==
  answer' = [cmd |-> rx.cmd, to |-> IF IsSameSubnet(rx.from) THEN "sender" ELSE "broadcast",
             moved |-> rx.moved]

(* GET_VERSION and the queries of the application.                         *)
Answers ==
  /\ rx.at = "handle" /\ rx.cmd # "REBOOT"
  /\ UdpFwReply /\ rx' = Waiting
  /\ UNCHANGED <<linkVars, mainVars, flagVars, portVars>>

(* FW_CMD_REBOOT: the answer, 100 ms, a cold start. *)
Reboots ==
  /\ rx.at = "handle" /\ rx.cmd = "REBOOT"
  /\ UdpFwReply
  /\ mode' = "unread" /\ begun' = FALSE /\ adminUp' = FALSE /\ addr' = NoSubnet /\ events' = <<>>
  /\ gw_net_link_up' = FALSE /\ net_link_sem' = 0 /\ dhcpStarted' = FALSE /\ running' = FALSE
  /\ config_sock' = FALSE /\ udp_fw_started' = FALSE /\ bindFailed' = FALSE /\ rx' = Unborn
  /\ UNCHANGED carrier

GwNetNext ==
  \/ Cable \/ DhcpAnswers \/ net_init \/ Runs \/ EventThread
  \/ (\E cmd \in Command, from \in Subnet : Recvfrom(cmd, from)) \/ Checks \/ Answers \/ Reboots

GwNetSpec == GwNetInit /\ [][GwNetNext]_gwNetVars

-----------------------------------------------------------------------------
(* Properties *)

(* main.c:46: with every event handled, the flag that lets frames through  *)
(* to the host says what the interface says, and the DHCP client runs.     *)
LinkTold == events = <<>> => gw_net_link_up = oper /\ (oper /\ mode = "dhcp" => dhcpStarted)

(* udp_fw_upgrade.c:499: an interface that is up has the configuration     *)
(* port open, through every unplugging, unless the last attempt was        *)
(* refused; and the RX thread never reads a socket that is not there.      *)
PortOpen ==
  /\ events = <<>> /\ oper => config_sock \/ bindFailed
  /\ rx.at # "unborn" => config_sock

(* udp_fw_upgrade.c:195: what goes out as a broadcast has passed the check *)
(* as an allowed command, unless the address changed between the check and *)
(* the answer.                                                             *)
BroadcastAllowed == answer.to = "broadcast" => answer.cmd \in Allowed \/ answer.moved

(* All three, of the gateway's configuration port. *)
Reachable == LinkTold /\ PortOpen /\ BroadcastAllowed
=============================================================================
