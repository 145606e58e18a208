------------------------------- MODULE RfLink -------------------------------
(***************************************************************************)
(* What goes over the 2.4 GHz link between angle-handler (node H) and the  *)
(* gateway n2e-gw (node G), and on to the host: both rf24.c with their     *)
(* retries, both rf24_shell.c (ping and echo), the optional encryption of  *)
(* nrf24_crypt.c with its counter inferred from one byte, and the queue    *)
(* and thread of n2e-gw/src/udp.c.  One attempt of nrf24_send is a step:   *)
(* the driver below it is in Nrf24 and HandlerRadio.                       *)
(***************************************************************************)
EXTENDS Naturals, Sequences

CONSTANTS
  Scenario,   \* bound: [crypt, sends, lost, rejoins], see RfAssumption
  Low,        \* the values of a counter's low byte: 256
  Window,     \* RX_WINDOW
  Retries,    \* RF24_TX_RETRIES
  MsgqLen     \* rf24_rx_msgq, gw_tx_msgq

Thread == {"work", "heart", "hrx", "data", "grx", "shell", "gwshell"}
Telemetry == {"work", "heart"}     \* HANDLER_STATE and COBID_HEATBEAT
Node == {"H", "G"}
NodeOf(t) == IF t \in {"work", "heart", "hrx"} THEN "H" ELSE "G"
Peer(n) == IF n = "H" THEN "G" ELSE "H"
RxThread(n) == IF n = "H" THEN "hrx" ELSE "grx"

ASSUME RfAssumption ==
  /\ {Low, Window, MsgqLen} \subseteq Nat \ {0} /\ Window < Low /\ Retries \in Nat
  /\ Scenario \subseteq [crypt : BOOLEAN, sends : [Thread -> Nat], lost : Nat, rejoins : Nat]

(* The window tolerates lost frames (nrf24_crypt.c:12) while it spans them:*)
(* all Retries + 1 attempts of a frame are lost before the receiver misses *)
(* its counter, and two other threads of the node may hold one of their own.*)
ASSUME RfLosses ==
  \A s \in Scenario : s.crypt => s.lost + 2 * (Retries + 1) < Window * (Retries + 1)

VARIABLES
  scenario,     \* what is left of it
  tx_counter, rx_counter, rx_initialized,
  snd,          \* what a thread does in rf24_data_send or gw_rf24_send
  rf24_rx_msgq,
  gw_tx_msgq, gw_net_link_up,
  got,         \* datagrams the host got
  shown,        \* coordinates the handler has displayed
  ping,         \* the shell's ping: where it is, tx_seq
  ping_wait_seq, rf24_ping_msgq,
  echo,         \* the gateway's RX thread has seen that an echo is awaited
  pinged,       \* the pings that the shell has counted as answered
  answered,     \* history: pings that the handler answered
  misread,      \* history: a frame was opened with a wrong counter
  broken        \* history: a full rf24_rx_msgq dropped a frame, or one side began anew

cryptVars == <<tx_counter, rx_counter, rx_initialized>>
udpVars == <<gw_tx_msgq, gw_net_link_up, got>>
pingVars == <<ping, ping_wait_seq, rf24_ping_msgq, echo, pinged>>
rfVars == <<scenario, cryptVars, snd, rf24_rx_msgq, udpVars, shown, pingVars, answered, misread, broken>>

NoSeq == 255      \* ping_wait_seq: nobody waits
Quiet == [at |-> "idle", kind |-> "none", no |-> 0, ctr |-> 0, tries |-> 0]

RfInit ==
  /\ scenario \in Scenario
  /\ tx_counter = [n \in Node |-> 0] /\ rx_counter = [n \in Node |-> 0]
  /\ rx_initialized = [n \in Node |-> FALSE]
  /\ snd = [t \in Thread |-> Quiet]
  /\ rf24_rx_msgq = [n \in Node |-> <<>>]
  /\ gw_tx_msgq = <<>> /\ gw_net_link_up = TRUE /\ got = <<>> /\ shown = <<>>
  /\ ping = [at |-> "idle", seq |-> 0] /\ ping_wait_seq = NoSeq /\ rf24_ping_msgq = <<>>
  /\ echo = NoSeq /\ pinged = {} /\ answered = {} /\ misread = FALSE /\ broken = FALSE

-----------------------------------------------------------------------------
(* nrf24_crypt.c *)

(* nrf24_crypt_open: what byte it takes, and the full counter it infers.   *)
Diff(n, byte) == (byte + Low - (rx_counter[n] % Low)) % Low

InWindow(n, byte) == ~rx_initialized[n] \/ Diff(n, byte) \in 1..Window

(* A mutant: the carry is lost.                                            *)
InferredNoCarry(n, byte) ==
  IF ~rx_initialized[n] THEN byte ELSE (rx_counter[n] \div Low) * Low + byte

Inferred(n, byte) ==
  IF ~rx_initialized[n] THEN byte
  ELSE (rx_counter[n] \div Low) * Low + byte + (IF byte < rx_counter[n] % Low THEN Low ELSE 0)

Opens(n, f) == scenario.crypt => InWindow(n, f.ctr % Low)
Opened(n, f) ==
  IF scenario.crypt
  THEN /\ rx_counter' = [rx_counter EXCEPT ![n] = Inferred(n, f.ctr % Low)]
       /\ rx_initialized' = [rx_initialized EXCEPT ![n] = TRUE]
       /\ misread' = (misread \/ Inferred(n, f.ctr % Low) # f.ctr)
  ELSE UNCHANGED <<rx_counter, rx_initialized, misread>>
Legible(n, f) == scenario.crypt => Inferred(n, f.ctr % Low) = f.ctr

(* set_key on one side: the gateway's address is set, the handler's radio  *)
(* is switched on again or either starts anew.                             *)
Rejoin(n) ==
  /\ scenario.rejoins > 0 /\ scenario' = [scenario EXCEPT !.rejoins = @ - 1]
  /\ tx_counter' = [tx_counter EXCEPT ![n] = 0]
  /\ rx_initialized' = [rx_initialized EXCEPT ![n] = FALSE]
  /\ broken' = TRUE
  /\ UNCHANGED <<rx_counter, snd, rf24_rx_msgq, udpVars, shown, pingVars, answered, misread>>

-----------------------------------------------------------------------------
(* rf24_data_send, gw_rf24_send *)

Sends(t, kind, no) ==
  snd' = [snd EXCEPT ![t] = [at |-> IF scenario.crypt THEN "seal" ELSE "try",
                             kind |-> kind, no |-> no, ctr |-> 0, tries |-> 0]]
SealOnly == UNCHANGED <<scenario, rx_counter, rx_initialized, rf24_rx_msgq, udpVars, shown, pingVars, answered, misread, broken>>

(* The retries of a frame take less time than the others need to send as   *)
(* many frames as the byte has values outside the window.                  *)
RetriesAreShort(t) ==
  \A u \in Thread : (NodeOf(u) = NodeOf(t) /\ snd[u].at \in {"store", "try"})
                    => tx_counter[NodeOf(t)] < snd[u].ctr + Low - Window

(* tx_counter++ without a lock.                                            *)
SealLoad(t) ==
  /\ snd[t].at = "seal" /\ RetriesAreShort(t)
  /\ snd' = [snd EXCEPT ![t] = [snd[t] EXCEPT !.at = "store", !.ctr = tx_counter[NodeOf(t)]]]
  /\ UNCHANGED tx_counter /\ SealOnly

SealStore(t) ==
  /\ snd[t].at = "store"
  /\ tx_counter' = [tx_counter EXCEPT ![NodeOf(t)] = snd[t].ctr + 1]
  /\ snd' = [snd EXCEPT ![t].at = "try"]
  /\ SealOnly

Delivered(n, f) ==
  IF Len(rf24_rx_msgq[n]) < MsgqLen
  THEN rf24_rx_msgq' = [rf24_rx_msgq EXCEPT ![n] = Append(@, f)] /\ UNCHANGED broken
  ELSE broken' = TRUE /\ UNCHANGED rf24_rx_msgq
FrameOf(t) == [from |-> t, kind |-> snd[t].kind, no |-> snd[t].no, ctr |-> snd[t].ctr]
AirLoses == scenario.lost > 0 /\ scenario' = [scenario EXCEPT !.lost = @ - 1]

(* Back-off outside the mutex, then the same frame.                        *)
Again(t) ==
  snd' = IF snd[t].tries < Retries
         THEN [snd EXCEPT ![t].tries = @ + 1] ELSE [snd EXCEPT ![t].at = "failed"]

(* One attempt: acknowledged; delivered, but the ACK is lost; lost.        *)
Attempt(t) ==
  /\ snd[t].at = "try"
  /\ \/ snd' = [snd EXCEPT ![t].at = "sent"] /\ Delivered(Peer(NodeOf(t)), FrameOf(t)) /\ UNCHANGED scenario
     \/ Again(t) /\ Delivered(Peer(NodeOf(t)), FrameOf(t)) /\ AirLoses
     \/ Again(t) /\ UNCHANGED <<rf24_rx_msgq, broken>> /\ AirLoses
  /\ UNCHANGED <<cryptVars, udpVars, shown, pingVars, answered, misread>>

Returned(t) == snd[t].at \in {"sent", "failed"}

(* send_handler_state, heart_thread, udp_data_rx_thread: frame after frame.*)
Produce(t) ==
  /\ t \in Telemetry \cup {"data"} /\ (snd[t].at = "idle" \/ Returned(t)) /\ scenario.sends[t] > 0
  /\ scenario' = [scenario EXCEPT !.sends[t] = @ - 1]
  /\ Sends(t, IF t = "data" THEN "coords" ELSE "state", snd[t].no + 1)
  /\ UNCHANGED <<cryptVars, rf24_rx_msgq, udpVars, shown, pingVars, answered, misread, broken>>

-----------------------------------------------------------------------------
(* The RX threads *)

(* gw_udp_send: without link or room the frame is dropped.                 *)
GwUdpSend(x) ==
  gw_tx_msgq' = IF gw_net_link_up /\ Len(gw_tx_msgq) < MsgqLen THEN Append(gw_tx_msgq, x) ELSE gw_tx_msgq

(* rf24_rx_thread, rf24_test_handle_rx.                                    *)
RxQuiet(n) == rf24_rx_msgq[n] # <<>> /\ snd[RxThread(n)].at \notin {"seal", "store", "try"} /\ (n = "G" => echo = NoSeq)
Rx(n) ==
  LET f == Head(rf24_rx_msgq[n]) IN
  /\ RxQuiet(n) /\ Opens(n, f)
  /\ rf24_rx_msgq' = [rf24_rx_msgq EXCEPT ![n] = Tail(@)]
  /\ Opened(n, f)
  /\ IF Legible(n, f) /\ n = "G" /\ f.kind = "state" THEN GwUdpSend(<<f.from, f.no>>) ELSE UNCHANGED gw_tx_msgq
  /\ shown' = IF Legible(n, f) /\ n = "H" /\ f.kind = "coords" THEN Append(shown, f.no) ELSE shown
  /\ IF Legible(n, f) /\ f.kind = "ping"
     THEN Sends(RxThread(n), "echo", f.no) /\ answered' = answered \cup {f.no}
     ELSE UNCHANGED <<snd, answered>>
  /\ echo' = IF Legible(n, f) /\ f.kind = "echo" /\ ping_wait_seq = f.no THEN f.no ELSE echo
  /\ UNCHANGED <<scenario, tx_counter, gw_net_link_up, got, ping, ping_wait_seq, rf24_ping_msgq, pinged, broken>>

RxRejects(n) ==
  /\ RxQuiet(n) /\ ~Opens(n, Head(rf24_rx_msgq[n]))
  /\ rf24_rx_msgq' = [rf24_rx_msgq EXCEPT ![n] = Tail(@)]
  /\ UNCHANGED <<scenario, cryptVars, snd, udpVars, shown, pingVars, answered, misread, broken>>

(* RF24_TEST_ECHO: between the look at ping_wait_seq and the queue the     *)
(* shell may have stopped to wait.  The queue holds two.                   *)
EchoPut ==
  /\ echo # NoSeq /\ echo' = NoSeq
  /\ rf24_ping_msgq' = IF Len(rf24_ping_msgq) < 2 THEN Append(rf24_ping_msgq, echo) ELSE rf24_ping_msgq
  /\ UNCHANGED <<scenario, cryptVars, snd, rf24_rx_msgq, udpVars, shown, ping, ping_wait_seq, pinged, answered, misread, broken>>

-----------------------------------------------------------------------------
(* cmd_rf24_ping *)

PingOnly == UNCHANGED <<cryptVars, rf24_rx_msgq, udpVars, shown, echo, answered, misread, broken>>

PingSend ==
  /\ ping.at = "idle" /\ scenario.sends["shell"] > 0
  /\ scenario' = [scenario EXCEPT !.sends["shell"] = @ - 1]
  /\ ping' = [at |-> "sending", seq |-> ping.seq + 1]
  /\ ping_wait_seq' = ping.seq /\ Sends("shell", "ping", ping.seq)
  /\ rf24_ping_msgq' \in {<<>>, rf24_ping_msgq}      \* a new command empties it
  /\ UNCHANGED pinged /\ PingOnly

PingSent ==
  /\ ping.at = "sending" /\ Returned("shell")
  /\ IF snd["shell"].at = "sent" THEN ping' = [ping EXCEPT !.at = "wait"] /\ UNCHANGED ping_wait_seq
     ELSE ping' = [ping EXCEPT !.at = "idle"] /\ ping_wait_seq' = NoSeq
  /\ UNCHANGED <<scenario, snd, rf24_ping_msgq, pinged>> /\ PingOnly

PingGot ==
  /\ ping.at = "wait" /\ rf24_ping_msgq # <<>>
  /\ rf24_ping_msgq' = Tail(rf24_ping_msgq) /\ ping' = [ping EXCEPT !.at = "idle"] /\ ping_wait_seq' = NoSeq
  /\ pinged' = IF Head(rf24_ping_msgq) = ping.seq - 1 THEN pinged \cup {ping.seq - 1} ELSE pinged
  /\ UNCHANGED <<scenario, snd>> /\ PingOnly

PingTimeout ==
  /\ ping.at = "wait" /\ rf24_ping_msgq = <<>>
  /\ ping' = [ping EXCEPT !.at = "idle"] /\ ping_wait_seq' = NoSeq
  /\ UNCHANGED <<scenario, snd, rf24_ping_msgq, pinged>> /\ PingOnly

-----------------------------------------------------------------------------
(* n2e-gw/src/udp.c *)

UdpOnly == UNCHANGED <<cryptVars, snd, rf24_rx_msgq, shown, pingVars, answered, misread, broken>>

(* udp_tx_thread, gw_udp_do_send.                                          *)
UdpTx ==
  /\ gw_tx_msgq # <<>> /\ gw_tx_msgq' = Tail(gw_tx_msgq)
  /\ got' = IF gw_net_link_up THEN Append(got, Head(gw_tx_msgq)) ELSE got
  /\ UNCHANGED <<scenario, gw_net_link_up>> /\ UdpOnly

(* gw ping and gw send in the shell.                                       *)
ShellSends ==
  /\ scenario.sends["gwshell"] > 0 /\ scenario' = [scenario EXCEPT !.sends["gwshell"] = @ - 1]
  /\ GwUdpSend(<<"gwshell", scenario.sends["gwshell"]>>)
  /\ UNCHANGED <<gw_net_link_up, got>> /\ UdpOnly

(* net_if_event_handler: the cable.                                        *)
LinkEvent ==
  /\ AirLoses /\ gw_net_link_up' = ~gw_net_link_up
  /\ UNCHANGED <<gw_tx_msgq, got>> /\ UdpOnly

RfNext ==
  \/ \E t \in Thread : SealLoad(t) \/ SealStore(t) \/ Attempt(t) \/ Produce(t)
  \/ \E n \in Node : Rx(n) \/ RxRejects(n) \/ Rejoin(n)
  \/ EchoPut \/ PingSend \/ PingSent \/ PingGot \/ PingTimeout
  \/ UdpTx \/ ShellSends \/ LinkEvent

RfSpec == RfInit /\ [][RfNext]_rfVars

-----------------------------------------------------------------------------
(* Properties *)

(* rf24.c:126: a frame may be repeated because its ACK was lost, but what  *)
(* the host gets of one thread, and the handler of the host, is in the     *)
(* order in which it was sent; with the counter nothing comes twice.       *)
Before(x, y) == x < y \/ ((~scenario.crypt \/ broken) /\ x = y)
InOrder ==
  /\ \A i, j \in DOMAIN got :
       i < j /\ got[i][1] = got[j][1] /\ got[i][1] \in Telemetry => Before(got[i][2], got[j][2])
  /\ \A i, j \in DOMAIN shown : i < j => Before(shown[i], shown[j])

(* nrf24_crypt.c:12: while the air takes no more frames than the window    *)
(* spans, the RX queue keeps up and neither side begins anew, the receiver *)
(* infers the counter that the sender used, across the wrap of the byte    *)
(* and for overtaken frames.                                               *)
OpensRight == misread => broken

(* rf24_shell.c:252: a ping counts as answered only if the peer has        *)
(* answered that ping, whatever late or repeated echoes lie in the queue.  *)
PingHonest == pinged \subseteq answered

(* nrf24_crypt.c:12, rf24.c:126, rf24_shell.c:252: whatever the air loses, *)
(* repeats or lets overtake, nothing comes to the host out of order, no    *)
(* frame is opened for another and no ping passes for an answered one.     *)
LinkFaithful == InOrder /\ OpensRight /\ PingHonest
=============================================================================
