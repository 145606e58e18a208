-------------------------------- MODULE J1939 --------------------------------
(***************************************************************************)
(* examples/j1939-demo: firmware nodes that claim a source address by      *)
(* NAME (j1939.c, main.c), broadcast multi-packet messages from two        *)
(* threads (j1939_tp.c), and the Python host that claims with its own copy *)
(* of the procedure and reassembles the messages, on one CAN bus.          *)
(***************************************************************************)
EXTENDS Naturals, Sequences, FiniteSets, SequencesExt

CONSTANTS
  Ecu,            \* the firmware nodes, each by its NAME
  HostName,       \* the NAME of the host
  Preferred,      \* CONFIG_J1939_DEMO_PREFERRED_ADDRESS
  HostPreferred,  \* --sa
  Packets,        \* packets of the extended snapshot
  Cases,          \* bounds, each with the nodes that are switched on, the broadcasts
                  \* each begins by itself, the requests of the host (--req), and
                  \* how often can_send gives up after 100 ms
  MsgqDepth       \* RX_MSGQ_DEPTH

ASSUME J1939Assumption ==
  /\ Ecu \subseteq Nat /\ IsFiniteSet(Ecu) /\ HostName \in Nat \ Ecu
  /\ {Preferred, HostPreferred} \subseteq 0..253
  /\ {Packets, MsgqDepth} \subseteq Nat \ {0}
  /\ Cases \subseteq [on : SUBSET Ecu, bams : [Ecu -> Nat], reqs : Nat, fails : Nat]

VARIABLES
  case,         \* the member of Cases
  claimer,      \* main of a node: where it is, claim_candidate_sa
  peer,         \* peer_seen and peer_name
  self_sa, addr_valid,
  rx_msgq,      \* of each node
  bam,          \* what main and the RX thread of a node are sending
  bams,         \* broadcasts main may still begin
  py,         \* where it is, sa, claim_candidate, addr_valid, its peer, requests left
  rxq, sessions,
  rebuilt,          \* messages the host has reassembled
  fails,        \* sends that may still fail
  unheard,      \* history: see Unique
  overlap       \* history: two broadcasts under one address at once

ecuVars == <<claimer, peer, self_sa, addr_valid, bam, bams>>
pyVars == <<py, sessions, rebuilt>>
j1939Vars == <<case, ecuVars, pyVars, rx_msgq, rxq, fails, unheard, overlap>>

SaNull == 254
SaGlobal == 255
NoPeer == [seen |-> FALSE, name |-> 0]
NoBam == [sa |-> SaNull, id |-> 0, next |-> 0]
Task == {"main", "rx"}

J1939Init ==
  /\ case \in Cases /\ bams = case.bams /\ fails = case.fails
  /\ claimer = [n \in Ecu |-> [at |-> IF n \in case.on THEN "claim" ELSE "off", sa |-> Preferred]]
  /\ py = [at |-> "claim", sa |-> HostPreferred, cand |-> HostPreferred, valid |-> FALSE,
              peer |-> NoPeer, reqs |-> case.reqs]
  /\ peer = [n \in Ecu |-> NoPeer] /\ self_sa = [n \in Ecu |-> SaNull] /\ addr_valid = [n \in Ecu |-> FALSE]
  /\ rx_msgq = [n \in Ecu |-> <<>>] /\ bam = [n \in Ecu |-> [t \in Task |-> NoBam]]
  /\ rxq = <<>> /\ sessions = {} /\ rebuilt = {} /\ unheard = FALSE /\ overlap = FALSE

-----------------------------------------------------------------------------
(* The bus: everyone else's queue gets the frame, in one order             *)

JFrame(kind, sa, da, what) == [kind |-> kind, sa |-> sa, da |-> da, what |-> what]
Room(n) == Len(rx_msgq[n]) < MsgqDepth
On(n) == claimer[n].at # "off"
(* q: the queues without what the sender has just taken out of its own.    *)
OnBus(from, f, q, hq) ==
  /\ rx_msgq' = [n \in Ecu |-> IF n # from /\ On(n) /\ Len(q[n]) < MsgqDepth THEN Append(q[n], f) ELSE q[n]]
  /\ rxq' = (IF from # HostName THEN Append(hq, f) ELSE hq)
Overruns(from) == \E n \in Ecu \ {from} : On(n) /\ ~Room(n)

(* The window and the observation are longer than a frame waits in a queue.*)
Heard == \A n \in Ecu : rx_msgq[n] = <<>> /\ bam[n]["rx"] = NoBam

-----------------------------------------------------------------------------
(* j1939_claim_address and the loop of main                                *)

ClaimOnly == UNCHANGED <<addr_valid, self_sa, bam, bams, pyVars, fails, overlap>>
(* A probe that reaches somebody who has announced the address and does    *)
(* not hold it yet, or the host while it sleeps, is not answered.          *)
Deaf(sa) ==
  \/ \E m \in Ecu : claimer[m] = [at |-> "settle", sa |-> sa]
  \/ py.at \in {"settle", "drain2"} /\ py.cand = sa

ClaimBegins(n) ==
  /\ claimer[n].at = "claim" /\ claimer' = [claimer EXCEPT ![n].at = "window"]
  /\ peer' = [peer EXCEPT ![n] = NoPeer]
  /\ OnBus(n, JFrame("request", claimer[n].sa, claimer[n].sa, n), rx_msgq, rxq)
  /\ unheard' = (unheard \/ Overruns(n) \/ Deaf(claimer[n].sa))
  /\ ClaimOnly

Announces(n) ==
  /\ claimer[n].at = "window" /\ Heard /\ claimer' = [claimer EXCEPT ![n].at = "settle"]
  /\ OnBus(n, JFrame("claimed", claimer[n].sa, SaGlobal, n), rx_msgq, rxq)
  /\ unheard' = (unheard \/ Overruns(n))
  /\ UNCHANGED peer /\ ClaimOnly

Loses(n) == peer[n].seen /\ peer[n].name < n

Takes(n) ==
  /\ claimer[n].at = "settle" /\ Heard /\ ~Loses(n)
  /\ self_sa' = [self_sa EXCEPT ![n] = claimer[n].sa] /\ addr_valid' = [addr_valid EXCEPT ![n] = TRUE]
  /\ claimer' = [claimer EXCEPT ![n] = [at |-> "up", sa |-> SaNull]]
  /\ UNCHANGED <<peer, rx_msgq, bam, bams, pyVars, rxq, fails, unheard, overlap>>

(* The next lower address; after 0, Cannot Claim and a pause.              *)
Yields(n) ==
  /\ claimer[n].at = "settle" /\ Heard /\ Loses(n)
  /\ IF claimer[n].sa > 0
     THEN claimer' = [claimer EXCEPT ![n] = [at |-> "claim", sa |-> @.sa - 1]] /\ UNCHANGED <<rx_msgq, rxq>>
     ELSE /\ claimer' = [claimer EXCEPT ![n] = [at |-> "claim", sa |-> Preferred]]
          /\ OnBus(n, JFrame("claimed", SaNull, SaGlobal, n), rx_msgq, rxq)
  /\ UNCHANGED <<peer, unheard>> /\ ClaimOnly

Reclaims(n) ==
  /\ claimer[n].at = "up" /\ ~addr_valid[n] /\ bam[n]["main"] = NoBam
  /\ claimer' = [claimer EXCEPT ![n] = [at |-> "claim", sa |-> Preferred]]
  /\ UNCHANGED <<peer, rx_msgq, rxq, unheard>> /\ ClaimOnly

-----------------------------------------------------------------------------
(* j1939_send_bam: the control frame, then packet after packet             *)

Bam(n, t, id) == [bam EXCEPT ![n][t] = [sa |-> self_sa[n], id |-> id, next |-> 0]]
Under(sa) == {x \in Ecu \X Task : bam[x[1]][x[2]].sa = sa}

MainBam(n) ==
  /\ claimer[n].at = "up" /\ addr_valid[n] /\ bam[n]["main"] = NoBam /\ bams[n] > 0
  /\ bams' = [bams EXCEPT ![n] = @ - 1] /\ bam' = Bam(n, "main", bams[n])
  /\ overlap' = (overlap \/ Under(self_sa[n]) # {})
  /\ UNCHANGED <<claimer, peer, self_sa, addr_valid, pyVars, rx_msgq, rxq, fails, unheard>>

(* A mutant: the result of a send is not looked at.                        *)
BamSendsOn(n, t) ==
  /\ bam[n][t] # NoBam
  /\ LET b == bam[n][t] IN
     /\ bam' = [bam EXCEPT ![n][t] = IF b.next = Packets THEN NoBam ELSE [b EXCEPT !.next = @ + 1]]
     /\ \/ /\ OnBus(n, JFrame("tp", b.sa, SaGlobal, [packet |-> b.next, id |-> <<n, t, b.id>>]), rx_msgq, rxq)
           /\ unheard' = (unheard \/ Overruns(n)) /\ UNCHANGED fails
        \/ fails > 0 /\ fails' = fails - 1 /\ UNCHANGED <<rx_msgq, rxq, unheard>>
  /\ UNCHANGED <<claimer, peer, self_sa, addr_valid, bams, pyVars, overlap>>

BamSends(n, t) ==
  /\ bam[n][t] # NoBam
  /\ LET b == bam[n][t] IN
     \/ /\ OnBus(n, JFrame("tp", b.sa, SaGlobal, [packet |-> b.next, id |-> <<n, t, b.id>>]), rx_msgq, rxq)
        /\ bam' = [bam EXCEPT ![n][t] = IF b.next = Packets THEN NoBam ELSE [b EXCEPT !.next = @ + 1]]
        /\ unheard' = (unheard \/ Overruns(n)) /\ UNCHANGED fails
     \/ /\ fails > 0 /\ fails' = fails - 1
        /\ bam' = [bam EXCEPT ![n][t] = NoBam] /\ UNCHANGED <<rx_msgq, rxq, unheard>>
  /\ UNCHANGED <<claimer, peer, self_sa, addr_valid, bams, pyVars, overlap>>

-----------------------------------------------------------------------------
(* j1939_rx_thread *)

RestOf(n) == [rx_msgq EXCEPT ![n] = Tail(@)]
Taken(n) == rx_msgq' = RestOf(n) /\ UNCHANGED rxq
JRxOnly == UNCHANGED <<claimer, self_sa, bams, pyVars, fails>>

(* A mutant: the address is kept against any NAME.                         *)
RxClaimedKeeps(n, f) ==
  /\ addr_valid' = addr_valid
  /\ peer' = [peer EXCEPT ![n] = IF f.sa = claimer[n].sa /\ ~addr_valid[n] THEN [seen |-> TRUE, name |-> f.what] ELSE @]
  /\ unheard' = (unheard \/ (f.sa = claimer[n].sa /\ ~addr_valid[n] /\ peer[n].seen /\ peer[n].name < f.what))
  /\ Taken(n) /\ UNCHANGED <<bam, overlap>>

(* handle_address_claimed: the last one seen counts.                       *)
RxClaimed(n, f) ==
  LET mine == f.sa = self_sa[n] /\ addr_valid[n]
      rival == f.sa = claimer[n].sa /\ ~addr_valid[n] IN
  /\ addr_valid' = [addr_valid EXCEPT ![n] = @ /\ ~(mine /\ f.what < n)]
  /\ peer' = [peer EXCEPT ![n] = IF rival THEN [seen |-> TRUE, name |-> f.what] ELSE @]
  /\ unheard' = (unheard \/ (rival /\ peer[n].seen /\ peer[n].name < f.what))
  /\ Taken(n) /\ UNCHANGED <<bam, overlap>>

ForUs(n, f) == f.da \in {self_sa[n], SaGlobal} /\ addr_valid[n]
RxRequest(n, f) ==
  /\ IF ForUs(n, f)
     THEN /\ OnBus(n, JFrame("claimed", self_sa[n], SaGlobal, n), RestOf(n), rxq)
          /\ unheard' = (unheard \/ Overruns(n))
     ELSE Taken(n) /\ UNCHANGED unheard
  /\ UNCHANGED <<bam, overlap, addr_valid, peer>>

(* on_request: the thread that takes frames sends the snapshot.            *)
RxAsk(n, f) ==
  /\ IF ForUs(n, f)
     THEN bam' = Bam(n, "rx", f.what) /\ overlap' = (overlap \/ Under(self_sa[n]) # {})
     ELSE UNCHANGED <<bam, overlap>>
  /\ Taken(n) /\ UNCHANGED <<addr_valid, peer, unheard>>

(* Nothing else is taken while the thread sends packets of its own; TP     *)
(* frames of others are passed over.                                       *)
RxTakes(n) ==
  /\ rx_msgq[n] # <<>> /\ bam[n]["rx"] = NoBam /\ JRxOnly
  /\ LET f == Head(rx_msgq[n]) IN
     \/ f.kind = "claimed" /\ RxClaimed(n, f)
     \/ f.kind = "request" /\ RxRequest(n, f)
     \/ f.kind = "ask" /\ RxAsk(n, f)
     \/ f.kind = "tp" /\ Taken(n) /\ UNCHANGED <<addr_valid, peer, bam, unheard, overlap>>

-----------------------------------------------------------------------------
(* j1939_host.py *)

PyOnly == UNCHANGED <<ecuVars, fails, overlap>>
PyGoes(at) == py' = [py EXCEPT !.at = at]

(* Frames carry self.sa, whatever the candidate is.                        *)
PyBegins ==
  /\ py.at = "claim" /\ py' = [py EXCEPT !.at = "window", !.peer = NoPeer]
  /\ OnBus(HostName, JFrame("request", py.sa, py.cand, HostName), rx_msgq, rxq)
  /\ unheard' = (unheard \/ Overruns(HostName) \/ Deaf(py.cand))
  /\ UNCHANGED <<sessions, rebuilt>> /\ PyOnly

PyWakes ==
  /\ py.at \in {"window", "settle"} /\ Heard
  /\ PyGoes(IF py.at = "window" THEN "drain1" ELSE "drain2")
  /\ UNCHANGED <<sessions, rebuilt, rx_msgq, rxq, unheard>> /\ PyOnly

PyAnnounces ==
  /\ py.at = "drain1" /\ rxq = <<>> /\ PyGoes("settle")
  /\ OnBus(HostName, JFrame("claimed", py.sa, SaGlobal, HostName), rx_msgq, rxq)
  /\ unheard' = (unheard \/ Overruns(HostName))
  /\ UNCHANGED <<sessions, rebuilt>> /\ PyOnly

PyLoses == py.peer.seen /\ py.peer.name < HostName
PyDecides ==
  /\ py.at = "drain2" /\ rxq = <<>>
  /\ py' = IF ~PyLoses THEN [py EXCEPT !.at = "run", !.sa = py.cand, !.valid = TRUE]
             ELSE IF py.cand > 0 THEN [py EXCEPT !.at = "claim", !.cand = @ - 1]
             ELSE [py EXCEPT !.at = "run", !.sa = SaNull]
  /\ unheard' = (unheard \/ py.sa # py.cand)
  /\ UNCHANGED <<sessions, rebuilt, rx_msgq, rxq>> /\ PyOnly

(* range(254, 254): having exhausted the addresses it tries no more.       *)
PyReclaims ==
  /\ py.at = "run" /\ py.reqs = 0 /\ ~py.valid /\ rxq = <<>> /\ py.sa < SaNull
  /\ py' = [py EXCEPT !.at = "claim", !.cand = py.sa]
  /\ UNCHANGED <<sessions, rebuilt, rx_msgq, rxq, unheard>> /\ PyOnly

(* --req: all of them before the first frame is looked at.                 *)
PyRequests ==
  /\ py.at = "run" /\ py.reqs > 0 /\ py' = [py EXCEPT !.reqs = @ - 1]
  /\ OnBus(HostName, JFrame("ask", py.sa, Preferred, py.reqs), rx_msgq, rxq)
  /\ unheard' = (unheard \/ Overruns(HostName))
  /\ UNCHANGED <<sessions, rebuilt>> /\ PyOnly

Session(sa) == {s \in sessions : s.sa = sa}
With(sa, buf) == (sessions \ Session(sa)) \cup {[sa |-> sa, buf |-> buf]}

(* on_cm, on_dt: a session for each source address.                        *)
OnTp(f) ==
  IF f.what.packet = 0 THEN sessions' = With(f.sa, <<>>) /\ UNCHANGED rebuilt
  ELSE IF \A s \in Session(f.sa) : f.what.packet # Len(s.buf) + 1
  THEN sessions' = sessions \ Session(f.sa) /\ UNCHANGED rebuilt
  ELSE \E s \in Session(f.sa) : \E buf \in {Append(s.buf, f.what.id)} :
         IF Len(buf) = Packets THEN sessions' = sessions \ Session(f.sa) /\ rebuilt' = rebuilt \cup {buf}
         ELSE sessions' = With(f.sa, buf) /\ UNCHANGED rebuilt

PyClaimed(f) ==
  LET rival == py.at \in {"drain1", "drain2"} /\ f.sa = py.cand IN
  /\ py' = [py EXCEPT !.peer = IF rival THEN [seen |-> TRUE, name |-> f.what] ELSE @,
                          !.valid = @ /\ ~(f.sa = py.sa /\ f.what < HostName)]
  /\ unheard' = (unheard \/ (rival /\ py.peer.seen /\ py.peer.name < f.what))
  /\ rxq' = Tail(rxq) /\ UNCHANGED <<sessions, rebuilt, rx_msgq>>

PyAsked(f) ==
  /\ IF f.da \in {py.sa, SaGlobal} /\ py.valid
     THEN /\ OnBus(HostName, JFrame("claimed", py.sa, SaGlobal, HostName), rx_msgq, Tail(rxq))
          /\ unheard' = (unheard \/ Overruns(HostName))
     ELSE rxq' = Tail(rxq) /\ UNCHANGED <<rx_msgq, unheard>>
  /\ UNCHANGED <<py, sessions, rebuilt>>

PyHandles ==
  /\ rxq # <<>> /\ py.at \in {"drain1", "drain2", "run"} /\ (py.at = "run" => py.reqs = 0)
  /\ LET f == Head(rxq) IN
     \/ f.kind = "claimed" /\ PyClaimed(f)
     \/ f.kind = "request" /\ PyAsked(f)
     \/ f.kind = "tp" /\ OnTp(f) /\ rxq' = Tail(rxq) /\ UNCHANGED <<py, rx_msgq, unheard>>
  /\ PyOnly

(* 1.25 s without a packet.                                                *)
Sweep ==
  /\ py.at = "run" /\ py.reqs = 0
  /\ \E s \in sessions : Under(s.sa) = {} /\ sessions' = sessions \ Session(s.sa)
  /\ UNCHANGED <<py, rebuilt, rx_msgq, rxq, unheard>> /\ PyOnly

EcuNext(n) ==
  \/ ClaimBegins(n) \/ Announces(n) \/ Takes(n) \/ Yields(n) \/ Reclaims(n)
  \/ MainBam(n) \/ (\E t \in Task : BamSends(n, t)) \/ RxTakes(n)
PyNext ==
  \/ PyBegins \/ PyWakes \/ PyAnnounces \/ PyDecides \/ PyReclaims
  \/ PyRequests \/ PyHandles \/ Sweep
J1939Next == UNCHANGED case /\ ((\E n \in Ecu : EcuNext(n)) \/ PyNext)

J1939Spec == J1939Init /\ [][J1939Next]_j1939Vars

-----------------------------------------------------------------------------
(* Properties *)

Holders(sa) == {n \in Ecu : addr_valid[n] /\ self_sa[n] = sa}
               \cup (IF py.valid /\ py.sa = sa THEN {HostName} ELSE {})

(* j1939.c:110: of two that want an address the one with the larger NAME   *)
(* gives way, in whatever order they probe, announce and observe, once the *)
(* frames under way are handled.  Unless something was not heard: a frame  *)
(* met a full queue, a probe met one who had announced and did not hold    *)
(* yet, an announcement followed another that was stronger, or the host    *)
(* took an address that it did not announce.                               *)
Unique ==
  ~unheard /\ Heard /\ rxq = <<>> => \A sa \in 0..253 : Cardinality(Holders(sa)) <= 1

(* j1939.c:159: the observation shows a rival whose claim is stronger.     *)
UniqueAlways == Heard /\ rxq = <<>> => \A sa \in 0..253 : Cardinality(Holders(sa)) <= 1

(* j1939_host.py:137: what the host puts together is one snapshot of one   *)
(* node, through failed packets, lost addresses and takeovers, unless two  *)
(* broadcasts ran at once under one address.                               *)
BamWhole == ~overlap => \A m \in rebuilt : \A i \in DOMAIN m : m[i] = m[1]

BamWholeAlways == \A m \in rebuilt : \A i \in DOMAIN m : m[i] = m[1]

(* j1939.c:110, j1939_host.py:137: an address has one holder, and what is  *)
(* received from it is one snapshot, each unless as said above.            *)
OneClaimOneSnapshot == Unique /\ BamWhole
=============================================================================
