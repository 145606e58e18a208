---------------------------- MODULE RfLink_proofs ----------------------------
(***************************************************************************)
(* Proofs about RfLink, for any number of frames of each thread, of        *)
(* retries, of lost frames, of values of the counter's byte and any window *)
(* and queues, as long as the window spans what is lost (RfLosses).        *)
(***************************************************************************)
EXTENDS RfLink, SequenceTheorems, FiniteSetTheorems, TLAPS

-----------------------------------------------------------------------------
(* RfLink: types *)

RfKind == {"none", "state", "coords", "ping", "echo"}
RfAt == {"idle", "seal", "store", "try", "sent", "failed"}
SndRec == [at : RfAt, kind : RfKind, no : Nat, ctr : Nat, tries : Nat]
Air == [from : Thread, kind : RfKind, no : Nat, ctr : Nat]
Budget == [crypt : BOOLEAN, sends : [Thread -> Nat], lost : Nat, rejoins : Nat]
KindOf(t) ==
  IF t \in Telemetry THEN "state" ELSE IF t = "data" THEN "coords" ELSE IF t = "shell" THEN "ping" ELSE "echo"

RadioType ==
  /\ tx_counter \in [Node -> Nat] /\ rx_counter \in [Node -> Nat] /\ rx_initialized \in [Node -> BOOLEAN]
  /\ snd \in [Thread -> SndRec]
  /\ rf24_rx_msgq \in [Node -> Seq(Air)]
RfTypeOK ==
  /\ scenario \in Budget /\ misread \in BOOLEAN /\ broken \in BOOLEAN
  /\ RadioType
  /\ gw_tx_msgq \in Seq(Thread \X Nat) /\ got \in Seq(Thread \X Nat) /\ shown \in Seq(Nat)
  /\ ping \in [at : {"idle", "sending", "wait"}, seq : Nat] /\ ping_wait_seq \in Nat
  /\ rf24_ping_msgq \in Seq(Nat) /\ echo \in Nat

(* Who sends what, and which node gets it. *)
SenderInv ==
  /\ snd["gwshell"].at = "idle"
  /\ \A t \in Thread : snd[t].tries <= Retries /\ (snd[t].at \in {"idle", "seal", "store"} => snd[t].tries = 0)
  /\ \A t \in Thread : snd[t].at = "idle" \/ snd[t].kind = KindOf(t)
  /\ \A t \in Thread : snd[t].at \in {"seal", "store"} => scenario.crypt
  /\ \A n \in Node : \A i \in 1..Len(rf24_rx_msgq[n]) :
       rf24_rx_msgq[n][i].kind = KindOf(rf24_rx_msgq[n][i].from) /\ NodeOf(rf24_rx_msgq[n][i].from) = Peer(n)

LEMMA NodesTyped == /\ \A t \in Thread : NodeOf(t) \in Node
               /\ \A n \in Node : Peer(n) \in Node /\ Peer(n) # n /\ Peer(Peer(n)) = n /\ RxThread(n) \in Thread
                                  /\ NodeOf(RxThread(n)) = n /\ KindOf(RxThread(n)) = "echo" /\ RxThread(n) # "gwshell"
BY DEF Thread, Node, NodeOf, Peer, RxThread, KindOf, Telemetry

LEMMA RfInitType == RfInit => RfTypeOK /\ SenderInv
<1> SUFFICES ASSUME RfInit PROVE RfTypeOK /\ SenderInv
  OBVIOUS
<1>1. Quiet \in SndRec
  BY DEF Quiet, SndRec, RfAt, RfKind
<1>2. RfTypeOK
  <2>1. scenario \in Budget /\ misread \in BOOLEAN /\ broken \in BOOLEAN
    BY RfAssumption DEF RfInit, Budget
  <2>2. RadioType
    <3>1. rf24_rx_msgq \in [Node -> Seq(Air)]
      BY DEF RfInit
    <3> QED
      BY <1>1, <3>1 DEF RfInit, RadioType
  <2>3. gw_tx_msgq \in Seq(Thread \X Nat) /\ got \in Seq(Thread \X Nat) /\ shown \in Seq(Nat)
        /\ rf24_ping_msgq \in Seq(Nat)
    BY DEF RfInit
  <2>4. ping \in [at : {"idle", "sending", "wait"}, seq : Nat] /\ ping_wait_seq \in Nat /\ echo \in Nat
    BY DEF RfInit, NoSeq
  <2> QED
    BY <2>1, <2>2, <2>3, <2>4 DEF RfTypeOK
<1>3. SenderInv
  BY RfAssumption DEF RfInit, SenderInv, Quiet, Thread, Node
<1> QED
  BY <1>2, <1>3

(* A frame is handed to a thread that sends none. *)
LEMMA SendsTyped ==
  ASSUME RfTypeOK, SenderInv, NEW t \in Thread, t # "gwshell", NEW no \in Nat, scenario' \in Budget,
         scenario'.crypt = scenario.crypt, Sends(t, KindOf(t), no), UNCHANGED rf24_rx_msgq
  PROVE  /\ snd' \in [Thread -> SndRec]
         /\ snd'[t] = [at |-> IF scenario.crypt THEN "seal" ELSE "try", kind |-> KindOf(t), no |-> no, ctr |-> 0, tries |-> 0]
         /\ \A u \in Thread : u # t => snd'[u] = snd[u]
         /\ SenderInv'
<1> DEFINE r == [at |-> IF scenario.crypt THEN "seal" ELSE "try", kind |-> KindOf(t), no |-> no, ctr |-> 0, tries |-> 0]
<1>1. snd' = [snd EXCEPT ![t] = r] /\ snd \in [Thread -> SndRec]
  BY DEF Sends, RfTypeOK, RadioType
<1>2. r \in SndRec
  BY DEF SndRec, RfAt, RfKind, KindOf
<1>3. r.kind = KindOf(t) /\ r.tries = 0 /\ (r.at \in {"seal", "store"} => scenario.crypt)
  OBVIOUS
<1> HIDE DEF r
<1>4. snd' \in [Thread -> SndRec] /\ snd'[t] = r /\ \A u \in Thread : u # t => snd'[u] = snd[u]
  BY <1>1, <1>2
<1>5. SenderInv'
  <2>1. snd'["gwshell"] = snd["gwshell"]
    BY <1>4 DEF Thread
  <2>2. Retries \in Nat
    BY RfAssumption
  <2> QED
    BY <1>3, <1>4, <2>1, <2>2 DEF SenderInv
<1> QED
  BY <1>4, <1>5 DEF r

LEMMA SealLoadTyped ==
  ASSUME RfTypeOK, SenderInv, NEW t \in Thread, SealLoad(t)
  PROVE  /\ RfTypeOK' /\ SenderInv'
         /\ snd'[t].at = "store" /\ snd'[t].ctr = tx_counter[NodeOf(t)] /\ snd'[t].no = snd[t].no
         /\ snd'[t].kind = snd[t].kind /\ snd'[t].tries = snd[t].tries
         /\ \A u \in Thread : u # t => snd'[u] = snd[u]
<1> DEFINE r == [snd[t] EXCEPT !.at = "store", !.ctr = tx_counter[NodeOf(t)]]
<1> UNCHANGED <<scenario, tx_counter, rx_counter, rx_initialized, rf24_rx_msgq, gw_tx_msgq, got, shown, ping,
                ping_wait_seq, rf24_ping_msgq, echo, misread, broken>>
  BY DEF SealLoad, SealOnly, udpVars, pingVars
<1>1. snd' = [snd EXCEPT ![t] = r] /\ snd \in [Thread -> SndRec] /\ snd[t].at = "seal"
  BY DEF SealLoad, RfTypeOK, RadioType
<1>2. r \in SndRec
  <2>1. tx_counter[NodeOf(t)] \in Nat /\ snd[t] \in SndRec
    BY NodesTyped DEF RfTypeOK, RadioType
  <2> QED
    BY <2>1 DEF SndRec, RfAt
<1>3. r.at = "store" /\ r.ctr = tx_counter[NodeOf(t)] /\ r.no = snd[t].no /\ r.kind = snd[t].kind /\ r.tries = snd[t].tries
  BY <1>1 DEF SndRec
<1> HIDE DEF r
<1>4. snd' \in [Thread -> SndRec] /\ snd'[t] = r /\ \A u \in Thread : u # t => snd'[u] = snd[u]
  BY <1>1, <1>2
<1>5. RfTypeOK'
  BY <1>4 DEF RfTypeOK, RadioType
<1>6. SenderInv'
  <2>1. t # "gwshell" /\ "gwshell" \in Thread
    BY <1>1 DEF SenderInv, Thread
  <2> QED
    BY <1>1, <1>3, <1>4, <2>1 DEF SenderInv
<1> QED
  BY <1>3, <1>4, <1>5, <1>6

LEMMA SealStoreTyped ==
  ASSUME RfTypeOK, SenderInv, NEW t \in Thread, SealStore(t)
  PROVE  /\ RfTypeOK' /\ SenderInv'
         /\ snd'[t].at = "try" /\ snd'[t].ctr = snd[t].ctr /\ snd'[t].no = snd[t].no
         /\ snd'[t].kind = snd[t].kind /\ snd'[t].tries = snd[t].tries
         /\ \A u \in Thread : u # t => snd'[u] = snd[u]
         /\ tx_counter'[NodeOf(t)] = snd[t].ctr + 1
         /\ \A n \in Node : n # NodeOf(t) => tx_counter'[n] = tx_counter[n]
<1> DEFINE r == [snd[t] EXCEPT !.at = "try"]
<1> UNCHANGED <<scenario, rx_counter, rx_initialized, rf24_rx_msgq, gw_tx_msgq, got, shown, ping,
                ping_wait_seq, rf24_ping_msgq, echo, misread, broken>>
  BY DEF SealStore, SealOnly, udpVars, pingVars
<1>1. snd' = [snd EXCEPT ![t].at = "try"] /\ snd \in [Thread -> SndRec] /\ snd[t].at = "store"
  BY DEF SealStore, RfTypeOK, RadioType
<1>2. r \in SndRec /\ snd[t].ctr \in Nat
  BY <1>1 DEF SndRec, RfAt
<1>3. r.at = "try" /\ r.ctr = snd[t].ctr /\ r.no = snd[t].no /\ r.kind = snd[t].kind /\ r.tries = snd[t].tries
  BY <1>1 DEF SndRec
<1>4. snd' = [snd EXCEPT ![t] = r]
  BY <1>1
<1> HIDE DEF r
<1>5. snd' \in [Thread -> SndRec] /\ snd'[t] = r /\ \A u \in Thread : u # t => snd'[u] = snd[u]
  BY <1>1, <1>2, <1>4
<1>6. tx_counter' \in [Node -> Nat] /\ tx_counter'[NodeOf(t)] = snd[t].ctr + 1
      /\ \A n \in Node : n # NodeOf(t) => tx_counter'[n] = tx_counter[n]
  BY <1>2, NodesTyped DEF SealStore, RfTypeOK, RadioType
<1>7. RfTypeOK'
  BY <1>5, <1>6 DEF RfTypeOK, RadioType
<1>8. SenderInv'
  <2>1. t # "gwshell" /\ "gwshell" \in Thread
    BY <1>1 DEF SenderInv, Thread
  <2> QED
    BY <1>1, <1>3, <1>5, <2>1 DEF SenderInv
<1> QED
  BY <1>3, <1>5, <1>6, <1>7, <1>8

LEMMA LossTyped ==
  ASSUME RfTypeOK, AirLoses
  PROVE  scenario' \in Budget /\ scenario'.crypt = scenario.crypt /\ scenario'.lost + 1 = scenario.lost
<1>1. scenario \in Budget /\ scenario.lost > 0 /\ scenario' = [scenario EXCEPT !.lost = @ - 1]
  BY DEF AirLoses, RfTypeOK
<1>2. scenario.lost \in Nat
  BY <1>1 DEF Budget
<1>3. scenario' \in Budget /\ scenario'.crypt = scenario.crypt /\ scenario'.lost = scenario.lost - 1
  BY <1>1, <1>2 DEF Budget
<1> QED
  BY <1>2, <1>3

LEMMA SpentTyped ==
  ASSUME RfTypeOK, NEW t \in Thread, scenario.sends[t] > 0, scenario' = [scenario EXCEPT !.sends[t] = @ - 1]
  PROVE  scenario' \in Budget /\ scenario'.crypt = scenario.crypt /\ scenario'.lost = scenario.lost
<1>1. scenario \in Budget
  BY DEF RfTypeOK
<1>2. scenario.sends \in [Thread -> Nat]
  BY <1>1 DEF Budget
<1> DEFINE left == [scenario.sends EXCEPT ![t] = @ - 1]
<1>3. left \in [Thread -> Nat]
  BY <1>2
<1>4. scenario' = [scenario EXCEPT !.sends = left]
  BY DEF left
<1> HIDE DEF left
<1> QED
  BY <1>1, <1>3, <1>4 DEF Budget

(* The frame is in the queue of the other node, or that is full. *)
Arrives(m, f) ==
  \/ /\ rf24_rx_msgq'[m] = Append(rf24_rx_msgq[m], f) /\ \A n \in Node : n # m => rf24_rx_msgq'[n] = rf24_rx_msgq[n]
     /\ broken' = broken
  \/ broken' /\ rf24_rx_msgq' = rf24_rx_msgq
Missed == rf24_rx_msgq' = rf24_rx_msgq /\ broken' = broken

LEMMA DeliveredTyped ==
  ASSUME RfTypeOK, SenderInv, NEW t \in Thread, snd[t].at = "try", Delivered(Peer(NodeOf(t)), FrameOf(t))
  PROVE  /\ rf24_rx_msgq' \in [Node -> Seq(Air)] /\ broken' \in BOOLEAN /\ (broken => broken')
         /\ Arrives(Peer(NodeOf(t)), FrameOf(t)) /\ FrameOf(t) \in Air
         /\ \A n \in Node : \A i \in 1..Len(rf24_rx_msgq'[n]) :
              rf24_rx_msgq'[n][i].kind = KindOf(rf24_rx_msgq'[n][i].from) /\ NodeOf(rf24_rx_msgq'[n][i].from) = Peer(n)
<1> DEFINE m == Peer(NodeOf(t))
           f == FrameOf(t)
<1>1. m \in Node /\ Peer(m) = NodeOf(t)
  BY NodesTyped
<1>2. f \in Air /\ f.from = t /\ f.kind = KindOf(t)
  <2>1. snd[t] \in SndRec
    BY DEF RfTypeOK, RadioType
  <2>2. snd[t].kind = KindOf(t)
    BY DEF SenderInv
  <2> QED
    BY <2>1, <2>2 DEF FrameOf, Air, SndRec
<1> HIDE DEF f, m
<1>3. rf24_rx_msgq \in [Node -> Seq(Air)] /\ broken \in BOOLEAN
  BY DEF RfTypeOK, RadioType
<1>4. rf24_rx_msgq[m] \in Seq(Air)
  BY <1>1, <1>3
<1>5. CASE Len(rf24_rx_msgq[m]) < MsgqLen
  <2>1. rf24_rx_msgq' = [rf24_rx_msgq EXCEPT ![m] = Append(@, f)] /\ broken' = broken
    BY <1>5 DEF Delivered, f, m
  <2>2. Append(rf24_rx_msgq[m], f) \in Seq(Air)
    BY <1>2, <1>4
  <2>3. rf24_rx_msgq' \in [Node -> Seq(Air)] /\ rf24_rx_msgq'[m] = Append(rf24_rx_msgq[m], f)
        /\ \A n \in Node : n # m => rf24_rx_msgq'[n] = rf24_rx_msgq[n]
    BY <1>1, <1>3, <2>1, <2>2
  <2>4. ASSUME NEW n \in Node, NEW i \in 1..Len(rf24_rx_msgq'[n])
        PROVE  rf24_rx_msgq'[n][i].kind = KindOf(rf24_rx_msgq'[n][i].from) /\ NodeOf(rf24_rx_msgq'[n][i].from) = Peer(n)
    <3>1. CASE n # m
      BY <2>3, <2>4, <3>1 DEF SenderInv
    <3>2. CASE n = m
      <4>1. \/ i \in 1..Len(rf24_rx_msgq[m]) /\ rf24_rx_msgq'[m][i] = rf24_rx_msgq[m][i]
            \/ rf24_rx_msgq'[m][i] = f
        BY <1>4, <2>3, <2>4, <3>2
      <4>2. f.kind = KindOf(f.from) /\ NodeOf(f.from) = Peer(m)
        BY <1>1, <1>2
      <4> QED
        BY <1>1, <3>2, <4>1, <4>2 DEF SenderInv
    <3> QED
      BY <3>1, <3>2
  <2> QED
    BY <1>2, <1>3, <2>1, <2>3, <2>4 DEF Arrives, m, f
<1>6. CASE ~(Len(rf24_rx_msgq[m]) < MsgqLen)
  <2>1. rf24_rx_msgq' = rf24_rx_msgq /\ broken' = TRUE
    BY <1>6 DEF Delivered, m, f
  <2> QED
    BY <1>2, <1>3, <2>1 DEF Arrives, SenderInv, m, f
<1> QED
  BY <1>5, <1>6

(* Acknowledged; to be tried again; failed. *)
Acked(t) == snd'[t].at = "sent" /\ snd'[t].tries = snd[t].tries /\ scenario' = scenario
Retried(t) == snd'[t].at = "try" /\ snd'[t].tries = snd[t].tries + 1 /\ snd[t].tries < Retries /\ scenario'.lost + 1 = scenario.lost
GaveUp(t) == snd'[t].at = "failed" /\ snd[t].tries = Retries /\ scenario'.lost + 1 = scenario.lost

LEMMA AttemptTyped ==
  ASSUME RfTypeOK, SenderInv, NEW t \in Thread, Attempt(t)
  PROVE  /\ RfTypeOK' /\ SenderInv' /\ scenario'.crypt = scenario.crypt
         /\ snd[t].at = "try" /\ snd'[t].ctr = snd[t].ctr /\ snd'[t].no = snd[t].no /\ snd'[t].kind = snd[t].kind
         /\ \A u \in Thread : u # t => snd'[u] = snd[u]
         /\ \/ Acked(t) /\ Arrives(Peer(NodeOf(t)), FrameOf(t))
            \/ (Retried(t) \/ GaveUp(t)) /\ (Arrives(Peer(NodeOf(t)), FrameOf(t)) \/ Missed)
         /\ (broken => broken') /\ FrameOf(t) \in Air
<1> UNCHANGED <<tx_counter, rx_counter, rx_initialized, gw_tx_msgq, got, shown, ping,
                ping_wait_seq, rf24_ping_msgq, echo, misread>>
  BY DEF Attempt, cryptVars, udpVars, pingVars
<1>1. snd \in [Thread -> SndRec] /\ snd[t].at = "try" /\ snd[t] \in SndRec /\ snd[t].tries \in Nat /\ Retries \in Nat
      /\ snd[t].tries <= Retries
  BY RfAssumption DEF Attempt, RfTypeOK, RadioType, SndRec, SenderInv
<1> DEFINE Q == /\ rf24_rx_msgq' \in [Node -> Seq(Air)] /\ broken' \in BOOLEAN /\ (broken => broken')
                /\ (Arrives(Peer(NodeOf(t)), FrameOf(t)) \/ Missed)
                /\ \A n \in Node : \A i \in 1..Len(rf24_rx_msgq'[n]) :
                     rf24_rx_msgq'[n][i].kind = KindOf(rf24_rx_msgq'[n][i].from) /\ NodeOf(rf24_rx_msgq'[n][i].from) = Peer(n)
           W == (Acked(t) /\ Arrives(Peer(NodeOf(t)), FrameOf(t))) \/ Retried(t) \/ GaveUp(t)
           S == scenario' \in Budget /\ scenario'.crypt = scenario.crypt
           Rec(r) == /\ r \in SndRec /\ snd' = [snd EXCEPT ![t] = r] /\ r.ctr = snd[t].ctr /\ r.no = snd[t].no
                     /\ r.kind = snd[t].kind /\ r.tries <= Retries /\ r.at \in {"try", "sent", "failed"}
<1>2. FrameOf(t) \in Air
  BY <1>1 DEF FrameOf, Air, SndRec
<1>3. ASSUME snd' = [snd EXCEPT ![t].at = "sent"], Delivered(Peer(NodeOf(t)), FrameOf(t)), UNCHANGED scenario
      PROVE  S /\ W /\ Q /\ \E r \in SndRec : Rec(r)
  <2> DEFINE r == [snd[t] EXCEPT !.at = "sent"]
  <2>1. snd' = [snd EXCEPT ![t] = r] /\ r \in SndRec /\ r.ctr = snd[t].ctr /\ r.no = snd[t].no /\ r.kind = snd[t].kind
        /\ r.tries = snd[t].tries /\ r.at = "sent"
    BY <1>1, <1>3 DEF SndRec, RfAt
  <2> HIDE DEF r
  <2>2. Rec(r)
    BY <1>1, <2>1
  <2>3. snd'[t] = r
    BY <1>1, <2>1
  <2>4. Q /\ Arrives(Peer(NodeOf(t)), FrameOf(t))
    BY <1>1, <1>3, DeliveredTyped
  <2>5. W
    BY <1>3, <2>1, <2>3, <2>4 DEF Acked
  <2>6. S
    BY <1>3 DEF RfTypeOK
  <2>7. r \in SndRec
    BY <2>1
  <2> HIDE DEF Q, W, S, Rec
  <2> QED
    BY <2>2, <2>4, <2>5, <2>6, <2>7
<1>4. ASSUME Again(t), AirLoses
      PROVE  S /\ (Retried(t) \/ GaveUp(t)) /\ \E r \in SndRec : Rec(r)
  <2>1. S /\ scenario'.lost + 1 = scenario.lost
    BY <1>4, LossTyped
  <2>2. CASE snd[t].tries < Retries
    <3> DEFINE r == [snd[t] EXCEPT !.tries = snd[t].tries + 1]
    <3>1. snd' = [snd EXCEPT ![t].tries = @ + 1]
      BY <1>4, <2>2 DEF Again
    <3>2. snd' = [snd EXCEPT ![t] = r] /\ r \in SndRec /\ r.ctr = snd[t].ctr /\ r.no = snd[t].no /\ r.kind = snd[t].kind
          /\ r.tries = snd[t].tries + 1 /\ r.at = "try"
      BY <1>1, <3>1 DEF SndRec
    <3> HIDE DEF r
    <3>3. snd'[t] = r /\ r.tries <= Retries
      BY <1>1, <2>2, <3>2
    <3>4. Rec(r)
      BY <1>1, <3>2, <3>3
    <3> QED
      BY <2>1, <2>2, <3>2, <3>3, <3>4 DEF Retried
  <2>3. CASE ~(snd[t].tries < Retries)
    <3> DEFINE r == [snd[t] EXCEPT !.at = "failed"]
    <3>1. snd' = [snd EXCEPT ![t].at = "failed"]
      BY <1>4, <2>3 DEF Again
    <3>2. snd' = [snd EXCEPT ![t] = r] /\ r \in SndRec /\ r.ctr = snd[t].ctr /\ r.no = snd[t].no /\ r.kind = snd[t].kind
          /\ r.tries = snd[t].tries /\ r.at = "failed"
      BY <1>1, <3>1 DEF SndRec, RfAt
    <3> HIDE DEF r
    <3>3. snd'[t] = r /\ snd[t].tries = Retries
      BY <1>1, <2>3, <3>2
    <3>4. Rec(r)
      BY <1>1, <3>2, <3>3
    <3> QED
      BY <2>1, <3>2, <3>3, <3>4 DEF GaveUp
  <2> QED
    BY <2>2, <2>3
<1>5. ASSUME Again(t), Delivered(Peer(NodeOf(t)), FrameOf(t)), AirLoses
      PROVE  S /\ W /\ Q /\ \E r \in SndRec : Rec(r)
  <2>1. Q
    BY <1>1, <1>5, DeliveredTyped
  <2>2. S /\ W /\ \E r \in SndRec : Rec(r)
    <3> HIDE DEF S, Q, Rec
    <3> QED
      BY <1>4, <1>5
  <2> HIDE DEF S, W, Q, Rec
  <2> QED
    BY <2>1, <2>2
<1>6. ASSUME Again(t), UNCHANGED <<rf24_rx_msgq, broken>>, AirLoses
      PROVE  S /\ W /\ Q /\ \E r \in SndRec : Rec(r)
  <2>1. Q
    BY <1>6 DEF RfTypeOK, RadioType, SenderInv, Missed
  <2>2. S /\ W /\ \E r \in SndRec : Rec(r)
    <3> HIDE DEF S, Q, Rec
    <3> QED
      BY <1>4, <1>6
  <2> HIDE DEF S, W, Q, Rec
  <2> QED
    BY <2>1, <2>2
<1>7. S /\ W /\ Q /\ \E r \in SndRec : Rec(r)
  <2> HIDE DEF S, W, Q, Rec
  <2> QED
    BY <1>3, <1>5, <1>6 DEF Attempt
<1>8. PICK r \in SndRec : Rec(r)
  BY <1>7
<1>9. snd' \in [Thread -> SndRec] /\ snd'[t] = r /\ \A u \in Thread : u # t => snd'[u] = snd[u]
  BY <1>1, <1>8
<1>10. RfTypeOK'
  BY <1>7, <1>9 DEF RfTypeOK, RadioType
<1>11. SenderInv'
  <2>1. t # "gwshell" /\ "gwshell" \in Thread
    BY <1>1 DEF SenderInv, Thread
  <2>2. r.at \notin {"idle", "seal", "store"} /\ r.kind = KindOf(t)
    BY <1>1, <1>8 DEF SenderInv
  <2> QED
    BY <1>7, <1>8, <1>9, <2>1, <2>2 DEF SenderInv
<1> QED
  BY <1>1, <1>2, <1>7, <1>8, <1>9, <1>10, <1>11

(* A thread begins with its next frame. *)
Starts(t, no) ==
  /\ snd[t].at \in {"idle", "sent", "failed"}
  /\ snd'[t] = [at |-> IF scenario.crypt THEN "seal" ELSE "try", kind |-> KindOf(t), no |-> no, ctr |-> 0, tries |-> 0]
  /\ \A u \in Thread : u # t => snd'[u] = snd[u]

LEMMA ProduceTyped ==
  ASSUME RfTypeOK, SenderInv, NEW t \in Thread, Produce(t)
  PROVE  /\ RfTypeOK' /\ SenderInv' /\ scenario'.crypt = scenario.crypt /\ scenario'.lost = scenario.lost
         /\ t \in Telemetry \cup {"data"} /\ Starts(t, snd[t].no + 1)
<1> UNCHANGED <<tx_counter, rx_counter, rx_initialized, rf24_rx_msgq, gw_tx_msgq, got, shown, ping,
                ping_wait_seq, rf24_ping_msgq, echo, misread, broken>>
  BY DEF Produce, cryptVars, udpVars, pingVars
<1>1. t \in Telemetry \cup {"data"} /\ t # "gwshell" /\ (IF t = "data" THEN "coords" ELSE "state") = KindOf(t)
  BY DEF Produce, Telemetry, KindOf
<1>2. scenario' \in Budget /\ scenario'.crypt = scenario.crypt /\ scenario'.lost = scenario.lost
  BY SpentTyped DEF Produce
<1>3. snd[t] \in SndRec /\ snd[t].no + 1 \in Nat
  <2>1. snd[t] \in SndRec
    BY DEF RfTypeOK, RadioType
  <2> QED
    BY <2>1 DEF SndRec
<1>4. Sends(t, KindOf(t), snd[t].no + 1)
  BY <1>1 DEF Produce
<1>5. snd' \in [Thread -> SndRec] /\ SenderInv' /\ \A u \in Thread : u # t => snd'[u] = snd[u]
  BY <1>1, <1>2, <1>3, <1>4, SendsTyped
<1>6. snd'[t] = [at |-> IF scenario.crypt THEN "seal" ELSE "try", kind |-> KindOf(t), no |-> snd[t].no + 1,
                 ctr |-> 0, tries |-> 0]
  BY <1>1, <1>2, <1>3, <1>4, SendsTyped
<1>7. RfTypeOK'
  BY <1>2, <1>5 DEF RfTypeOK, RadioType
<1>8. snd[t].at \in {"idle", "sent", "failed"}
  BY DEF Produce, Returned
<1> QED
  BY <1>1, <1>2, <1>5, <1>6, <1>7, <1>8 DEF Starts

(* The head of a node's queue is taken off. *)
LEMMA TailTyped ==
  ASSUME RfTypeOK, SenderInv, NEW n \in Node, rf24_rx_msgq[n] # <<>>,
         rf24_rx_msgq' = [rf24_rx_msgq EXCEPT ![n] = Tail(@)]
  PROVE  /\ rf24_rx_msgq' \in [Node -> Seq(Air)]
         /\ Len(rf24_rx_msgq[n]) \in Nat \ {0} /\ Head(rf24_rx_msgq[n]) = rf24_rx_msgq[n][1]
         /\ Head(rf24_rx_msgq[n]) \in Air
         /\ Len(rf24_rx_msgq'[n]) = Len(rf24_rx_msgq[n]) - 1
         /\ \A i \in 1..(Len(rf24_rx_msgq[n]) - 1) : rf24_rx_msgq'[n][i] = rf24_rx_msgq[n][i + 1]
         /\ \A m \in Node : m # n => rf24_rx_msgq'[m] = rf24_rx_msgq[m]
         /\ Head(rf24_rx_msgq[n]).kind = KindOf(Head(rf24_rx_msgq[n]).from)
         /\ NodeOf(Head(rf24_rx_msgq[n]).from) = Peer(n)
         /\ \A m \in Node : \A i \in 1..Len(rf24_rx_msgq'[m]) :
              rf24_rx_msgq'[m][i].kind = KindOf(rf24_rx_msgq'[m][i].from) /\ NodeOf(rf24_rx_msgq'[m][i].from) = Peer(m)
<1>1. rf24_rx_msgq \in [Node -> Seq(Air)] /\ rf24_rx_msgq[n] \in Seq(Air)
  BY DEF RfTypeOK, RadioType
<1> DEFINE q == rf24_rx_msgq[n]
<1>2. q \in Seq(Air) /\ q # <<>>
  BY <1>1
<1>3. Len(q) \in Nat \ {0} /\ Head(q) = q[1] /\ Head(q) \in Air /\ Tail(q) \in Seq(Air) /\ Len(Tail(q)) = Len(q) - 1
      /\ \A i \in 1..(Len(q) - 1) : Tail(q)[i] = q[i + 1]
  <2> HIDE DEF q
  <2> QED
    BY <1>2
<1>4. rf24_rx_msgq' \in [Node -> Seq(Air)] /\ rf24_rx_msgq'[n] = Tail(q)
      /\ \A m \in Node : m # n => rf24_rx_msgq'[m] = rf24_rx_msgq[m]
  BY <1>1, <1>3
<1>5. Head(q).kind = KindOf(Head(q).from) /\ NodeOf(Head(q).from) = Peer(n)
  BY <1>3 DEF SenderInv
<1>6. ASSUME NEW m \in Node, NEW i \in 1..Len(rf24_rx_msgq'[m])
      PROVE  rf24_rx_msgq'[m][i].kind = KindOf(rf24_rx_msgq'[m][i].from) /\ NodeOf(rf24_rx_msgq'[m][i].from) = Peer(m)
  <2>1. CASE m # n
    BY <1>4, <1>6, <2>1 DEF SenderInv
  <2>2. CASE m = n
    <3>1. i \in 1..(Len(q) - 1) /\ i + 1 \in 1..Len(rf24_rx_msgq[m])
      BY <1>3, <1>4, <1>6, <2>2
    <3>2. rf24_rx_msgq'[m][i] = rf24_rx_msgq[m][i + 1]
      BY <1>3, <1>4, <2>2, <3>1
    <3> QED
      BY <3>1, <3>2 DEF SenderInv
  <2> QED
    BY <2>1, <2>2
<1> QED
  BY <1>3, <1>4, <1>5, <1>6

LEMMA GwUdpSendTyped ==
  ASSUME gw_tx_msgq \in Seq(Thread \X Nat), NEW x \in Thread \X Nat, GwUdpSend(x)
  PROVE  /\ gw_tx_msgq' \in Seq(Thread \X Nat)
         /\ gw_tx_msgq' = gw_tx_msgq \/ gw_tx_msgq' = Append(gw_tx_msgq, x)
BY DEF GwUdpSend

LEMMA RxTyped ==
  ASSUME RfTypeOK, SenderInv, NEW n \in Node, Rx(n), NEW f, f = Head(rf24_rx_msgq[n])
  PROVE  /\ RfTypeOK' /\ SenderInv' /\ f \in Air
         /\ gw_tx_msgq' = gw_tx_msgq
            \/ (Legible(n, f) /\ n = "G" /\ f.kind = "state" /\ gw_tx_msgq' = Append(gw_tx_msgq, <<f.from, f.no>>))
         /\ UNCHANGED <<snd, answered>> \/ (Legible(n, f) /\ f.kind = "ping" /\ Starts(RxThread(n), f.no) /\ answered' = answered \cup {f.no})
<1> UNCHANGED <<scenario, tx_counter, gw_net_link_up, got, ping, ping_wait_seq, rf24_ping_msgq, pinged, broken>>
  BY DEF Rx
<1>1. rf24_rx_msgq[n] # <<>> /\ rf24_rx_msgq' = [rf24_rx_msgq EXCEPT ![n] = Tail(@)]
      /\ snd[RxThread(n)].at \notin {"seal", "store", "try"}
  BY DEF Rx, RxQuiet
<1>2. rf24_rx_msgq' \in [Node -> Seq(Air)] /\ f \in Air
      /\ \A m \in Node : \A i \in 1..Len(rf24_rx_msgq'[m]) :
           rf24_rx_msgq'[m][i].kind = KindOf(rf24_rx_msgq'[m][i].from) /\ NodeOf(rf24_rx_msgq'[m][i].from) = Peer(m)
  BY <1>1, TailTyped
<1>3. f.no \in Nat /\ f.from \in Thread /\ f.ctr \in Nat /\ RxThread(n) \in Thread /\ RxThread(n) # "gwshell"
      /\ KindOf(RxThread(n)) = "echo"
  BY <1>2, NodesTyped DEF Air
<1>4. snd' \in [Thread -> SndRec] /\ (UNCHANGED <<snd, answered>>
        \/ (Legible(n, f) /\ f.kind = "ping" /\ Starts(RxThread(n), f.no) /\ answered' = answered \cup {f.no}))
      /\ /\ snd'["gwshell"].at = "idle"
         /\ \A t \in Thread : snd'[t].tries <= Retries /\ (snd'[t].at \in {"idle", "seal", "store"} => snd'[t].tries = 0)
         /\ \A t \in Thread : snd'[t].at = "idle" \/ snd'[t].kind = KindOf(t)
         /\ \A t \in Thread : snd'[t].at \in {"seal", "store"} => scenario.crypt
  <2>1. CASE UNCHANGED <<snd, answered>>
    <3>1. snd' = snd
      BY <2>1
    <3>2. snd' \in [Thread -> SndRec]
      BY <3>1 DEF RfTypeOK, RadioType
    <3>3. /\ snd'["gwshell"].at = "idle"
          /\ \A u \in Thread : snd'[u].tries <= Retries /\ (snd'[u].at \in {"idle", "seal", "store"} => snd'[u].tries = 0)
          /\ \A u \in Thread : snd'[u].at = "idle" \/ snd'[u].kind = KindOf(u)
          /\ \A u \in Thread : snd'[u].at \in {"seal", "store"} => scenario.crypt
      BY <3>1 DEF SenderInv
    <3> QED
      BY <2>1, <3>2, <3>3
  <2>2. CASE Legible(n, f) /\ f.kind = "ping" /\ Sends(RxThread(n), "echo", f.no) /\ answered' = answered \cup {f.no}
    <3> DEFINE t == RxThread(n)
               r == [at |-> IF scenario.crypt THEN "seal" ELSE "try", kind |-> KindOf(t), no |-> f.no, ctr |-> 0, tries |-> 0]
    <3>1. snd' = [snd EXCEPT ![t] = r] /\ snd \in [Thread -> SndRec]
      BY <1>3, <2>2 DEF Sends, RfTypeOK, RadioType
    <3>2. r \in SndRec
      BY <1>3 DEF SndRec, RfAt, RfKind
    <3>3. r.kind = KindOf(t) /\ r.tries = 0 /\ (r.at \in {"seal", "store"} => scenario.crypt)
      OBVIOUS
    <3>4. snd[t].at \in {"idle", "sent", "failed"}
      <4>1. snd[t] \in SndRec
        BY <1>3 DEF RfTypeOK, RadioType
      <4> QED
        BY <1>1, <4>1 DEF SndRec, RfAt
    <3>5. t \in Thread /\ t # "gwshell"
      BY <1>3
    <3> HIDE DEF r, t
    <3>6. snd' \in [Thread -> SndRec] /\ snd'[t] = r /\ \A u \in Thread : u # t => snd'[u] = snd[u]
      BY <3>1, <3>2, <3>5
    <3>7. snd'["gwshell"] = snd["gwshell"]
      BY <3>5, <3>6 DEF Thread
    <3>8. Retries \in Nat
      BY RfAssumption
    <3>9. /\ snd'["gwshell"].at = "idle"
          /\ \A u \in Thread : snd'[u].tries <= Retries /\ (snd'[u].at \in {"idle", "seal", "store"} => snd'[u].tries = 0)
          /\ \A u \in Thread : snd'[u].at = "idle" \/ snd'[u].kind = KindOf(u)
          /\ \A u \in Thread : snd'[u].at \in {"seal", "store"} => scenario.crypt
      BY <3>3, <3>6, <3>7, <3>8 DEF SenderInv
    <3>10. Starts(t, f.no)
      BY <3>4, <3>6 DEF Starts, r
    <3> QED
      BY <2>2, <3>6, <3>9, <3>10 DEF t
  <2> QED
    BY <2>1, <2>2 DEF Rx
<1>5. SenderInv'
  BY <1>2, <1>4 DEF SenderInv
<1>6. gw_tx_msgq' \in Seq(Thread \X Nat) /\ (gw_tx_msgq' = gw_tx_msgq
        \/ (Legible(n, f) /\ n = "G" /\ f.kind = "state" /\ gw_tx_msgq' = Append(gw_tx_msgq, <<f.from, f.no>>)))
  <2>1. gw_tx_msgq \in Seq(Thread \X Nat) /\ <<f.from, f.no>> \in Thread \X Nat
    BY <1>3 DEF RfTypeOK
  <2>2. gw_tx_msgq' = gw_tx_msgq \/ (Legible(n, f) /\ n = "G" /\ f.kind = "state" /\ GwUdpSend(<<f.from, f.no>>))
    BY DEF Rx
  <2>3. GwUdpSend(<<f.from, f.no>>) =>
          gw_tx_msgq' \in Seq(Thread \X Nat) /\ (gw_tx_msgq' = gw_tx_msgq \/ gw_tx_msgq' = Append(gw_tx_msgq, <<f.from, f.no>>))
    BY <2>1, GwUdpSendTyped
  <2> QED
    BY <2>1, <2>2, <2>3
<1>7. shown' \in Seq(Nat) /\ echo' \in Nat
  <2>1. shown \in Seq(Nat) /\ echo \in Nat
    BY DEF RfTypeOK
  <2>2. (shown' = shown \/ shown' = Append(shown, f.no)) /\ (echo' = f.no \/ echo' = echo)
    BY DEF Rx
  <2> QED
    BY <1>3, <2>1, <2>2, SMTT(30)
<1>8. rx_counter' \in [Node -> Nat] /\ rx_initialized' \in [Node -> BOOLEAN] /\ misread' \in BOOLEAN
  <2>1. rx_counter \in [Node -> Nat] /\ rx_initialized \in [Node -> BOOLEAN] /\ misread \in BOOLEAN
    BY DEF RfTypeOK, RadioType
  <2>2. Inferred(n, f.ctr % Low) \in Nat
    <3>1. rx_counter[n] \in Nat /\ Low \in Nat \ {0}
      BY <2>1, RfAssumption
    <3>2. f.ctr % Low \in Nat /\ rx_counter[n] \div Low \in Nat
      BY <1>3, <3>1
    <3>3. (rx_counter[n] \div Low) * Low \in Nat
      BY <3>1, <3>2
    <3> QED
      BY <3>1, <3>2, <3>3 DEF Inferred
  <2>3. Opened(n, f)
    BY DEF Rx
  <2> QED
    BY <2>1, <2>2, <2>3 DEF Opened
<1>9. RfTypeOK'
  BY <1>2, <1>4, <1>6, <1>7, <1>8 DEF RfTypeOK, RadioType
<1> QED
  BY <1>2, <1>4, <1>5, <1>6, <1>9

(* The shell sends nothing before its command has begun. *)
ShellInv == ping.at = "sending" \/ snd["shell"].at \in {"idle", "sent", "failed"}
RfBase == RfTypeOK /\ SenderInv /\ ShellInv

LEMMA RxRejectsTyped ==
  ASSUME RfTypeOK, SenderInv, NEW n \in Node, RxRejects(n)
  PROVE  RfTypeOK' /\ SenderInv'
<1>1. rf24_rx_msgq[n] # <<>> /\ rf24_rx_msgq' = [rf24_rx_msgq EXCEPT ![n] = Tail(@)]
  BY DEF RxRejects, RxQuiet
<1>2. rf24_rx_msgq' \in [Node -> Seq(Air)]
      /\ \A m \in Node : \A i \in 1..Len(rf24_rx_msgq'[m]) :
           rf24_rx_msgq'[m][i].kind = KindOf(rf24_rx_msgq'[m][i].from) /\ NodeOf(rf24_rx_msgq'[m][i].from) = Peer(m)
  BY <1>1, TailTyped
<1> UNCHANGED <<scenario, tx_counter, rx_counter, rx_initialized, snd, gw_tx_msgq, got, shown, ping,
                ping_wait_seq, rf24_ping_msgq, echo, misread, broken>>
  BY DEF RxRejects, cryptVars, udpVars, pingVars
<1>3. RfTypeOK'
  BY <1>2 DEF RfTypeOK, RadioType
<1>4. SenderInv'
  BY <1>2 DEF SenderInv
<1> QED
  BY <1>3, <1>4

LEMMA RejoinTyped ==
  ASSUME RfTypeOK, SenderInv, NEW n \in Node, Rejoin(n)
  PROVE  RfTypeOK' /\ SenderInv' /\ scenario'.crypt = scenario.crypt
<1> UNCHANGED <<rx_counter, snd, rf24_rx_msgq, gw_tx_msgq, got, shown, ping,
                ping_wait_seq, rf24_ping_msgq, echo, misread>>
  BY DEF Rejoin, udpVars, pingVars
<1>1. scenario \in Budget /\ scenario.rejoins > 0 /\ scenario' = [scenario EXCEPT !.rejoins = @ - 1]
  BY DEF Rejoin, RfTypeOK
<1>2. scenario.rejoins \in Nat
  BY <1>1 DEF Budget
<1>3. scenario' \in Budget /\ scenario'.crypt = scenario.crypt
  BY <1>1, <1>2 DEF Budget
<1>4. tx_counter' \in [Node -> Nat] /\ rx_initialized' \in [Node -> BOOLEAN] /\ broken' = TRUE
  BY DEF Rejoin, RfTypeOK, RadioType
<1>5. RfTypeOK'
  BY <1>3, <1>4 DEF RfTypeOK, RadioType
<1>6. SenderInv'
  BY <1>3 DEF SenderInv
<1> QED
  BY <1>3, <1>5, <1>6

LEMMA EchoPutTyped ==
  ASSUME RfTypeOK, SenderInv, EchoPut
  PROVE  /\ RfTypeOK' /\ SenderInv'
         /\ rf24_ping_msgq' = rf24_ping_msgq \/ rf24_ping_msgq' = Append(rf24_ping_msgq, echo)
<1> UNCHANGED <<scenario, tx_counter, rx_counter, rx_initialized, snd, rf24_rx_msgq, gw_tx_msgq, got, shown, ping,
                ping_wait_seq, misread, broken>>
  BY DEF EchoPut, cryptVars, udpVars
<1>1. rf24_ping_msgq' = rf24_ping_msgq \/ rf24_ping_msgq' = Append(rf24_ping_msgq, echo)
  BY DEF EchoPut
<1>2. rf24_ping_msgq' \in Seq(Nat) /\ echo' \in Nat
  BY <1>1 DEF EchoPut, RfTypeOK, NoSeq
<1>3. RfTypeOK'
  BY <1>2 DEF RfTypeOK, RadioType
<1>4. SenderInv'
  BY DEF SenderInv
<1> QED
  BY <1>1, <1>3, <1>4

LEMMA PingSendTyped ==
  ASSUME RfTypeOK, SenderInv, ShellInv, PingSend
  PROVE  /\ RfTypeOK' /\ SenderInv' /\ ShellInv' /\ scenario'.crypt = scenario.crypt /\ scenario'.lost = scenario.lost
         /\ Starts("shell", ping.seq)
<1> UNCHANGED <<tx_counter, rx_counter, rx_initialized, rf24_rx_msgq, gw_tx_msgq, got, shown, echo, misread, broken>>
  BY DEF PingSend, PingOnly, cryptVars, udpVars
<1>1. "shell" \in Thread /\ "shell" # "gwshell" /\ KindOf("shell") = "ping"
  BY DEF Thread, KindOf, Telemetry
<1>2. scenario' \in Budget /\ scenario'.crypt = scenario.crypt /\ scenario'.lost = scenario.lost
  BY <1>1, SpentTyped DEF PingSend
<1>3. ping.seq \in Nat /\ ping' \in [at : {"idle", "sending", "wait"}, seq : Nat] /\ ping'.at = "sending" /\ ping_wait_seq' \in Nat
  BY DEF PingSend, RfTypeOK
<1>4. Sends("shell", KindOf("shell"), ping.seq)
  BY <1>1 DEF PingSend
<1>5. snd' \in [Thread -> SndRec] /\ SenderInv' /\ \A u \in Thread : u # "shell" => snd'[u] = snd[u]
  BY <1>1, <1>2, <1>3, <1>4, SendsTyped
<1>6. snd'["shell"] = [at |-> IF scenario.crypt THEN "seal" ELSE "try", kind |-> KindOf("shell"), no |-> ping.seq,
                       ctr |-> 0, tries |-> 0]
  BY <1>1, <1>2, <1>3, <1>4, SendsTyped
<1>7. rf24_ping_msgq' \in Seq(Nat)
  <2>1. rf24_ping_msgq \in Seq(Nat) /\ <<>> \in Seq(Nat)
    BY DEF RfTypeOK
  <2> QED
    BY <2>1 DEF PingSend
<1>8. RfTypeOK'
  BY <1>2, <1>3, <1>5, <1>7 DEF RfTypeOK, RadioType
<1>9. snd["shell"].at \in {"idle", "sent", "failed"}
  BY DEF PingSend, ShellInv
<1> QED
  BY <1>2, <1>3, <1>5, <1>6, <1>8, <1>9 DEF Starts, ShellInv

LEMMA PingStepsTyped ==
  ASSUME RfTypeOK, SenderInv, ShellInv, PingSent \/ PingGot \/ PingTimeout
  PROVE  RfTypeOK' /\ SenderInv' /\ ShellInv'
<1> UNCHANGED <<scenario, snd, tx_counter, rx_counter, rx_initialized, rf24_rx_msgq, gw_tx_msgq, got, shown, echo, misread, broken>>
  BY DEF PingSent, PingGot, PingTimeout, PingOnly, cryptVars, udpVars
<1>1. ping' \in [at : {"idle", "sending", "wait"}, seq : Nat] /\ ping_wait_seq' \in Nat
  <2>1. ping \in [at : {"idle", "sending", "wait"}, seq : Nat] /\ ping_wait_seq \in Nat
    BY DEF RfTypeOK
  <2>2. ping' = [ping EXCEPT !.at = "wait"] \/ ping' = [ping EXCEPT !.at = "idle"]
    BY DEF PingSent, PingGot, PingTimeout
  <2>3. ping_wait_seq' = ping_wait_seq \/ ping_wait_seq' = NoSeq
    BY DEF PingSent, PingGot, PingTimeout
  <2>4. ping' \in [at : {"idle", "sending", "wait"}, seq : Nat]
    BY <2>1, <2>2
  <2> QED
    BY <2>1, <2>3, <2>4 DEF NoSeq
<1>2. rf24_ping_msgq' \in Seq(Nat)
  <2>1. rf24_ping_msgq \in Seq(Nat)
    BY DEF RfTypeOK
  <2>2. rf24_ping_msgq' = rf24_ping_msgq \/ (rf24_ping_msgq # <<>> /\ rf24_ping_msgq' = Tail(rf24_ping_msgq))
    BY DEF PingSent, PingGot, PingTimeout
  <2> QED
    BY <2>1, <2>2
<1>3. RfTypeOK'
  BY <1>1, <1>2 DEF RfTypeOK, RadioType
<1>4. SenderInv'
  BY DEF SenderInv
<1>5. ShellInv'
  <2>1. CASE PingSent
    BY <2>1 DEF PingSent, Returned, ShellInv
  <2>2. CASE PingGot \/ PingTimeout
    BY <2>2 DEF PingGot, PingTimeout, ShellInv
  <2> QED
    BY <2>1, <2>2
<1> QED
  BY <1>3, <1>4, <1>5

LEMMA UdpStepsTyped ==
  ASSUME RfTypeOK, SenderInv, UdpTx \/ ShellSends \/ LinkEvent
  PROVE  /\ RfTypeOK' /\ SenderInv' /\ scenario'.crypt = scenario.crypt /\ scenario'.lost <= scenario.lost
         /\ \/ gw_tx_msgq # <<>> /\ gw_tx_msgq' = Tail(gw_tx_msgq) /\ (got' = got \/ got' = Append(got, Head(gw_tx_msgq)))
            \/ got' = got /\ (gw_tx_msgq' = gw_tx_msgq \/ \E k \in Nat : gw_tx_msgq' = Append(gw_tx_msgq, <<"gwshell", k>>))
<1> UNCHANGED <<tx_counter, rx_counter, rx_initialized, snd, rf24_rx_msgq, shown, ping,
                ping_wait_seq, rf24_ping_msgq, echo, misread, broken>>
  BY DEF UdpTx, ShellSends, LinkEvent, UdpOnly, cryptVars, pingVars
<1>1. "gwshell" \in Thread /\ scenario \in Budget /\ gw_tx_msgq \in Seq(Thread \X Nat) /\ got \in Seq(Thread \X Nat)
      /\ scenario.lost \in Nat /\ scenario.sends["gwshell"] \in Nat
  BY DEF Thread, RfTypeOK, Budget
<1> DEFINE T == \/ gw_tx_msgq # <<>> /\ gw_tx_msgq' = Tail(gw_tx_msgq) /\ (got' = got \/ got' = Append(got, Head(gw_tx_msgq)))
                \/ got' = got /\ (gw_tx_msgq' = gw_tx_msgq \/ \E k \in Nat : gw_tx_msgq' = Append(gw_tx_msgq, <<"gwshell", k>>))
           B == scenario' \in Budget /\ scenario'.crypt = scenario.crypt /\ scenario'.lost <= scenario.lost
<1>2. T /\ B
  <2>1. ASSUME UdpTx PROVE T /\ B
    BY <1>1, <2>1 DEF UdpTx
  <2>2. ASSUME ShellSends PROVE T /\ B
    <3>1. B
      <4>1. scenario.sends["gwshell"] > 0 /\ scenario' = [scenario EXCEPT !.sends["gwshell"] = @ - 1]
        BY <2>2 DEF ShellSends
      <4>2. scenario' \in Budget /\ scenario'.crypt = scenario.crypt /\ scenario'.lost = scenario.lost
        BY <1>1, <4>1, SpentTyped
      <4> QED
        BY <1>1, <4>2
    <3>2. GwUdpSend(<<"gwshell", scenario.sends["gwshell"]>>) /\ got' = got
      BY <2>2 DEF ShellSends
    <3>3. T
      BY <1>1, <3>2 DEF GwUdpSend
    <3> QED
      BY <3>1, <3>3
  <2>3. ASSUME LinkEvent PROVE T /\ B
    <3>1. scenario' \in Budget /\ scenario'.crypt = scenario.crypt /\ scenario'.lost + 1 = scenario.lost
      BY <2>3, LossTyped DEF LinkEvent
    <3>2. scenario'.lost \in Nat
      BY <3>1 DEF Budget
    <3> QED
      BY <1>1, <2>3, <3>1, <3>2 DEF LinkEvent
  <2> HIDE DEF T, B
  <2> QED
    BY <2>1, <2>2, <2>3
<1>3. gw_tx_msgq' \in Seq(Thread \X Nat) /\ got' \in Seq(Thread \X Nat)
  <2>1. CASE gw_tx_msgq # <<>> /\ gw_tx_msgq' = Tail(gw_tx_msgq) /\ (got' = got \/ got' = Append(got, Head(gw_tx_msgq)))
    <3>1. Tail(gw_tx_msgq) \in Seq(Thread \X Nat) /\ Head(gw_tx_msgq) \in Thread \X Nat
      <4> DEFINE X == Thread \X Nat
      <4>1. gw_tx_msgq \in Seq(X) /\ gw_tx_msgq # <<>>
        BY <1>1, <2>1
      <4> HIDE DEF X
      <4>2. Tail(gw_tx_msgq) \in Seq(X) /\ Head(gw_tx_msgq) \in X
        BY <4>1
      <4> QED
        BY <4>2 DEF X
    <3>2. got' = got \/ got' = Append(got, Head(gw_tx_msgq))
      BY <2>1
    <3>3. Append(got, Head(gw_tx_msgq)) \in Seq(Thread \X Nat)
      <4> DEFINE X == Thread \X Nat
                 h == Head(gw_tx_msgq)
      <4>1. got \in Seq(X) /\ h \in X
        BY <1>1, <3>1
      <4> HIDE DEF X, h
      <4>2. Append(got, h) \in Seq(X)
        BY <4>1
      <4> QED
        BY <4>2 DEF X, h
    <3>4. got' \in Seq(Thread \X Nat)
      BY <1>1, <3>2, <3>3
    <3> QED
      BY <2>1, <3>1, <3>4
  <2>2. CASE got' = got /\ gw_tx_msgq' = gw_tx_msgq
    BY <1>1, <2>2
  <2>3. CASE got' = got /\ \E k \in Nat : gw_tx_msgq' = Append(gw_tx_msgq, <<"gwshell", k>>)
    BY <1>1, <2>3
  <2> QED
    BY <1>2, <2>1, <2>2, <2>3
<1>4. RfTypeOK'
  BY <1>2, <1>3 DEF RfTypeOK, RadioType
<1>5. SenderInv'
  BY <1>2 DEF SenderInv
<1> QED
  BY <1>2, <1>4, <1>5

LEMMA RfBaseStep ==
  ASSUME RfBase, [RfNext]_rfVars
  PROVE  RfBase' /\ scenario'.crypt = scenario.crypt
<1> USE DEF RfBase
<1>1. ASSUME NEW t \in Thread, SealLoad(t) PROVE RfBase' /\ scenario' = scenario
  <2>1. RfTypeOK' /\ SenderInv'
    BY <1>1, SealLoadTyped
  <2>2. snd[t].at = "seal" /\ snd'[t].at = "store" /\ (\A u \in Thread : u # t => snd'[u] = snd[u]) /\ ping' = ping /\ scenario' = scenario
    BY <1>1, SealLoadTyped DEF SealLoad, SealOnly, pingVars
  <2>3. ShellInv'
    BY <2>2 DEF ShellInv, Thread
  <2> QED
    BY <2>1, <2>2, <2>3
<1>2. ASSUME NEW t \in Thread, SealStore(t) PROVE RfBase' /\ scenario' = scenario
  <2>1. RfTypeOK' /\ SenderInv'
    BY <1>2, SealStoreTyped
  <2>2. snd[t].at = "store" /\ snd'[t].at = "try" /\ (\A u \in Thread : u # t => snd'[u] = snd[u]) /\ ping' = ping /\ scenario' = scenario
    BY <1>2, SealStoreTyped DEF SealStore, SealOnly, pingVars
  <2>3. ShellInv'
    BY <2>2 DEF ShellInv, Thread
  <2> QED
    BY <2>1, <2>2, <2>3
<1>3. ASSUME NEW t \in Thread, Attempt(t) PROVE RfBase' /\ scenario'.crypt = scenario.crypt
  <2>1. RfTypeOK' /\ SenderInv' /\ scenario'.crypt = scenario.crypt /\ snd[t].at = "try"
        /\ (\A u \in Thread : u # t => snd'[u] = snd[u])
    BY <1>3, AttemptTyped
  <2>2. ping' = ping
    BY <1>3 DEF Attempt, pingVars
  <2>3. ShellInv'
    BY <2>1, <2>2 DEF ShellInv, Thread
  <2> QED
    BY <2>1, <2>3
<1>4. ASSUME NEW t \in Thread, Produce(t) PROVE RfBase' /\ scenario'.crypt = scenario.crypt
  <2>1. RfTypeOK' /\ SenderInv' /\ scenario'.crypt = scenario.crypt /\ t # "shell"
        /\ (\A u \in Thread : u # t => snd'[u] = snd[u])
    BY <1>4, ProduceTyped DEF Starts, Telemetry
  <2>2. ping' = ping
    BY <1>4 DEF Produce, pingVars
  <2>3. ShellInv'
    BY <2>1, <2>2 DEF ShellInv, Thread
  <2> QED
    BY <2>1, <2>3
<1>5. ASSUME NEW n \in Node, Rx(n) PROVE RfBase' /\ scenario' = scenario
  <2>1. RfTypeOK' /\ SenderInv' /\ (snd' = snd \/ \A u \in Thread : u # RxThread(n) => snd'[u] = snd[u])
    BY <1>5, RxTyped DEF Starts
  <2>2. ping' = ping /\ scenario' = scenario
    BY <1>5 DEF Rx
  <2>3. RxThread(n) # "shell" /\ "shell" \in Thread
    BY DEF RxThread, Thread
  <2>4. ShellInv'
    BY <2>1, <2>2, <2>3 DEF ShellInv
  <2> QED
    BY <2>1, <2>2, <2>4
<1>6. ASSUME NEW n \in Node, RxRejects(n) PROVE RfBase' /\ scenario' = scenario
  <2>1. UNCHANGED <<scenario, snd, ping>>
    BY <1>6 DEF RxRejects, pingVars
  <2> QED
    BY <1>6, <2>1, RxRejectsTyped DEF ShellInv
<1>7. ASSUME NEW n \in Node, Rejoin(n) PROVE RfBase' /\ scenario'.crypt = scenario.crypt
  <2>1. UNCHANGED <<snd, ping>>
    BY <1>7 DEF Rejoin, pingVars
  <2> QED
    BY <1>7, <2>1, RejoinTyped DEF ShellInv
<1>8. ASSUME EchoPut PROVE RfBase' /\ scenario' = scenario
  <2>1. UNCHANGED <<scenario, snd, ping>>
    BY <1>8 DEF EchoPut
  <2> QED
    BY <1>8, <2>1, EchoPutTyped DEF ShellInv
<1>9. ASSUME PingSend PROVE RfBase' /\ scenario'.crypt = scenario.crypt
  BY <1>9, PingSendTyped
<1>10. ASSUME PingSent \/ PingGot \/ PingTimeout PROVE RfBase' /\ scenario' = scenario
  <2>1. scenario' = scenario
    BY <1>10 DEF PingSent, PingGot, PingTimeout
  <2> QED
    BY <1>10, <2>1, PingStepsTyped
<1>11. ASSUME UdpTx \/ ShellSends \/ LinkEvent PROVE RfBase' /\ scenario'.crypt = scenario.crypt
  <2>1. UNCHANGED <<snd, ping>>
    BY <1>11 DEF UdpTx, ShellSends, LinkEvent, UdpOnly, pingVars
  <2> QED
    BY <1>11, <2>1, UdpStepsTyped DEF ShellInv
<1>12. ASSUME UNCHANGED rfVars PROVE RfBase' /\ scenario' = scenario
  BY <1>12 DEF rfVars, cryptVars, udpVars, pingVars, RfTypeOK, RadioType, SenderInv, ShellInv
<1> HIDE DEF RfBase
<1> QED
  BY <1>1, <1>2, <1>3, <1>4, <1>5, <1>6, <1>7, <1>8, <1>9, <1>10, <1>11, <1>12 DEF RfNext

(* Every echo, wherever it is, is of a ping that was answered. *)
EchoSent == \A t \in Thread : snd[t].at # "idle" /\ KindOf(t) = "echo" => snd[t].no \in answered
EchoInAir ==
  \A n \in Node : \A i \in 1..Len(rf24_rx_msgq[n]) :
    rf24_rx_msgq[n][i].kind = "echo" => rf24_rx_msgq[n][i].no \in answered
EchoHere ==
  /\ echo # NoSeq => echo \in answered
  /\ \A i \in 1..Len(rf24_ping_msgq) : rf24_ping_msgq[i] \in answered
  /\ pinged \subseteq answered
EchoInv == EchoSent /\ EchoInAir /\ EchoHere

LEMMA EchoInit == RfInit => EchoInv
BY DEF RfInit, EchoInv, EchoSent, EchoInAir, EchoHere, Quiet, NoSeq

(* Frames that arrive, and frames that are taken off. *)
LEMMA EchoArrives ==
  ASSUME RfBase, EchoInv, NEW t \in Thread, snd[t].at = "try", Arrives(Peer(NodeOf(t)), FrameOf(t)) \/ Missed, answered' = answered
  PROVE  EchoInAir'
<1> DEFINE m == Peer(NodeOf(t))
           f == FrameOf(t)
<1>1. m \in Node /\ rf24_rx_msgq[m] \in Seq(Air) /\ snd[t].kind = KindOf(t)
  BY NodesTyped DEF RfBase, RfTypeOK, RadioType, SenderInv
<1>2. f.kind = "echo" => f.no \in answered
  BY <1>1 DEF EchoInv, EchoSent, FrameOf
<1> HIDE DEF f, m
<1>3. CASE rf24_rx_msgq' = rf24_rx_msgq
  BY <1>3 DEF EchoInv, EchoInAir
<1>4. CASE rf24_rx_msgq'[m] = Append(rf24_rx_msgq[m], f) /\ \A n \in Node : n # m => rf24_rx_msgq'[n] = rf24_rx_msgq[n]
  <2> SUFFICES ASSUME NEW n \in Node, NEW i \in 1..Len(rf24_rx_msgq'[n]), rf24_rx_msgq'[n][i].kind = "echo"
               PROVE  rf24_rx_msgq'[n][i].no \in answered
    BY DEF EchoInAir
  <2>1. CASE n # m
    BY <1>4, <2>1 DEF EchoInv, EchoInAir
  <2>2. CASE n = m
    <3>1. (i \in 1..Len(rf24_rx_msgq[m]) /\ rf24_rx_msgq'[m][i] = rf24_rx_msgq[m][i]) \/ rf24_rx_msgq'[m][i] = f
      BY <1>1, <1>4, <2>2
    <3> QED
      BY <1>1, <1>2, <2>2, <3>1 DEF EchoInv, EchoInAir
  <2> QED
    BY <2>1, <2>2
<1> QED
  BY <1>3, <1>4 DEF Arrives, Missed, f, m

LEMMA EchoTail ==
  ASSUME RfBase, EchoInv, NEW n \in Node, rf24_rx_msgq[n] # <<>>,
         rf24_rx_msgq' = [rf24_rx_msgq EXCEPT ![n] = Tail(@)], answered \subseteq answered'
  PROVE  EchoInAir' /\ (Head(rf24_rx_msgq[n]).kind = "echo" => Head(rf24_rx_msgq[n]).no \in answered)
<1>1. /\ Len(rf24_rx_msgq[n]) \in Nat \ {0} /\ Head(rf24_rx_msgq[n]) = rf24_rx_msgq[n][1]
      /\ Len(rf24_rx_msgq'[n]) = Len(rf24_rx_msgq[n]) - 1
      /\ \A i \in 1..(Len(rf24_rx_msgq[n]) - 1) : rf24_rx_msgq'[n][i] = rf24_rx_msgq[n][i + 1]
      /\ \A m \in Node : m # n => rf24_rx_msgq'[m] = rf24_rx_msgq[m]
  BY TailTyped DEF RfBase
<1>2. ASSUME NEW m \in Node, NEW i \in 1..Len(rf24_rx_msgq'[m]), rf24_rx_msgq'[m][i].kind = "echo"
      PROVE  rf24_rx_msgq'[m][i].no \in answered
  <2>1. CASE m # n
    BY <1>1, <1>2, <2>1 DEF EchoInv, EchoInAir
  <2>2. CASE m = n
    <3>1. i + 1 \in 1..Len(rf24_rx_msgq[n]) /\ rf24_rx_msgq'[n][i] = rf24_rx_msgq[n][i + 1]
      BY <1>1, <1>2, <2>2
    <3> QED
      BY <1>2, <2>2, <3>1 DEF EchoInv, EchoInAir
  <2> QED
    BY <2>1, <2>2
<1> QED
  BY <1>1, <1>2 DEF EchoInv, EchoInAir

LEMMA EchoStep ==
  ASSUME RfBase, EchoInv, [RfNext]_rfVars
  PROVE  EchoInv'
<1>1. ASSUME NEW t \in Thread, SealLoad(t) \/ SealStore(t) PROVE EchoInv'
  <2>1. UNCHANGED <<rf24_rx_msgq, rf24_ping_msgq, echo, pinged, answered>>
    BY <1>1 DEF SealLoad, SealStore, SealOnly, pingVars
  <2>2. snd[t].at # "idle" /\ snd'[t].no = snd[t].no /\ \A u \in Thread : u # t => snd'[u] = snd[u]
    BY <1>1, SealLoadTyped, SealStoreTyped DEF RfBase, SealLoad, SealStore
  <2>3. EchoSent'
    BY <2>1, <2>2 DEF EchoInv, EchoSent
  <2>4. EchoInAir' /\ EchoHere'
    BY <2>1 DEF EchoInv, EchoInAir, EchoHere
  <2> QED
    BY <2>3, <2>4 DEF EchoInv
<1>2. ASSUME NEW t \in Thread, Attempt(t) PROVE EchoInv'
  <2>1. UNCHANGED <<rf24_ping_msgq, echo, pinged, answered>>
    BY <1>2 DEF Attempt, pingVars
  <2>2. snd[t].at = "try" /\ snd'[t].no = snd[t].no /\ (\A u \in Thread : u # t => snd'[u] = snd[u])
        /\ (Arrives(Peer(NodeOf(t)), FrameOf(t)) \/ Missed)
    BY <1>2, AttemptTyped DEF RfBase
  <2>3. EchoSent'
    BY <2>1, <2>2 DEF EchoInv, EchoSent
  <2>4. EchoInAir'
    BY <2>1, <2>2, EchoArrives
  <2>5. EchoHere'
    BY <2>1 DEF EchoInv, EchoHere
  <2> QED
    BY <2>3, <2>4, <2>5 DEF EchoInv
<1>3. ASSUME NEW t \in Thread, Produce(t) PROVE EchoInv'
  <2>1. UNCHANGED <<rf24_rx_msgq, rf24_ping_msgq, echo, pinged, answered>>
    BY <1>3 DEF Produce, pingVars
  <2>2. KindOf(t) # "echo" /\ \A u \in Thread : u # t => snd'[u] = snd[u]
    BY <1>3, ProduceTyped DEF RfBase, Starts, KindOf, Telemetry
  <2>3. EchoSent'
    BY <2>1, <2>2 DEF EchoInv, EchoSent
  <2>4. EchoInAir' /\ EchoHere'
    BY <2>1 DEF EchoInv, EchoInAir, EchoHere
  <2> QED
    BY <2>3, <2>4 DEF EchoInv
<1>4. ASSUME NEW n \in Node, Rx(n) PROVE EchoInv'
  <2> DEFINE f == Head(rf24_rx_msgq[n])
  <2>1. UNCHANGED <<rf24_ping_msgq, pinged>> /\ rf24_rx_msgq[n] # <<>> /\ rf24_rx_msgq' = [rf24_rx_msgq EXCEPT ![n] = Tail(@)]
        /\ (echo' = echo \/ (f.kind = "echo" /\ echo' = f.no))
    BY <1>4 DEF Rx, RxQuiet
  <2>2. UNCHANGED <<snd, answered>> \/ (Starts(RxThread(n), f.no) /\ answered' = answered \cup {f.no})
    BY <1>4, RxTyped DEF RfBase
  <2>3. answered \subseteq answered'
    BY <2>2
  <2>4. EchoInAir' /\ (f.kind = "echo" => f.no \in answered)
    BY <2>1, <2>3, EchoTail
  <2>5. EchoSent'
    <3>1. CASE UNCHANGED <<snd, answered>>
      BY <3>1 DEF EchoInv, EchoSent
    <3>2. CASE Starts(RxThread(n), f.no) /\ answered' = answered \cup {f.no}
      <4>1. snd'[RxThread(n)].no = f.no /\ \A u \in Thread : u # RxThread(n) => snd'[u] = snd[u]
        BY <3>2 DEF Starts
      <4> QED
        BY <3>2, <4>1 DEF EchoInv, EchoSent
    <3> QED
      BY <2>2, <3>1, <3>2
  <2>6. EchoHere'
    BY <2>1, <2>3, <2>4 DEF EchoInv, EchoHere
  <2> QED
    BY <2>4, <2>5, <2>6 DEF EchoInv
<1>5. ASSUME NEW n \in Node, RxRejects(n) PROVE EchoInv'
  <2>1. UNCHANGED <<snd, rf24_ping_msgq, echo, pinged, answered>> /\ rf24_rx_msgq[n] # <<>>
        /\ rf24_rx_msgq' = [rf24_rx_msgq EXCEPT ![n] = Tail(@)]
    BY <1>5 DEF RxRejects, RxQuiet, pingVars
  <2>2. EchoInAir'
    BY <2>1, EchoTail
  <2> QED
    BY <2>1, <2>2 DEF EchoInv, EchoSent, EchoHere
<1>6. ASSUME NEW n \in Node, Rejoin(n) PROVE EchoInv'
  BY <1>6 DEF Rejoin, pingVars, EchoInv, EchoSent, EchoInAir, EchoHere
<1>7. ASSUME EchoPut PROVE EchoInv'
  <2>1. UNCHANGED <<snd, rf24_rx_msgq, pinged, answered>> /\ echo # NoSeq /\ echo' = NoSeq
    BY <1>7 DEF EchoPut
  <2>2. (rf24_ping_msgq' = rf24_ping_msgq \/ rf24_ping_msgq' = Append(rf24_ping_msgq, echo)) /\ rf24_ping_msgq \in Seq(Nat)
        /\ echo \in Nat
    BY <1>7, EchoPutTyped DEF RfBase, RfTypeOK
  <2>3. echo \in answered
    BY <2>1 DEF EchoInv, EchoHere
  <2>4. \A i \in 1..Len(rf24_ping_msgq') : rf24_ping_msgq'[i] \in answered
    BY <2>2, <2>3 DEF EchoInv, EchoHere
  <2> QED
    BY <2>1, <2>4 DEF EchoInv, EchoSent, EchoInAir, EchoHere
<1>8. ASSUME PingSend PROVE EchoInv'
  <2>1. UNCHANGED <<rf24_rx_msgq, echo, pinged, answered>> /\ (rf24_ping_msgq' = <<>> \/ rf24_ping_msgq' = rf24_ping_msgq)
    BY <1>8 DEF PingSend, PingOnly
  <2>2. KindOf("shell") # "echo" /\ \A u \in Thread : u # "shell" => snd'[u] = snd[u]
    BY <1>8, PingSendTyped DEF RfBase, Starts, KindOf, Telemetry
  <2>3. EchoSent'
    BY <2>1, <2>2 DEF EchoInv, EchoSent
  <2>4. EchoInAir' /\ EchoHere'
    BY <2>1 DEF EchoInv, EchoInAir, EchoHere
  <2> QED
    BY <2>3, <2>4 DEF EchoInv
<1>9. ASSUME PingSent \/ PingTimeout PROVE EchoInv'
  BY <1>9 DEF PingSent, PingTimeout, PingOnly, EchoInv, EchoSent, EchoInAir, EchoHere
<1>10. ASSUME PingGot PROVE EchoInv'
  <2>1. UNCHANGED <<snd, rf24_rx_msgq, echo, answered>> /\ rf24_ping_msgq # <<>> /\ rf24_ping_msgq' = Tail(rf24_ping_msgq)
        /\ (pinged' = pinged \/ pinged' = pinged \cup {Head(rf24_ping_msgq)}) /\ rf24_ping_msgq \in Seq(Nat)
    BY <1>10 DEF PingGot, PingOnly, RfBase, RfTypeOK
  <2>2. Len(rf24_ping_msgq) \in Nat \ {0} /\ Head(rf24_ping_msgq) = rf24_ping_msgq[1]
        /\ Len(rf24_ping_msgq') = Len(rf24_ping_msgq) - 1
        /\ \A i \in 1..(Len(rf24_ping_msgq) - 1) : rf24_ping_msgq'[i] = rf24_ping_msgq[i + 1]
    BY <2>1
  <2>3. \A i \in 1..Len(rf24_ping_msgq') : rf24_ping_msgq'[i] \in answered
    BY <2>2 DEF EchoInv, EchoHere
  <2>4. Head(rf24_ping_msgq) \in answered
    BY <2>2 DEF EchoInv, EchoHere
  <2> QED
    BY <2>1, <2>3, <2>4 DEF EchoInv, EchoSent, EchoInAir, EchoHere
<1>11. ASSUME UdpTx \/ ShellSends \/ LinkEvent PROVE EchoInv'
  BY <1>11 DEF UdpTx, ShellSends, LinkEvent, UdpOnly, pingVars, EchoInv, EchoSent, EchoInAir, EchoHere
<1>12. ASSUME UNCHANGED rfVars PROVE EchoInv'
  BY <1>12 DEF rfVars, pingVars, EchoInv, EchoSent, EchoInAir, EchoHere
<1> QED
  BY <1>1, <1>2, <1>3, <1>4, <1>5, <1>6, <1>7, <1>8, <1>9, <1>10, <1>11, <1>12 DEF RfNext

(* The byte of a counter and what is inferred from it. *)
LEMMA DivMod ==
  ASSUME NEW L \in Nat \ {0}, NEW a \in Nat
  PROVE  a \div L \in Nat /\ a % L \in 0..(L - 1) /\ a = L * (a \div L) + (a % L)
<1>1. a \div L \in Nat
  OBVIOUS
<1>2. a % L \in 0..(L - 1)
  OBVIOUS
<1>3. a - L * (a \div L) = a % L
  OBVIOUS
<1> DEFINE k == a \div L
           b == a % L
<1>4. k \in Nat /\ b \in 0..(L - 1) /\ a - L * k = b
  BY <1>1, <1>2, <1>3
<1> HIDE DEF k, b
<1>5. L * k \in Nat
  BY <1>4
<1>6. a = L * k + b
  BY <1>4, <1>5
<1> QED
  BY <1>4, <1>6 DEF k, b

LEMMA ModOnce ==
  ASSUME NEW L \in Nat \ {0}, NEW x \in 0..(2 * L - 1)
  PROVE  x % L = IF x < L THEN x ELSE x - L
<1>0. x \in Nat
  OBVIOUS
<1>1. x \div L \in Nat /\ x % L \in 0..(L - 1) /\ x = L * (x \div L) + (x % L)
  BY <1>0, DivMod
<1> DEFINE k == x \div L
           b == x % L
<1>2. k \in Nat /\ b \in 0..(L - 1) /\ x = L * k + b /\ x \in Nat /\ x < 2 * L
  BY <1>1
<1> HIDE DEF k, b
<1>3. b = IF x < L THEN x ELSE x - L
  <2>1. k >= 2 => L * k >= 2 * L
    BY <1>2
  <2>2. k \in {0, 1}
    BY <1>2, <2>1
  <2>3. L * 0 = 0 /\ L * 1 = L
    OBVIOUS
  <2> QED
    BY <1>2, <2>2, <2>3
<1> QED
  BY <1>3 DEF b

LEMMA WindowMath ==
  ASSUME NEW L \in Nat \ {0}, NEW W \in Nat \ {0}, W < L, NEW r \in Nat, NEW c \in Nat, r + W < c + L, c <= r + W
  PROVE  /\ ((c % L) + L - (r % L)) % L \in 1..W <=> r < c
         /\ r < c => (r \div L) * L + (c % L) + (IF (c % L) < (r % L) THEN L ELSE 0) = c
<1> DEFINE kc == c \div L
           bc == c % L
           kr == r \div L
           br == r % L
           k == kc - kr
<1>1. kc \in Nat /\ bc \in 0..(L - 1) /\ c = L * kc + bc
  BY DivMod
<1>2. kr \in Nat /\ br \in 0..(L - 1) /\ r = L * kr + br
  BY DivMod
<1>3. (bc + L - br) % L = IF bc + L - br < L THEN bc + L - br ELSE bc - br
  <2>1. bc + L - br \in 0..(2 * L - 1)
    BY <1>1, <1>2
  <2> DEFINE x == bc + L - br
  <2>2. x % L = IF x < L THEN x ELSE x - L
    BY <2>1, ModOnce
  <2> QED
    BY <1>1, <1>2, <2>2
<1>4. L * kc = L * kr + L * k /\ k \in Int
  <2> HIDE DEF kc, kr
  <2> QED
    BY <1>1, <1>2
<1>5. kr * L = L * kr
  <2> HIDE DEF kr
  <2> QED
    BY <1>2
<1> HIDE DEF kc, bc, kr, br, k
<1> DEFINE P == L * kr
           Q == L * k
<1>6. P \in Nat /\ Q \in Int
  BY <1>2, <1>4
<1>7. c = P + Q + bc /\ r = P + br
  BY <1>1, <1>2, <1>4
<1>8. Q \in {0 - L, 0, L}
  <2>1. c - r = Q + bc - br
    BY <1>1, <1>2, <1>6, <1>7
  <2>2. c - r <= W /\ c - r > W - L
    OBVIOUS
  <2>3. Q < 2 * L /\ Q > 0 - 2 * L
    BY <1>1, <1>2, <1>6, <2>1, <2>2
  <2>4. k >= 2 => Q >= 2 * L
    BY <1>4
  <2>5. k <= 0 - 2 => Q <= 0 - 2 * L
    BY <1>4
  <2>6. k \in {0 - 1, 0, 1}
    BY <1>4, <1>6, <2>3, <2>4, <2>5
  <2>7. L * (0 - 1) = 0 - L /\ L * 0 = 0 /\ L * 1 = L
    OBVIOUS
  <2> QED
    BY <2>6, <2>7
<1> HIDE DEF P, Q
<1>9. (bc + L - br) % L \in 1..W <=> r < c
  BY <1>1, <1>2, <1>3, <1>6, <1>7, <1>8
<1>10. r < c => P + bc + (IF bc < br THEN L ELSE 0) = c
  BY <1>1, <1>2, <1>6, <1>7, <1>8
<1>11. r < c => kr * L + bc + (IF bc < br THEN L ELSE 0) = c
  BY <1>5, <1>10 DEF P
<1> QED
  BY <1>9, <1>11 DEF kr, bc, br

(* The counters of the frames that a node is sending, and of those that    *)
(* the other has opened or queued; what was passed over in between.        *)
Flying(n) == {c \in Nat : \E t \in Thread : NodeOf(t) = n /\ snd[t].at \in {"store", "try"} /\ snd[t].ctr = c}
TookBefore(m, i) ==
  {s \in Nat : (rx_initialized[m] /\ rx_counter[m] = s) \/ \E j \in 1..(i - 1) : rf24_rx_msgq[m][j].ctr = s}
Took(m) ==
  {s \in Nat : (rx_initialized[m] /\ rx_counter[m] = s) \/ \E j \in 1..Len(rf24_rx_msgq[m]) : rf24_rx_msgq[m][j].ctr = s}
Missing(n) ==
  {v \in Nat : (v < tx_counter[n] \/ \E c \in Flying(n) : v < c) /\ (\A s \in Took(Peer(n)) : s < v) /\ v \notin Flying(n)}
Spent(t) == IF snd[t].at = "try" THEN snd[t].tries ELSE 0
SpentOf(n) ==
  IF n = "H" THEN Spent("work") + Spent("heart") + Spent("hrx") ELSE Spent("data") + Spent("grx") + Spent("shell")

(* Nothing that is on its way or taken is so far behind that its byte      *)
(* would be taken for that of a later counter.                             *)
NotBehind(n) ==
  /\ \A a \in Flying(n) : \A b \in Flying(n) : a + Window < b + Low
  /\ \A a \in Flying(n) : a + Window < tx_counter[n] + Low
  /\ \A s \in Took(Peer(n)) : s + Window < tx_counter[n] + Low
  /\ \A s \in Took(Peer(n)) : \A a \in Flying(n) : s + Window < a + Low
(* Each frame of the queue is within the window of what goes before.       *)
InReach(m, i) ==
  /\ \A s \in TookBefore(m, i) : s + Window < rf24_rx_msgq[m][i].ctr + Low
  /\ rf24_rx_msgq[m][i].ctr < Window \/ \E s \in TookBefore(m, i) : rf24_rx_msgq[m][i].ctr <= s + Window
QueueFits(m) == \A i \in 1..Len(rf24_rx_msgq[m]) : InReach(m, i)
(* A counter is passed over only for as many losses as a frame has tries.  *)
LossFits(n) ==
  /\ IsFiniteSet(Missing(n))
  /\ Cardinality(Missing(n)) * (Retries + 1) + SpentOf(n) + scenario.lost + 2 * (Retries + 1) < Window * (Retries + 1)
CountersFit(n) == NotBehind(n) /\ QueueFits(Peer(n)) /\ LossFits(n)
CounterInv == scenario.crypt /\ ~broken => \A n \in Node : CountersFit(n)

LEMMA SpentTypes ==
  ASSUME RfTypeOK
  PROVE  (\A t \in Thread : Spent(t) \in Nat) /\ \A n \in Node : SpentOf(n) \in Nat /\ scenario.lost \in Nat
<1>1. \A t \in Thread : Spent(t) \in Nat
  <2> SUFFICES ASSUME NEW t \in Thread PROVE Spent(t) \in Nat
    OBVIOUS
  <2>1. snd[t] \in SndRec
    BY DEF RfTypeOK, RadioType
  <2> QED
    BY <2>1 DEF SndRec, Spent
<1>2. scenario.lost \in Nat
  BY DEF RfTypeOK, Budget
<1>3. Spent("work") \in Nat /\ Spent("heart") \in Nat /\ Spent("hrx") \in Nat /\ Spent("data") \in Nat
      /\ Spent("grx") \in Nat /\ Spent("shell") \in Nat
  BY <1>1 DEF Thread
<1> QED
  BY <1>1, <1>2, <1>3 DEF SpentOf

LEMMA SpentTypesNext ==
  ASSUME RfTypeOK'
  PROVE  \A n \in Node : SpentOf(n)' \in Nat /\ scenario'.lost \in Nat
<1>1. \A t \in Thread : Spent(t)' \in Nat
  <2> SUFFICES ASSUME NEW t \in Thread PROVE Spent(t)' \in Nat
    OBVIOUS
  <2>1. snd'[t] \in SndRec
    BY DEF RfTypeOK, RadioType
  <2> QED
    BY <2>1 DEF SndRec, Spent
<1>2. scenario'.lost \in Nat
  BY DEF RfTypeOK, Budget
<1>3. Spent("work")' \in Nat /\ Spent("heart")' \in Nat /\ Spent("hrx")' \in Nat /\ Spent("data")' \in Nat
      /\ Spent("grx")' \in Nat /\ Spent("shell")' \in Nat
  BY <1>1 DEF Thread
<1> QED
  BY <1>2, <1>3 DEF SpentOf

LEMMA Products ==
  ASSUME NEW a \in Nat, NEW b \in Nat, NEW R \in Nat \ {0}
  PROVE  a <= b => a * R <= b * R
OBVIOUS

LEMMA LossKept ==
  ASSUME RfTypeOK, RfTypeOK', NEW n \in Node, LossFits(n), Missing(n)' \subseteq Missing(n),
         SpentOf(n)' + scenario'.lost <= SpentOf(n) + scenario.lost
  PROVE  LossFits(n)'
<1>1. IsFiniteSet(Missing(n)') /\ Cardinality(Missing(n)') \in Nat /\ Cardinality(Missing(n)) \in Nat
      /\ Cardinality(Missing(n)') <= Cardinality(Missing(n))
  BY FS_Subset, FS_CardinalityType DEF LossFits
<1>2. Retries + 1 \in Nat \ {0} /\ Window \in Nat /\ SpentOf(n) \in Nat /\ SpentOf(n)' \in Nat /\ scenario.lost \in Nat /\ scenario'.lost \in Nat
  BY SpentTypes, SpentTypesNext, RfAssumption
<1> DEFINE a == Cardinality(Missing(n)')
           b == Cardinality(Missing(n))
           R == Retries + 1
<1>3. a * R <= b * R
  BY <1>1, <1>2, Products
<1>4. b * R + SpentOf(n) + scenario.lost + 2 * R < Window * R
  BY DEF LossFits
<1>5. a \in Nat /\ b \in Nat /\ R \in Nat
  BY <1>1, <1>2
<1>6. IsFiniteSet(Missing(n)')
  BY <1>1
<1> HIDE DEF a, b, R
<1> DEFINE P == a * R
           Q == b * R
           T == 2 * R
           V == Window * R
<1>7. P \in Nat /\ Q \in Nat /\ T \in Nat /\ V \in Nat
  BY <1>2, <1>5
<1>8. P <= Q /\ Q + SpentOf(n) + scenario.lost + T < V
  BY <1>3, <1>4
<1> HIDE DEF P, Q, T, V
<1>9. P + SpentOf(n)' + scenario'.lost + T < V
  BY <1>2, <1>7, <1>8
<1> QED
  BY <1>6, <1>9 DEF P, T, V, a, R, LossFits

LEMMA OneMore ==
  ASSUME NEW S, IsFiniteSet(S), NEW x
  PROVE  /\ IsFiniteSet(S \cup {x}) /\ Cardinality(S) \in Nat /\ Cardinality(S \cup {x}) \in Nat
         /\ Cardinality(S \cup {x}) <= Cardinality(S) + 1
<1>1. IsFiniteSet(S \cup {x})
      /\ Cardinality(S \cup {x}) = IF x \in S THEN Cardinality(S) ELSE Cardinality(S) + 1
  BY FS_AddElement
<1>2. Cardinality(S) \in Nat
  BY FS_CardinalityType
<1> QED
  BY <1>1, <1>2

(* A frame is given up that never arrived. *)
LEMMA LossPaid ==
  ASSUME RfTypeOK, RfTypeOK', NEW n \in Node, LossFits(n), NEW c, Missing(n)' \subseteq Missing(n) \cup {c},
         SpentOf(n)' + scenario'.lost + Retries + 1 <= SpentOf(n) + scenario.lost
  PROVE  LossFits(n)'
<1> DEFINE U == Missing(n) \cup {c}
<1>1. IsFiniteSet(U) /\ Cardinality(Missing(n)) \in Nat /\ Cardinality(U) \in Nat
      /\ Cardinality(U) <= Cardinality(Missing(n)) + 1
  BY OneMore DEF LossFits
<1>2. IsFiniteSet(Missing(n)') /\ Cardinality(Missing(n)') \in Nat /\ Cardinality(Missing(n)') <= Cardinality(U)
  BY <1>1, FS_Subset, FS_CardinalityType
<1>3. Retries \in Nat /\ Window \in Nat /\ SpentOf(n) \in Nat /\ SpentOf(n)' \in Nat /\ scenario.lost \in Nat /\ scenario'.lost \in Nat
  BY SpentTypes, SpentTypesNext, RfAssumption
<1> DEFINE a == Cardinality(Missing(n)')
           b == Cardinality(Missing(n))
           R == Retries + 1
<1>4. a \in Nat /\ b \in Nat /\ R \in Nat \ {0} /\ a <= b + 1
  BY <1>1, <1>2, <1>3
<1>5. a * R <= (b + 1) * R
  BY <1>4, Products
<1>6. (b + 1) * R = b * R + R
  <2> HIDE DEF b, R
  <2> QED
    BY <1>4
<1>7. b * R + SpentOf(n) + scenario.lost + 2 * R < Window * R
  BY DEF LossFits
<1>8. SpentOf(n)' + scenario'.lost + R <= SpentOf(n) + scenario.lost
  BY <1>3
<1>9. IsFiniteSet(Missing(n)')
  BY <1>2
<1> HIDE DEF a, b, R
<1> DEFINE P == a * R
           Q == b * R
           T == 2 * R
           V == Window * R
<1>10. P \in Nat /\ Q \in Nat /\ T \in Nat /\ V \in Nat /\ R \in Nat
  BY <1>3, <1>4
<1>11. P <= Q + R /\ Q + SpentOf(n) + scenario.lost + T < V
  BY <1>5, <1>6, <1>7
<1> HIDE DEF P, Q, T, V
<1>12. P + SpentOf(n)' + scenario'.lost + T < V
  BY <1>3, <1>8, <1>10, <1>11
<1> QED
  BY <1>9, <1>12 DEF P, T, V, a, R, LossFits

(* So fewer are passed over than the window spans, with two to spare. *)
LEMMA FewMissing ==
  ASSUME RfTypeOK, NEW n \in Node, LossFits(n)
  PROVE  IsFiniteSet(Missing(n)) /\ Cardinality(Missing(n)) \in Nat /\ Cardinality(Missing(n)) + 2 < Window
<1> DEFINE b == Cardinality(Missing(n))
           R == Retries + 1
<1>1. IsFiniteSet(Missing(n)) /\ b \in Nat
  BY FS_CardinalityType DEF LossFits
<1>2. Retries \in Nat /\ Window \in Nat /\ SpentOf(n) \in Nat /\ scenario.lost \in Nat
  BY SpentTypes, RfAssumption
<1>3. R \in Nat \ {0}
  BY <1>2
<1>4. b * R + SpentOf(n) + scenario.lost + 2 * R < Window * R
  BY DEF LossFits
<1> HIDE DEF b, R
<1>5. (b + 2) * R = b * R + 2 * R
  BY <1>1, <1>3
<1> DEFINE P == (b + 2) * R
           Q == b * R
           T == 2 * R
           V == Window * R
<1>6. P \in Nat /\ Q \in Nat /\ T \in Nat /\ V \in Nat
  BY <1>1, <1>2, <1>3
<1>7. P = Q + T /\ Q + SpentOf(n) + scenario.lost + T < V
  BY <1>4, <1>5
<1> HIDE DEF P, Q, T, V
<1>8. P < V
  BY <1>2, <1>6, <1>7
<1>9. ~(Window <= b + 2)
  <2>1. Window <= b + 2 => V <= P
    BY <1>1, <1>2, <1>3, Products DEF P, V
  <2> QED
    BY <1>6, <1>8, <2>1
<1> QED
  BY <1>1, <1>2, <1>9 DEF b

(* W numbers cannot all be passed over, or two that are on their way. *)
LEMMA ReachCounts ==
  ASSUME NEW M, IsFiniteSet(M), NEW a, NEW b, NEW c \in Nat, NEW W \in Nat \ {0}, W <= c,
         \A v \in Nat : c - W <= v /\ v < c => v \in M \/ v = a \/ v = b
  PROVE  W <= Cardinality(M) + 2
<1> DEFINE I == (c - W)..(c - 1)
           U == (M \cup {a}) \cup {b}
<1>1. IsFiniteSet(U) /\ Cardinality(M) \in Nat /\ Cardinality(U) \in Nat /\ Cardinality(U) <= Cardinality(M) + 2
  <2>1. IsFiniteSet(M \cup {a}) /\ Cardinality(M) \in Nat /\ Cardinality(M \cup {a}) \in Nat
        /\ Cardinality(M \cup {a}) <= Cardinality(M) + 1
    BY OneMore
  <2>2. IsFiniteSet(U) /\ Cardinality(U) \in Nat /\ Cardinality(U) <= Cardinality(M \cup {a}) + 1
    <3> DEFINE N == M \cup {a}
    <3>1. IsFiniteSet(N)
      BY <2>1
    <3> HIDE DEF N
    <3>2. IsFiniteSet(N \cup {b}) /\ Cardinality(N \cup {b}) \in Nat /\ Cardinality(N \cup {b}) <= Cardinality(N) + 1
      BY <3>1, OneMore
    <3> QED
      BY <3>2 DEF N
  <2> QED
    BY <2>1, <2>2
<1>2. I \subseteq U
  OBVIOUS
<1>3. Cardinality(I) = W
  <2>1. c - W \in Int /\ c - 1 \in Int
    OBVIOUS
  <2>2. Cardinality(I) = IF c - W > c - 1 THEN 0 ELSE (c - 1) - (c - W) + 1
    BY <2>1, FS_Interval
  <2> QED
    BY <2>2
<1>4. Cardinality(I) <= Cardinality(U)
  BY <1>1, <1>2, FS_Subset
<1> HIDE DEF I, U
<1> QED
  BY <1>1, <1>3, <1>4

LEMMA FlyingSame ==
  ASSUME NEW n \in Node,
         \A u \in Thread : NodeOf(u) = n =>
           /\ snd'[u].at \in {"store", "try"} <=> snd[u].at \in {"store", "try"}
           /\ snd[u].at \in {"store", "try"} => snd'[u].ctr = snd[u].ctr
           /\ Spent(u)' = Spent(u)
  PROVE  Flying(n)' = Flying(n) /\ SpentOf(n)' = SpentOf(n)
<1>1. Flying(n)' = Flying(n)
  BY DEF Flying
<1>2. SpentOf(n)' = SpentOf(n)
  BY DEF SpentOf, Node, NodeOf, Thread
<1> QED
  BY <1>1, <1>2

LEMMA TookSame ==
  ASSUME NEW m \in Node, rf24_rx_msgq'[m] = rf24_rx_msgq[m], rx_counter'[m] = rx_counter[m],
         rx_initialized'[m] = rx_initialized[m]
  PROVE  Took(m)' = Took(m) /\ (QueueFits(m) => QueueFits(m)')
BY DEF Took, QueueFits, InReach, TookBefore

LEMMA FitsKept ==
  ASSUME RfTypeOK, RfTypeOK', NEW n \in Node, CountersFit(n), QueueFits(Peer(n))',
         Flying(n)' = Flying(n), tx_counter'[n] = tx_counter[n],
         SpentOf(n)' + scenario'.lost <= SpentOf(n) + scenario.lost,
         Took(Peer(n))' \subseteq Took(Peer(n)),
         \A s \in Took(Peer(n)) : \E r \in Took(Peer(n))' : s <= r
  PROVE  CountersFit(n)'
<1>1. NotBehind(n)'
  BY DEF CountersFit, NotBehind
<1>2. Missing(n)' \subseteq Missing(n)
  <2> SUFFICES ASSUME NEW v \in Missing(n)' PROVE v \in Missing(n)
    OBVIOUS
  <2>1. v \in Nat /\ (v < tx_counter[n] \/ \E c \in Flying(n) : v < c) /\ v \notin Flying(n)
        /\ (\A r \in Took(Peer(n))' : r < v)
    BY DEF Missing
  <2>2. \A s \in Took(Peer(n)) : s < v
    BY <2>1 DEF Took
  <2> QED
    BY <2>1, <2>2 DEF Missing
<1>3. LossFits(n)'
  BY <1>2, LossKept DEF CountersFit
<1> QED
  BY <1>1, <1>3 DEF CountersFit

LEMMA FitsLoad ==
  ASSUME RfTypeOK, RfTypeOK', NEW n \in Node, CountersFit(n), QueueFits(Peer(n))',
         Flying(n)' = Flying(n) \cup {tx_counter[n]}, tx_counter'[n] = tx_counter[n],
         SpentOf(n)' = SpentOf(n), scenario' = scenario, Took(Peer(n))' = Took(Peer(n)),
         \A a \in Flying(n) : tx_counter[n] + Window < a + Low
  PROVE  CountersFit(n)'
<1>1. NotBehind(n)'
  <2>1. tx_counter[n] \in Nat /\ Window \in Nat /\ Low \in Nat /\ Window < Low
    BY RfAssumption DEF RfTypeOK, RadioType
  <2> QED
    BY <2>1 DEF CountersFit, NotBehind
<1>2. Missing(n)' \subseteq Missing(n)
  BY DEF Missing
<1>3. SpentOf(n)' + scenario'.lost <= SpentOf(n) + scenario.lost
  BY SpentTypes
<1>4. LossFits(n)'
  BY <1>2, <1>3, LossKept DEF CountersFit
<1> QED
  BY <1>1, <1>4 DEF CountersFit

LEMMA FitsStore ==
  ASSUME RfTypeOK, RfTypeOK', NEW n \in Node, CountersFit(n), QueueFits(Peer(n))', NEW c \in Flying(n),
         Flying(n)' = Flying(n), tx_counter'[n] = c + 1,
         SpentOf(n)' = SpentOf(n), scenario' = scenario, Took(Peer(n))' = Took(Peer(n))
  PROVE  CountersFit(n)'
<1>0. c \in Nat /\ Flying(n) \subseteq Nat /\ Took(Peer(n)) \subseteq Nat /\ Window \in Nat /\ Low \in Nat
  BY RfAssumption DEF Flying, Took
<1>1. NotBehind(n)'
  BY <1>0 DEF CountersFit, NotBehind
<1>2. Missing(n)' \subseteq Missing(n)
  <2> SUFFICES ASSUME NEW v \in Missing(n)' PROVE v \in Missing(n)
    OBVIOUS
  <2>1. v \in Nat /\ (v < c + 1 \/ \E a \in Flying(n) : v < a) /\ v \notin Flying(n)
        /\ (\A r \in Took(Peer(n)) : r < v)
    BY DEF Missing
  <2>2. v # c
    BY <2>1
  <2>3. \E a \in Flying(n) : v < a
    BY <1>0, <2>1, <2>2
  <2> QED
    BY <2>1, <2>3 DEF Missing
<1>3. SpentOf(n)' + scenario'.lost <= SpentOf(n) + scenario.lost
  BY SpentTypes
<1>4. LossFits(n)'
  BY <1>2, <1>3, LossKept DEF CountersFit
<1> QED
  BY <1>1, <1>4 DEF CountersFit

LEMMA FitsArrive ==
  ASSUME RfTypeOK, RfTypeOK', NEW n \in Node, CountersFit(n), QueueFits(Peer(n))', NEW c \in Flying(n),
         Flying(n)' \subseteq Flying(n), Flying(n) \subseteq Flying(n)' \cup {c}, tx_counter'[n] = tx_counter[n],
         SpentOf(n)' + scenario'.lost <= SpentOf(n) + scenario.lost, Took(Peer(n))' = Took(Peer(n)) \cup {c}
  PROVE  CountersFit(n)'
<1>0. c \in Nat
  BY DEF Flying
<1>1. NotBehind(n)'
  BY DEF CountersFit, NotBehind
<1>2. Missing(n)' \subseteq Missing(n)
  <2> SUFFICES ASSUME NEW v \in Missing(n)' PROVE v \in Missing(n)
    OBVIOUS
  <2>1. v \in Nat /\ (v < tx_counter[n] \/ \E a \in Flying(n)' : v < a) /\ v \notin Flying(n)'
        /\ (\A r \in Took(Peer(n))' : r < v)
    BY DEF Missing
  <2>2. c < v
    BY <2>1
  <2>3. v # c
    BY <1>0, <2>1, <2>2
  <2> QED
    BY <2>1, <2>3 DEF Missing
<1>3. LossFits(n)'
  BY <1>2, LossKept DEF CountersFit
<1> QED
  BY <1>1, <1>3 DEF CountersFit

LEMMA FitsGivenUp ==
  ASSUME RfTypeOK, RfTypeOK', NEW n \in Node, CountersFit(n), QueueFits(Peer(n))', NEW c \in Flying(n),
         Flying(n)' \subseteq Flying(n), Flying(n) \subseteq Flying(n)' \cup {c}, tx_counter'[n] = tx_counter[n],
         SpentOf(n)' + scenario'.lost + Retries + 1 <= SpentOf(n) + scenario.lost, Took(Peer(n))' = Took(Peer(n))
  PROVE  CountersFit(n)'
<1>1. NotBehind(n)'
  BY DEF CountersFit, NotBehind
<1>2. Missing(n)' \subseteq Missing(n) \cup {c}
  BY DEF Missing
<1>3. LossFits(n)'
  BY <1>2, LossPaid DEF CountersFit
<1> QED
  BY <1>1, <1>3 DEF CountersFit

(* A frame that is sent arrives within reach of what was taken before. *)
LEMMA ArrivesInReach ==
  ASSUME RfTypeOK, NEW n \in Node, CountersFit(n), NEW c \in Flying(n), NEW a, NEW b,
         \A v \in Flying(n) : v = c \/ v = a \/ v = b
  PROVE  c < Window \/ \E s \in Took(Peer(n)) : c <= s + Window
<1> SUFFICES ASSUME ~(c < Window), ~(\E s \in Took(Peer(n)) : c <= s + Window)
             PROVE  FALSE
  OBVIOUS
<1>1. c \in Nat /\ Window \in Nat \ {0} /\ Window <= c /\ Took(Peer(n)) \subseteq Nat
  BY RfAssumption DEF Flying, Took
<1>2. IsFiniteSet(Missing(n)) /\ Cardinality(Missing(n)) \in Nat /\ Cardinality(Missing(n)) + 2 < Window
  BY FewMissing DEF CountersFit
<1>3. ASSUME NEW v \in Nat, c - Window <= v, v < c
      PROVE  v \in Missing(n) \/ v = a \/ v = b
  <2>1. \A s \in Took(Peer(n)) : s < v
    <3> SUFFICES ASSUME NEW s \in Took(Peer(n)) PROVE s < v
      OBVIOUS
    <3>1. s \in Nat /\ ~(c <= s + Window)
      BY <1>1
    <3> QED
      BY <1>1, <1>3, <3>1
  <2>2. v # c /\ \E w \in Flying(n) : v < w
    BY <1>1, <1>3
  <2> QED
    BY <2>1, <2>2 DEF Missing
<1>4. Window <= Cardinality(Missing(n)) + 2
  BY <1>1, <1>2, <1>3, ReachCounts
<1> QED
  BY <1>1, <1>2, <1>4

LEMMA TwoOthers ==
  ASSUME RfBase, NEW t \in Thread, t # "gwshell"
  PROVE  \E a, b : \A v \in Flying(NodeOf(t)) : v = snd[t].ctr \/ v = a \/ v = b
<1>1. \A u \in Thread : snd[u].at \in {"store", "try"} => u # "gwshell"
  BY DEF RfBase, SenderInv
<1>2. PICK x \in Thread, y \in Thread : \A u \in Thread : NodeOf(u) = NodeOf(t) /\ u # "gwshell" => u = t \/ u = x \/ u = y
  <2>1. CASE t = "work"
    <3>1. \A u \in Thread : NodeOf(u) = NodeOf(t) /\ u # "gwshell" => u = t \/ u = "heart" \/ u = "hrx"
      BY <2>1 DEF NodeOf, Thread
    <3>2. "heart" \in Thread /\ "hrx" \in Thread
      BY DEF Thread
    <3> QED
      BY <3>1, <3>2
  <2>2. CASE t = "heart"
    <3>1. \A u \in Thread : NodeOf(u) = NodeOf(t) /\ u # "gwshell" => u = t \/ u = "work" \/ u = "hrx"
      BY <2>2 DEF NodeOf, Thread
    <3>2. "work" \in Thread /\ "hrx" \in Thread
      BY DEF Thread
    <3> QED
      BY <3>1, <3>2
  <2>3. CASE t = "hrx"
    <3>1. \A u \in Thread : NodeOf(u) = NodeOf(t) /\ u # "gwshell" => u = t \/ u = "work" \/ u = "heart"
      BY <2>3 DEF NodeOf, Thread
    <3>2. "work" \in Thread /\ "heart" \in Thread
      BY DEF Thread
    <3> QED
      BY <3>1, <3>2
  <2>4. CASE t = "data"
    <3>1. \A u \in Thread : NodeOf(u) = NodeOf(t) /\ u # "gwshell" => u = t \/ u = "grx" \/ u = "shell"
      BY <2>4 DEF NodeOf, Thread
    <3>2. "grx" \in Thread /\ "shell" \in Thread
      BY DEF Thread
    <3> QED
      BY <3>1, <3>2
  <2>5. CASE t = "grx"
    <3>1. \A u \in Thread : NodeOf(u) = NodeOf(t) /\ u # "gwshell" => u = t \/ u = "data" \/ u = "shell"
      BY <2>5 DEF NodeOf, Thread
    <3>2. "data" \in Thread /\ "shell" \in Thread
      BY DEF Thread
    <3> QED
      BY <3>1, <3>2
  <2>6. CASE t = "shell"
    <3>1. \A u \in Thread : NodeOf(u) = NodeOf(t) /\ u # "gwshell" => u = t \/ u = "data" \/ u = "grx"
      BY <2>6 DEF NodeOf, Thread
    <3>2. "data" \in Thread /\ "grx" \in Thread
      BY DEF Thread
    <3> QED
      BY <3>1, <3>2
  <2> QED
    BY <2>1, <2>2, <2>3, <2>4, <2>5, <2>6 DEF Thread
<1>3. \A v \in Flying(NodeOf(t)) : v = snd[t].ctr \/ v = snd[x].ctr \/ v = snd[y].ctr
  BY <1>1, <1>2 DEF Flying
<1> QED
  BY <1>3

LEMMA SpentChange ==
  ASSUME RfTypeOK, RfTypeOK', NEW t \in Thread, t # "gwshell", \A u \in Thread : u # t => snd'[u] = snd[u]
  PROVE  SpentOf(NodeOf(t))' + Spent(t) = SpentOf(NodeOf(t)) + Spent(t)'
<1>1. \A u \in Thread : Spent(u) \in Nat
  BY SpentTypes
<1>2. \A u \in Thread : u # t => Spent(u)' = Spent(u)
  BY DEF Spent
<1>3. Spent(t)' \in Nat
  <2>1. snd'[t] \in SndRec
    BY DEF RfTypeOK, RadioType
  <2> QED
    BY <2>1 DEF SndRec, Spent
<1> HIDE DEF Spent
<1>4. {"work", "heart", "hrx", "data", "grx", "shell"} \subseteq Thread
  BY DEF Thread
<1>5. CASE t \in {"work", "heart", "hrx"}
  <2>1. NodeOf(t) = "H" /\ "H" = NodeOf(t)
    BY <1>5 DEF NodeOf
  <2>2. SpentOf(NodeOf(t)) = Spent("work") + Spent("heart") + Spent("hrx")
    BY <2>1 DEF SpentOf
  <2>3. SpentOf(NodeOf(t))' = Spent("work")' + Spent("heart")' + Spent("hrx")'
    BY <2>1 DEF SpentOf
  <2>4. CASE t = "work"
    BY <1>1, <1>2, <1>3, <1>4, <2>2, <2>3, <2>4
  <2>5. CASE t = "heart"
    BY <1>1, <1>2, <1>3, <1>4, <2>2, <2>3, <2>5
  <2>6. CASE t = "hrx"
    BY <1>1, <1>2, <1>3, <1>4, <2>2, <2>3, <2>6
  <2> QED
    BY <1>5, <2>4, <2>5, <2>6
<1>6. CASE t \in {"data", "grx", "shell"}
  <2>1. NodeOf(t) # "H"
    BY <1>6 DEF NodeOf
  <2>2. SpentOf(NodeOf(t)) = Spent("data") + Spent("grx") + Spent("shell")
    BY <2>1 DEF SpentOf
  <2>3. SpentOf(NodeOf(t))' = Spent("data")' + Spent("grx")' + Spent("shell")'
    BY <2>1 DEF SpentOf
  <2>4. CASE t = "data"
    BY <1>1, <1>2, <1>3, <1>4, <2>2, <2>3, <2>4
  <2>5. CASE t = "grx"
    BY <1>1, <1>2, <1>3, <1>4, <2>2, <2>3, <2>5
  <2>6. CASE t = "shell"
    BY <1>1, <1>2, <1>3, <1>4, <2>2, <2>3, <2>6
  <2> QED
    BY <1>6, <2>4, <2>5, <2>6
<1> QED
  BY <1>5, <1>6 DEF Thread

(* What the queue of m is when the frame of t arrives there. *)
LEMMA QueueArrive ==
  ASSUME RfBase, NEW t \in Thread, snd[t].at = "try", CountersFit(NodeOf(t)), NEW m, m = Peer(NodeOf(t)),
         rf24_rx_msgq'[m] = Append(rf24_rx_msgq[m], FrameOf(t)), rx_counter'[m] = rx_counter[m],
         rx_initialized'[m] = rx_initialized[m]
  PROVE  Took(m)' = Took(m) \cup {snd[t].ctr} /\ QueueFits(m)'
<1> DEFINE q == rf24_rx_msgq[m]
           f == FrameOf(t)
           n == NodeOf(t)
           c == snd[t].ctr
<1>1. q \in Seq(Air) /\ m \in Node /\ n \in Node /\ c \in Nat /\ t # "gwshell"
  <2>1. m \in Node /\ n \in Node
    BY NodesTyped
  <2>2. snd[t] \in SndRec /\ q \in Seq(Air)
    BY <2>1 DEF RfBase, RfTypeOK, RadioType
  <2>3. t # "gwshell"
    BY DEF RfBase, SenderInv
  <2> QED
    BY <2>1, <2>2, <2>3 DEF SndRec
<1>2. f.ctr = c
  BY DEF FrameOf
<1>3. c \in Flying(n)
  BY <1>1 DEF Flying
<1>4. Len(rf24_rx_msgq'[m]) = Len(q) + 1 /\ rf24_rx_msgq'[m][Len(q) + 1] = f
      /\ (\A i \in 1..Len(q) : rf24_rx_msgq'[m][i] = q[i]) /\ Len(q) \in Nat
  <2> HIDE DEF f, q
  <2>1. rf24_rx_msgq'[m] = Append(q, f)
    BY DEF q, f
  <2> QED
    BY <1>1, <2>1
<1>5. Took(m)' = Took(m) \cup {c}
  <2>1. ASSUME NEW s \in Nat
        PROVE  (\E j \in 1..(Len(q) + 1) : rf24_rx_msgq'[m][j].ctr = s)
                 <=> (\E j \in 1..Len(q) : q[j].ctr = s) \/ s = c
    <3>1. ASSUME NEW j \in 1..(Len(q) + 1), rf24_rx_msgq'[m][j].ctr = s
          PROVE  (\E k \in 1..Len(q) : q[k].ctr = s) \/ s = c
      <4>1. j \in 1..Len(q) \/ j = Len(q) + 1
        BY <1>4
      <4> QED
        BY <1>2, <1>4, <3>1, <4>1
    <3>2. ASSUME NEW j \in 1..Len(q), q[j].ctr = s
          PROVE  \E k \in 1..(Len(q) + 1) : rf24_rx_msgq'[m][k].ctr = s
      <4>1. j \in 1..(Len(q) + 1) /\ rf24_rx_msgq'[m][j].ctr = s
        BY <1>4, <3>2
      <4> QED
        BY <4>1
    <3>3. s = c => \E k \in 1..(Len(q) + 1) : rf24_rx_msgq'[m][k].ctr = s
      <4>1. Len(q) + 1 \in 1..(Len(q) + 1)
        BY <1>4
      <4> QED
        BY <1>2, <1>4, <4>1
    <3> QED
      BY <3>1, <3>2, <3>3
  <2> QED
    BY <1>1, <1>4, <2>1, ZenonT(40) DEF Took
<1>6. ASSUME NEW i \in 1..(Len(q) + 1) PROVE InReach(m, i)'
  <2>1. CASE i \in 1..Len(q)
    <3>1. \A j \in 1..(i - 1) : rf24_rx_msgq'[m][j] = q[j]
      BY <1>4, <2>1
    <3>2. TookBefore(m, i)' = TookBefore(m, i)
      BY <3>1 DEF TookBefore
    <3>3. rf24_rx_msgq'[m][i] = q[i]
      BY <1>4, <2>1
    <3>4. InReach(m, i)
      BY <2>1 DEF CountersFit, QueueFits
    <3> QED
      BY <3>2, <3>3, <3>4 DEF InReach
  <2>2. CASE i = Len(q) + 1
    <3>1. (i - 1) = Len(q) /\ \A j \in 1..(i - 1) : rf24_rx_msgq'[m][j] = q[j]
      BY <1>4, <2>2
    <3>2. TookBefore(m, i)' = Took(m)
      BY <3>1 DEF TookBefore, Took
    <3>3. \A s \in Took(m) : s + Window < c + Low
      BY <1>3 DEF CountersFit, NotBehind
    <3>4. c < Window \/ \E s \in Took(m) : c <= s + Window
      <4>1. PICK a, b : \A v \in Flying(n) : v = c \/ v = a \/ v = b
        BY <1>1, TwoOthers
      <4> QED
        BY <1>1, <1>3, <4>1, ArrivesInReach DEF RfBase
    <3>5. rf24_rx_msgq'[m][i].ctr = c
      BY <1>2, <1>4, <2>2
    <3> QED
      BY <3>2, <3>3, <3>4, <3>5 DEF InReach
  <2> QED
    BY <1>4, <2>1, <2>2
<1>7. QueueFits(m)'
  BY <1>4, <1>6 DEF QueueFits
<1> QED
  BY <1>5, <1>7

(* A frame is opened with its own counter, and only if that is new. *)
LEMMA HeadOpens ==
  ASSUME RfBase, NEW m \in Node, scenario.crypt, QueueFits(m), rf24_rx_msgq[m] # <<>>, NEW f, f = Head(rf24_rx_msgq[m])
  PROVE  /\ f = rf24_rx_msgq[m][1] /\ f.ctr \in Nat
         /\ Opens(m, f) => (rx_initialized[m] => rx_counter[m] < f.ctr) /\ Inferred(m, f.ctr % Low) = f.ctr
         /\ ~Opens(m, f) => rx_initialized[m] /\ f.ctr <= rx_counter[m]
<1> DEFINE c == f.ctr
           r == rx_counter[m]
<1>1. rf24_rx_msgq[m] \in Seq(Air) /\ r \in Nat /\ rx_initialized[m] \in BOOLEAN
  BY DEF RfBase, RfTypeOK, RadioType
<1>2. f = rf24_rx_msgq[m][1] /\ f \in Air /\ 1 \in 1..Len(rf24_rx_msgq[m])
  BY <1>1
<1>3. c \in Nat
  BY <1>2 DEF Air
<1>4. Low \in Nat \ {0} /\ Window \in Nat \ {0} /\ Window < Low
  BY RfAssumption
<1>5. InReach(m, 1)
  BY <1>2 DEF QueueFits
<1>6. \A s \in TookBefore(m, 1) : rx_initialized[m] /\ s = r
  <2>1. 1..(1 - 1) = {}
    OBVIOUS
  <2> QED
    BY <2>1 DEF TookBefore
<1>7. rx_initialized[m] => r \in TookBefore(m, 1)
  BY <1>1 DEF TookBefore
<1>8. rx_initialized[m] => r + Window < c + Low
  BY <1>2, <1>5, <1>7 DEF InReach
<1>9. c < Window \/ (rx_initialized[m] /\ c <= r + Window)
  BY <1>2, <1>5, <1>6 DEF InReach
<1>10. Opens(m, f) <=> ~rx_initialized[m] \/ ((c % Low) + Low - (r % Low)) % Low \in 1..Window
  BY DEF Opens, InWindow, Diff
<1> HIDE DEF c, r
<1>11. CASE ~rx_initialized[m]
  <2>1. c % Low = c
    <3>1. c \in 0..(2 * Low - 1) /\ c < Low
      BY <1>3, <1>4, <1>9, <1>11
    <3> QED
      BY <1>4, <3>1, ModOnce
  <2>2. Inferred(m, c % Low) = c
    BY <1>11, <2>1 DEF Inferred
  <2> QED
    BY <1>2, <1>3, <1>10, <1>11, <2>2 DEF c
<1>12. CASE rx_initialized[m]
  <2>1. r + Window < c + Low /\ c <= r + Window
    BY <1>1, <1>3, <1>4, <1>8, <1>9, <1>12 DEF r
  <2>2. r \in Nat
    BY <1>1
  <2>3. /\ ((c % Low) + Low - (r % Low)) % Low \in 1..Window <=> r < c
        /\ r < c => (r \div Low) * Low + (c % Low) + (IF (c % Low) < (r % Low) THEN Low ELSE 0) = c
    BY <1>3, <1>4, <2>1, <2>2, WindowMath
  <2>4. r < c => Inferred(m, c % Low) = c
    BY <1>12, <2>3 DEF Inferred, r
  <2>5. ~(r < c) => c <= r
    BY <1>3, <2>2
  <2> QED
    BY <1>2, <1>3, <1>10, <1>12, <2>3, <2>4, <2>5 DEF c, r
<1> QED
  BY <1>11, <1>12

LEMMA PopFits ==
  ASSUME RfBase, NEW m \in Node, rf24_rx_msgq[m] # <<>>, rf24_rx_msgq' = [rf24_rx_msgq EXCEPT ![m] = Tail(@)], QueueFits(m),
         rx_initialized'[m], NEW h \in Nat, rx_counter'[m] = h,
         h = rf24_rx_msgq[m][1].ctr \/ (rx_initialized[m] /\ h = rx_counter[m]),
         rf24_rx_msgq[m][1].ctr <= h, rx_initialized[m] => rx_counter[m] <= h
  PROVE  /\ Took(m)' \subseteq Took(m) /\ (\A s \in Took(m) : \E r \in Took(m)' : s <= r)
         /\ QueueFits(m)'
<1> DEFINE q == rf24_rx_msgq[m]
<1>1. /\ Len(q) \in Nat \ {0} /\ Len(rf24_rx_msgq'[m]) = Len(q) - 1
      /\ \A i \in 1..(Len(q) - 1) : rf24_rx_msgq'[m][i] = q[i + 1]
  BY TailTyped DEF RfBase
<1>2. h \in Took(m)'
  BY DEF Took
<1>3. ASSUME NEW s \in Took(m)' PROVE s \in Took(m)
  <2>1. s \in Nat /\ (h = s \/ \E j \in 1..(Len(q) - 1) : rf24_rx_msgq'[m][j].ctr = s)
    BY <1>1, <1>3 DEF Took
  <2>2. CASE h = s
    <3>1. 1 \in 1..Len(q)
      BY <1>1
    <3> QED
      BY <2>1, <2>2, <3>1 DEF Took
  <2>3. ASSUME NEW j \in 1..(Len(q) - 1), rf24_rx_msgq'[m][j].ctr = s PROVE s \in Took(m)
    <3>1. j + 1 \in 1..Len(q) /\ q[j + 1].ctr = s
      BY <1>1, <2>3
    <3> QED
      BY <2>1, <3>1 DEF Took
  <2> QED
    BY <2>1, <2>2, <2>3
<1>4. ASSUME NEW s \in Took(m) PROVE \E r \in Took(m)' : s <= r
  <2>1. s \in Nat /\ ((rx_initialized[m] /\ rx_counter[m] = s) \/ \E j \in 1..Len(q) : q[j].ctr = s)
    BY <1>4 DEF Took
  <2>2. CASE rx_initialized[m] /\ rx_counter[m] = s
    BY <1>2, <2>2
  <2>3. ASSUME NEW j \in 1..Len(q), q[j].ctr = s PROVE \E r \in Took(m)' : s <= r
    <3>1. CASE j = 1
      BY <1>2, <2>3, <3>1
    <3>2. CASE j # 1
      <4>1. j - 1 \in 1..(Len(q) - 1) /\ (j - 1) + 1 = j
        BY <1>1, <3>2
      <4>2. rf24_rx_msgq'[m][j - 1].ctr = s
        BY <1>1, <2>3, <4>1
      <4>3. s \in Took(m)'
        BY <1>1, <2>1, <4>1, <4>2 DEF Took
      <4> QED
        BY <2>1, <4>3
    <3> QED
      BY <3>1, <3>2
  <2> QED
    BY <2>1, <2>2, <2>3
<1>5. ASSUME NEW i \in 1..(Len(q) - 1) PROVE InReach(m, i)'
  <2>1. i + 1 \in 1..Len(q) /\ (i + 1) - 1 = i /\ rf24_rx_msgq'[m][i] = q[i + 1] /\ i \in Nat
    BY <1>1
  <2>2. InReach(m, i + 1)
    BY <2>1 DEF QueueFits
  <2>3. ASSUME NEW s \in TookBefore(m, i)' PROVE s \in TookBefore(m, i + 1)
    <3>1. s \in Nat /\ (h = s \/ \E j \in 1..(i - 1) : rf24_rx_msgq'[m][j].ctr = s)
      BY <2>3 DEF TookBefore
    <3>2. CASE h = s
      <4>1. 1 \in 1..((i + 1) - 1)
        BY <2>1
      <4> QED
        BY <3>1, <3>2, <4>1 DEF TookBefore
    <3>3. ASSUME NEW j \in 1..(i - 1), rf24_rx_msgq'[m][j].ctr = s PROVE s \in TookBefore(m, i + 1)
      <4>0. j \in Nat /\ 1 <= j /\ j <= i - 1 /\ i \in Nat /\ i <= Len(q) - 1 /\ Len(q) \in Nat
        BY <1>1, <2>1
      <4>1. j + 1 \in 1..((i + 1) - 1) /\ j \in 1..(Len(q) - 1)
        BY <4>0
      <4>2. q[j + 1].ctr = s
        BY <1>1, <3>3, <4>1
      <4> QED
        BY <3>1, <4>1, <4>2 DEF TookBefore
    <3> QED
      BY <3>1, <3>2, <3>3
  <2>4. ASSUME NEW s \in TookBefore(m, i + 1) PROVE \E r \in TookBefore(m, i)' : s <= r
    <3>1. s \in Nat /\ ((rx_initialized[m] /\ rx_counter[m] = s) \/ \E j \in 1..((i + 1) - 1) : q[j].ctr = s)
      BY <2>4 DEF TookBefore
    <3>2. h \in TookBefore(m, i)'
      BY DEF TookBefore
    <3>3. CASE rx_initialized[m] /\ rx_counter[m] = s
      BY <3>2, <3>3
    <3>4. ASSUME NEW j \in 1..((i + 1) - 1), q[j].ctr = s PROVE \E r \in TookBefore(m, i)' : s <= r
      <4>1. CASE j = 1
        BY <3>2, <3>4, <4>1
      <4>2. CASE j # 1
        <5>0. j \in Nat /\ 1 < j /\ j <= i /\ i \in Nat /\ i <= Len(q) - 1 /\ Len(q) \in Nat
          BY <1>1, <2>1, <4>2
        <5>1. j - 1 \in 1..(i - 1) /\ j - 1 \in 1..(Len(q) - 1) /\ (j - 1) + 1 = j
          BY <5>0
        <5>2. rf24_rx_msgq'[m][j - 1].ctr = s
          BY <1>1, <3>4, <5>1
        <5>3. s \in TookBefore(m, i)'
          BY <3>1, <5>1, <5>2 DEF TookBefore
        <5> QED
          BY <3>1, <5>3
      <4> QED
        BY <4>1, <4>2
    <3> QED
      BY <3>1, <3>3, <3>4
  <2>5. \A s \in TookBefore(m, i)' : s + Window < q[i + 1].ctr + Low
    BY <2>2, <2>3 DEF InReach
  <2>6. q[i + 1].ctr < Window \/ \E r \in TookBefore(m, i)' : q[i + 1].ctr <= r + Window
    <3>1. CASE q[i + 1].ctr < Window
      BY <3>1
    <3>2. ASSUME NEW s \in TookBefore(m, i + 1), q[i + 1].ctr <= s + Window
          PROVE  \E r \in TookBefore(m, i)' : q[i + 1].ctr <= r + Window
      <4>1. PICK r \in TookBefore(m, i)' : s <= r
        BY <2>4
      <4>2. r \in Nat /\ s \in Nat /\ Window \in Nat
        BY RfAssumption DEF TookBefore
      <4>3. q[i + 1].ctr \in Nat
        <5>1. q \in Seq(Air)
          BY DEF RfBase, RfTypeOK, RadioType
        <5>2. q[i + 1] \in Air
          BY <2>1, <5>1
        <5> QED
          BY <5>2 DEF Air
      <4>4. q[i + 1].ctr <= r + Window
        BY <3>2, <4>1, <4>2, <4>3
      <4> QED
        BY <4>4
    <3> QED
      BY <2>2, <3>1, <3>2 DEF InReach
  <2> QED
    BY <2>1, <2>5, <2>6 DEF InReach
<1>6. QueueFits(m)'
  BY <1>1, <1>5 DEF QueueFits
<1> QED
  BY <1>3, <1>4, <1>6

(* The receiver takes the head: it opens it with its own counter or        *)
(* rejects it as old.                                                      *)
LEMMA RxFits ==
  ASSUME RfBase, NEW m \in Node, scenario.crypt, QueueFits(m), Rx(m) \/ RxRejects(m)
  PROVE  /\ Took(m)' \subseteq Took(m) /\ (\A s \in Took(m) : \E r \in Took(m)' : s <= r)
         /\ QueueFits(m)' /\ misread' = misread
         /\ \A k \in Node : k # m => rf24_rx_msgq'[k] = rf24_rx_msgq[k] /\ rx_counter'[k] = rx_counter[k]
                                     /\ rx_initialized'[k] = rx_initialized[k]
<1> DEFINE f == Head(rf24_rx_msgq[m])
<1>1. rf24_rx_msgq[m] # <<>> /\ rf24_rx_msgq' = [rf24_rx_msgq EXCEPT ![m] = Tail(@)]
  BY DEF Rx, RxRejects, RxQuiet
<1>2. rf24_rx_msgq \in [Node -> Seq(Air)] /\ rx_counter \in [Node -> Nat] /\ rx_initialized \in [Node -> BOOLEAN]
      /\ misread \in BOOLEAN
  BY DEF RfBase, RfTypeOK, RadioType
<1>3. /\ f = rf24_rx_msgq[m][1] /\ f.ctr \in Nat
      /\ Opens(m, f) => (rx_initialized[m] => rx_counter[m] < f.ctr) /\ Inferred(m, f.ctr % Low) = f.ctr
      /\ ~Opens(m, f) => rx_initialized[m] /\ f.ctr <= rx_counter[m]
  BY <1>1, HeadOpens
<1>4. CASE Rx(m)
  <2>1. Opens(m, f) /\ Opened(m, f)
    BY <1>4 DEF Rx
  <2>2. rx_counter' = [rx_counter EXCEPT ![m] = f.ctr] /\ rx_initialized' = [rx_initialized EXCEPT ![m] = TRUE]
        /\ misread' = misread
    BY <1>2, <1>3, <2>1 DEF Opened
  <2>3. rx_counter'[m] = f.ctr /\ rx_initialized'[m] /\ (rx_initialized[m] => rx_counter[m] <= f.ctr) /\ f.ctr <= f.ctr
    BY <1>2, <1>3, <2>1, <2>2
  <2>4. /\ Took(m)' \subseteq Took(m) /\ (\A s \in Took(m) : \E r \in Took(m)' : s <= r)
        /\ QueueFits(m)'
    BY <1>1, <1>3, <2>3, PopFits
  <2> QED
    BY <1>1, <1>2, <2>2, <2>4
<1>5. CASE RxRejects(m)
  <2>1. ~Opens(m, f) /\ rx_counter' = rx_counter /\ rx_initialized' = rx_initialized /\ misread' = misread
    BY <1>5 DEF RxRejects, cryptVars
  <2>2. rx_counter[m] \in Nat /\ rx_initialized[m] /\ f.ctr <= rx_counter[m] /\ rx_counter[m] <= rx_counter[m]
    BY <1>2, <1>3, <2>1
  <2>3. /\ Took(m)' \subseteq Took(m) /\ (\A s \in Took(m) : \E r \in Took(m)' : s <= r)
        /\ QueueFits(m)'
    <3>1. f.ctr = rf24_rx_msgq[m][1].ctr
      BY <1>3
    <3> QED
      BY <1>1, <2>1, <2>2, <3>1, PopFits
  <2> QED
    BY <1>1, <1>2, <2>1, <2>3
<1> QED
  BY <1>4, <1>5

(* The thread has the same on the air, or nothing. *)
SameOnAir(u) ==
  /\ snd'[u].at \in {"store", "try"} <=> snd[u].at \in {"store", "try"}
  /\ snd[u].at \in {"store", "try"} => snd'[u].ctr = snd[u].ctr
  /\ Spent(u)' = Spent(u)

LEMMA StartsQuietly ==
  ASSUME scenario.crypt, NEW t \in Thread, NEW no, Starts(t, no)
  PROVE  \A u \in Thread : SameOnAir(u)
BY DEF SameOnAir, Starts, Spent

LEMMA QuietFits ==
  ASSUME RfBase, RfBase', NEW n \in Node, CountersFit(n), \A u \in Thread : NodeOf(u) = n => SameOnAir(u),
         tx_counter'[n] = tx_counter[n], scenario'.lost <= scenario.lost,
         rf24_rx_msgq'[Peer(n)] = rf24_rx_msgq[Peer(n)], rx_counter'[Peer(n)] = rx_counter[Peer(n)],
         rx_initialized'[Peer(n)] = rx_initialized[Peer(n)]
  PROVE  CountersFit(n)'
<1>1. Flying(n)' = Flying(n) /\ SpentOf(n)' = SpentOf(n)
  BY FlyingSame DEF SameOnAir
<1>2. Peer(n) \in Node
  BY NodesTyped
<1>3. Took(Peer(n))' = Took(Peer(n)) /\ QueueFits(Peer(n))'
  BY <1>2, TookSame DEF CountersFit
<1>4. \A s \in Took(Peer(n)) : \E r \in Took(Peer(n))' : s <= r
  BY <1>3 DEF Took
<1>5. SpentOf(n)' + scenario'.lost <= SpentOf(n) + scenario.lost
  BY <1>1, SpentTypes, SpentTypesNext DEF RfBase
<1> QED
  BY <1>1, <1>3, <1>4, <1>5, FitsKept DEF RfBase

LEMMA LoadFits ==
  ASSUME RfBase, RfBase', NEW t \in Thread, SealLoad(t), NEW n \in Node, CountersFit(n)
  PROVE  CountersFit(n)'
<1>1. UNCHANGED <<scenario, tx_counter, rx_counter, rx_initialized, rf24_rx_msgq>>
  BY DEF SealLoad, SealOnly
<1>2. snd'[t].at = "store" /\ snd'[t].ctr = tx_counter[NodeOf(t)] /\ snd[t].at = "seal"
      /\ \A u \in Thread : u # t => snd'[u] = snd[u]
  BY SealLoadTyped DEF RfBase, SealLoad
<1>3. \A u \in Thread : u # t => SameOnAir(u)
  BY <1>2 DEF SameOnAir, Spent
<1>4. scenario.lost \in Nat /\ Peer(n) \in Node
  BY SpentTypes, NodesTyped DEF RfBase
<1>5. CASE n # NodeOf(t)
  BY <1>1, <1>3, <1>4, <1>5, QuietFits
<1>6. CASE n = NodeOf(t)
  <2>1. tx_counter[n] \in Nat
    BY DEF RfBase, RfTypeOK, RadioType
  <2>2. Flying(n)' = Flying(n) \cup {tx_counter[n]}
    BY <1>2, <1>6, <2>1 DEF Flying
  <2>3. \A u \in Thread : Spent(u)' = Spent(u)
    BY <1>2 DEF Spent
  <2>4. SpentOf(n)' = SpentOf(n)
    BY <2>3 DEF SpentOf, Thread
  <2>5. Took(Peer(n))' = Took(Peer(n)) /\ QueueFits(Peer(n))'
    BY <1>1, <1>4, TookSame DEF CountersFit
  <2>6. \A a \in Flying(n) : tx_counter[n] + Window < a + Low
    <3> SUFFICES ASSUME NEW a \in Flying(n) PROVE tx_counter[n] + Window < a + Low
      OBVIOUS
    <3>1. PICK u \in Thread : NodeOf(u) = n /\ snd[u].at \in {"store", "try"} /\ snd[u].ctr = a
      BY DEF Flying
    <3>2. tx_counter[n] < a + Low - Window
      BY <1>6, <3>1 DEF SealLoad, RetriesAreShort
    <3> QED
      BY <2>1, <3>2, RfAssumption DEF Flying
  <2> QED
    BY <1>1, <2>2, <2>4, <2>5, <2>6, FitsLoad DEF RfBase
<1> QED
  BY <1>5, <1>6

LEMMA StoreFits ==
  ASSUME RfBase, RfBase', NEW t \in Thread, SealStore(t), NEW n \in Node, CountersFit(n)
  PROVE  CountersFit(n)'
<1>1. UNCHANGED <<scenario, rx_counter, rx_initialized, rf24_rx_msgq>>
  BY DEF SealStore, SealOnly
<1>2. snd'[t].at = "try" /\ snd'[t].ctr = snd[t].ctr /\ snd[t].at = "store" /\ snd'[t].tries = snd[t].tries
      /\ (\A u \in Thread : u # t => snd'[u] = snd[u]) /\ tx_counter'[NodeOf(t)] = snd[t].ctr + 1
      /\ (\A k \in Node : k # NodeOf(t) => tx_counter'[k] = tx_counter[k])
  BY SealStoreTyped DEF RfBase, SealStore
<1>3. snd[t].tries = 0 /\ snd[t].ctr \in Nat
  <2>1. snd[t] \in SndRec
    BY DEF RfBase, RfTypeOK, RadioType
  <2> QED
    BY <1>2, <2>1 DEF RfBase, SenderInv, SndRec
<1>4. \A u \in Thread : SameOnAir(u)
  BY <1>2, <1>3 DEF SameOnAir, Spent
<1>5. scenario.lost \in Nat /\ Peer(n) \in Node
  BY SpentTypes, NodesTyped DEF RfBase
<1>6. CASE n # NodeOf(t)
  BY <1>1, <1>2, <1>4, <1>5, <1>6, QuietFits
<1>7. CASE n = NodeOf(t)
  <2>1. Flying(n)' = Flying(n) /\ SpentOf(n)' = SpentOf(n)
    BY <1>4, FlyingSame DEF SameOnAir
  <2>2. snd[t].ctr \in Flying(n)
    BY <1>2, <1>3, <1>7 DEF Flying
  <2>3. Took(Peer(n))' = Took(Peer(n)) /\ QueueFits(Peer(n))'
    BY <1>1, <1>5, TookSame DEF CountersFit
  <2> QED
    BY <1>1, <1>2, <1>7, <2>1, <2>2, <2>3, FitsStore DEF RfBase
<1> QED
  BY <1>6, <1>7

LEMMA AttemptFits ==
  ASSUME RfBase, RfBase', NEW t \in Thread, Attempt(t), ~broken', NEW n \in Node, CountersFit(n)
  PROVE  CountersFit(n)'
<1> DEFINE c == snd[t].ctr
           m == Peer(NodeOf(t))
<1>1. UNCHANGED <<tx_counter, rx_counter, rx_initialized>>
  BY DEF Attempt, cryptVars
<1>2. /\ snd[t].at = "try" /\ snd'[t].ctr = c
      /\ \A u \in Thread : u # t => snd'[u] = snd[u]
      /\ \/ Acked(t) /\ Arrives(m, FrameOf(t))
         \/ (Retried(t) \/ GaveUp(t)) /\ (Arrives(m, FrameOf(t)) \/ Missed)
  BY AttemptTyped DEF RfBase
<1>3. scenario.lost \in Nat /\ scenario'.lost \in Nat /\ Peer(n) \in Node /\ m \in Node /\ Peer(m) = NodeOf(t) /\ NodeOf(t) \in Node
      /\ c \in Nat /\ snd[t].tries \in Nat /\ Retries \in Nat /\ t # "gwshell"
  <2>1. snd[t] \in SndRec
    BY DEF RfBase, RfTypeOK, RadioType
  <2>2. t # "gwshell"
    BY <1>2 DEF RfBase, SenderInv
  <2> QED
    BY <2>1, <2>2, SpentTypes, SpentTypesNext, NodesTyped, RfAssumption DEF RfBase, SndRec
<1>4. scenario'.lost <= scenario.lost
  BY <1>2, <1>3 DEF Acked, Retried, GaveUp
<1>5. \A u \in Thread : u # t => SameOnAir(u)
  BY <1>2 DEF SameOnAir, Spent
<1>6. \A k \in Node : k # m => rf24_rx_msgq'[k] = rf24_rx_msgq[k]
  BY <1>2 DEF Arrives, Missed
<1>7. CASE n # NodeOf(t)
  <2>1. Peer(n) # m
    BY <1>7 DEF Peer, Node, NodeOf
  <2> QED
    BY <1>1, <1>3, <1>4, <1>5, <1>6, <1>7, <2>1, QuietFits
<1>8. CASE n = NodeOf(t)
  <2>1. c \in Flying(n)
    BY <1>2, <1>3, <1>8 DEF Flying
  <2>2. Flying(n)' \subseteq Flying(n) /\ Flying(n) \subseteq Flying(n)' \cup {c}
    BY <1>2, <1>8, <2>1 DEF Flying
  <2>3. SpentOf(n)' + Spent(t) = SpentOf(n) + Spent(t)' /\ Spent(t) = snd[t].tries /\ SpentOf(n) \in Nat /\ SpentOf(n)' \in Nat
    <3>1. SpentOf(NodeOf(t))' + Spent(t) = SpentOf(NodeOf(t)) + Spent(t)'
      BY <1>2, <1>3, SpentChange DEF RfBase
    <3> QED
      BY <1>2, <1>8, <3>1, SpentTypes, SpentTypesNext DEF RfBase, Spent
  <2>4. /\ Acked(t) => Spent(t)' = 0 /\ scenario'.lost = scenario.lost
        /\ Retried(t) => Spent(t)' = snd[t].tries + 1 /\ scenario'.lost + 1 = scenario.lost
        /\ GaveUp(t) => Spent(t)' = 0 /\ scenario'.lost + 1 = scenario.lost /\ snd[t].tries = Retries
    BY DEF Acked, Retried, GaveUp, Spent
  <2>5. SpentOf(n)' + scenario'.lost <= SpentOf(n) + scenario.lost
    <3>1. Spent(t)' \in Nat
      BY <1>2, <1>3, <2>4
    <3> QED
      BY <1>2, <1>3, <2>3, <2>4, <3>1
  <2>6. CASE Arrives(m, FrameOf(t))
    <3>1. rf24_rx_msgq'[m] = Append(rf24_rx_msgq[m], FrameOf(t))
      BY <2>6 DEF Arrives
    <3>2. Took(m)' = Took(m) \cup {c} /\ QueueFits(m)'
      BY <1>1, <1>2, <1>8, <3>1, QueueArrive
    <3> QED
      BY <1>1, <1>8, <2>1, <2>2, <2>5, <3>2, FitsArrive DEF RfBase
  <2>7. CASE Missed
    <3>1. Took(m)' = Took(m) /\ QueueFits(m)'
      <4>1. QueueFits(m)
        BY <1>8 DEF CountersFit
      <4> QED
        BY <1>1, <1>3, <2>7, <4>1, TookSame DEF Missed
    <3>2. CASE Retried(t)
      <4>1. Flying(n)' = Flying(n)
        BY <1>2, <2>1, <2>2, <3>2, <1>8 DEF Retried, Flying
      <4>2. \A s \in Took(m) : \E r \in Took(m)' : s <= r
        BY <3>1 DEF Took
      <4> QED
        BY <1>1, <1>8, <2>5, <3>1, <4>1, <4>2, FitsKept DEF RfBase
    <3>3. CASE GaveUp(t)
      <4>1. SpentOf(n)' + scenario'.lost + Retries + 1 <= SpentOf(n) + scenario.lost
        BY <1>3, <2>3, <2>4, <3>3
      <4> QED
        BY <1>1, <1>8, <2>1, <2>2, <3>1, <4>1, FitsGivenUp DEF RfBase
    <3>4. CASE Acked(t)
      <4>1. Arrives(m, FrameOf(t))
        BY <1>2, <3>4 DEF Acked, Retried, GaveUp
      <4> QED
        BY <2>6, <4>1
    <3> QED
      BY <1>2, <3>2, <3>3, <3>4
  <2> QED
    BY <1>2, <2>6, <2>7
<1> QED
  BY <1>7, <1>8

LEMMA TakeFits ==
  ASSUME RfBase, RfBase', scenario.crypt, NEW k \in Node, Rx(k) \/ RxRejects(k), CounterInv, ~broken, NEW n \in Node
  PROVE  CountersFit(n)' /\ misread' = misread
<1>1. UNCHANGED <<scenario, tx_counter>>
  BY DEF Rx, RxRejects, cryptVars
<1>2. \A j \in Node : CountersFit(j)
  BY DEF CounterInv
<1>3. Peer(k) \in Node /\ Peer(Peer(k)) = k /\ Peer(n) \in Node /\ Peer(Peer(n)) = n
  BY NodesTyped
<1>4. QueueFits(k)
  BY <1>2, <1>3 DEF CountersFit
<1>5. /\ Took(k)' \subseteq Took(k) /\ (\A s \in Took(k) : \E r \in Took(k)' : s <= r)
      /\ QueueFits(k)' /\ misread' = misread
      /\ \A j \in Node : j # k => rf24_rx_msgq'[j] = rf24_rx_msgq[j] /\ rx_counter'[j] = rx_counter[j]
                                  /\ rx_initialized'[j] = rx_initialized[j]
  BY <1>4, RxFits
<1>6. \A u \in Thread : SameOnAir(u)
  <2>1. CASE Rx(k)
    <3>1. snd' = snd \/ Starts(RxThread(k), Head(rf24_rx_msgq[k]).no)
      BY <2>1, RxTyped DEF RfBase
    <3>2. RxThread(k) \in Thread
      BY NodesTyped
    <3>3. CASE snd' = snd
      BY <3>3 DEF SameOnAir, Spent
    <3> QED
      BY <3>1, <3>2, <3>3, StartsQuietly
  <2>2. CASE RxRejects(k)
    BY <2>2 DEF RxRejects, SameOnAir, Spent
  <2> QED
    BY <2>1, <2>2
<1>7. scenario.lost \in Nat
  BY SpentTypes DEF RfBase
<1>8. CASE Peer(n) # k
  BY <1>1, <1>2, <1>3, <1>5, <1>6, <1>7, <1>8, QuietFits
<1>9. CASE Peer(n) = k
  <2>1. Flying(n)' = Flying(n) /\ SpentOf(n)' = SpentOf(n)
    BY <1>6, FlyingSame DEF SameOnAir
  <2>2. SpentOf(n)' + scenario'.lost <= SpentOf(n) + scenario.lost
    BY <1>1, <2>1, SpentTypes DEF RfBase
  <2> QED
    BY <1>1, <1>2, <1>5, <1>9, <2>1, <2>2, FitsKept DEF RfBase
<1> QED
  BY <1>5, <1>8, <1>9

LEMMA CounterInit ==
  ASSUME RfInit
  PROVE  CounterInv /\ misread = FALSE
<1> SUFFICES ASSUME scenario.crypt, NEW n \in Node PROVE CountersFit(n)
  BY DEF CounterInv, RfInit
<1>1. \A t \in Thread : snd[t].at = "idle"
  BY DEF RfInit, Quiet
<1>2. Flying(n) = {}
  BY <1>1 DEF Flying
<1>3. Peer(n) \in Node
  BY NodesTyped
<1>4. rf24_rx_msgq[Peer(n)] = <<>> /\ ~rx_initialized[Peer(n)] /\ tx_counter[n] = 0
  BY <1>3 DEF RfInit
<1>5. Took(Peer(n)) = {}
  BY <1>4 DEF Took
<1>6. NotBehind(n) /\ QueueFits(Peer(n))
  BY <1>2, <1>4, <1>5 DEF NotBehind, QueueFits
<1>7. Missing(n) = {}
  BY <1>2, <1>4, <1>5 DEF Missing
<1>8. SpentOf(n) = 0
  <2>1. \A t \in Thread : Spent(t) = 0
    BY <1>1 DEF Spent
  <2> QED
    BY <2>1 DEF SpentOf, Thread
<1>9. LossFits(n)
  <2>1. IsFiniteSet(Missing(n)) /\ Cardinality(Missing(n)) = 0
    BY <1>7, FS_EmptySet
  <2>2. scenario.lost + 2 * (Retries + 1) < Window * (Retries + 1) /\ scenario.lost \in Nat /\ Retries \in Nat
    BY RfAssumption, RfLosses DEF RfInit
  <2>3. 0 * (Retries + 1) = 0
    BY <2>2
  <2> DEFINE T == 2 * (Retries + 1)
             V == Window * (Retries + 1)
  <2>4. scenario.lost + T < V /\ T \in Nat
    BY <2>2
  <2> HIDE DEF T, V
  <2>5. 0 + 0 + scenario.lost + T < V
    BY <2>2, <2>4
  <2> QED
    BY <1>8, <2>1, <2>3, <2>5 DEF LossFits, T, V
<1> QED
  BY <1>6, <1>9 DEF CountersFit

LEMMA CounterStep ==
  ASSUME RfBase, RfBase', CounterInv, [RfNext]_rfVars
  PROVE  CounterInv' /\ (broken => broken') /\ (misread' => misread \/ broken)
<1> DEFINE Fits == scenario.crypt /\ ~broken' => \A n \in Node : CountersFit(n)'
<1>0. scenario'.crypt = scenario.crypt
  BY RfBaseStep
<1>1. ASSUME broken => broken', Fits PROVE CounterInv'
  BY <1>0, <1>1 DEF CounterInv
<1>2. ASSUME ~broken, scenario.crypt PROVE \A n \in Node : CountersFit(n)
  BY <1>2 DEF CounterInv
<1> DEFINE G == CounterInv' /\ (broken => broken') /\ (misread' => misread \/ broken)
<1>3. ASSUME NEW t \in Thread, SealLoad(t) \/ SealStore(t) PROVE G
  <2>1. broken' = broken /\ misread' = misread
    BY <1>3 DEF SealLoad, SealStore, SealOnly
  <2>2. Fits
    BY <1>2, <1>3, <2>1, LoadFits, StoreFits
  <2> QED
    BY <1>1, <2>1, <2>2
<1>4. ASSUME NEW t \in Thread, Attempt(t) PROVE G
  <2>1. (broken => broken') /\ misread' = misread
    BY <1>4, AttemptTyped DEF RfBase, Attempt
  <2>2. Fits
    BY <1>2, <1>4, <2>1, AttemptFits
  <2> QED
    BY <1>1, <2>1, <2>2
<1>5. ASSUME NEW n \in Node, Rx(n) \/ RxRejects(n) PROVE G
  <2>1. broken' = broken
    BY <1>5 DEF Rx, RxRejects
  <2>2. Fits
    BY <1>5, <2>1, TakeFits
  <2>3. misread' => misread \/ broken
    <3>1. CASE scenario.crypt /\ ~broken
      BY <1>5, <3>1, TakeFits
    <3>2. CASE ~scenario.crypt
      BY <1>5, <3>2 DEF Rx, RxRejects, Opened
    <3> QED
      BY <3>1, <3>2
  <2> QED
    BY <1>1, <2>1, <2>2, <2>3
<1>6. ASSUME NEW n \in Node, Rejoin(n) PROVE G
  <2>1. broken' /\ misread' = misread
    BY <1>6 DEF Rejoin
  <2> QED
    BY <2>1 DEF CounterInv
<1>7. ASSUME broken' = broken, misread' = misread, UNCHANGED <<tx_counter, rx_counter, rx_initialized, rf24_rx_msgq>>,
             scenario'.lost <= scenario.lost, scenario.crypt => \A u \in Thread : SameOnAir(u)
      PROVE  G
  <2>1. Fits
    <3> SUFFICES ASSUME scenario.crypt, ~broken, NEW n \in Node PROVE CountersFit(n)'
      BY <1>7
    <3>1. CountersFit(n)
      BY <1>2
    <3> QED
      BY <1>7, <3>1, QuietFits
  <2> QED
    BY <1>1, <1>7, <2>1
<1>8. scenario.lost \in Nat
  BY DEF RfBase, RfTypeOK, Budget
<1>9. (UNCHANGED snd) => \A u \in Thread : SameOnAir(u)
  BY DEF SameOnAir, Spent
<1> HIDE DEF G, Fits
<1>10. ASSUME NEW t \in Thread, Produce(t) PROVE G
  <2>1. UNCHANGED <<tx_counter, rx_counter, rx_initialized, rf24_rx_msgq, broken, misread>>
    BY <1>10 DEF Produce, cryptVars
  <2>2. scenario'.lost = scenario.lost /\ Starts(t, snd[t].no + 1)
    BY <1>10, ProduceTyped DEF RfBase
  <2> QED
    BY <1>7, <1>8, <2>1, <2>2, StartsQuietly
<1>11. ASSUME PingSend PROVE G
  <2>1. UNCHANGED <<tx_counter, rx_counter, rx_initialized, rf24_rx_msgq, broken, misread>>
    BY <1>11 DEF PingSend, PingOnly, cryptVars
  <2>2. scenario'.lost = scenario.lost /\ Starts("shell", ping.seq) /\ "shell" \in Thread
    BY <1>11, PingSendTyped DEF RfBase, Thread
  <2> QED
    BY <1>7, <1>8, <2>1, <2>2, StartsQuietly
<1>12. ASSUME EchoPut \/ PingSent \/ PingGot \/ PingTimeout PROVE G
  <2>1. UNCHANGED <<scenario, snd, tx_counter, rx_counter, rx_initialized, rf24_rx_msgq, broken, misread>>
    BY <1>12 DEF EchoPut, PingSent, PingGot, PingTimeout, PingOnly, cryptVars
  <2> QED
    BY <1>7, <1>8, <1>9, <2>1
<1>13. ASSUME UdpTx \/ ShellSends \/ LinkEvent PROVE G
  <2>1. UNCHANGED <<snd, tx_counter, rx_counter, rx_initialized, rf24_rx_msgq, broken, misread>>
    BY <1>13 DEF UdpTx, ShellSends, LinkEvent, UdpOnly, cryptVars
  <2>2. scenario'.lost <= scenario.lost
    BY <1>13, UdpStepsTyped DEF RfBase
  <2> QED
    BY <1>7, <1>9, <2>1, <2>2
<1>14. ASSUME UNCHANGED rfVars PROVE G
  <2>1. UNCHANGED <<scenario, snd, tx_counter, rx_counter, rx_initialized, rf24_rx_msgq, broken, misread>>
    BY <1>14 DEF rfVars, cryptVars
  <2> QED
    BY <1>7, <1>8, <1>9, <2>1
<1>15. G
  BY <1>3, <1>4, <1>5, <1>6, <1>10, <1>11, <1>12, <1>13, <1>14 DEF RfNext
<1> QED
  BY <1>15 DEF G

(* The order of what has come out; lax, it may repeat. *)
Lax == ~scenario.crypt \/ broken
NotAfter(x, y, lax) == x < y \/ (lax /\ x = y)
PairsOrdered(s, lax) ==
  \A i \in 1..Len(s) : \A j \in 1..Len(s) :
    i < j /\ s[i][1] = s[j][1] /\ s[i][1] \in Telemetry => NotAfter(s[i][2], s[j][2], lax)
AcrossOrdered(s, r, lax) ==
  \A i \in 1..Len(s) : \A j \in 1..Len(r) :
    s[i][1] = r[j][1] /\ s[i][1] \in Telemetry => NotAfter(s[i][2], r[j][2], lax)
NosOrdered(s, lax) ==
  \A i \in 1..Len(s) : \A j \in 1..Len(s) : i < j => NotAfter(s[i], s[j], lax)
OutOrder == PairsOrdered(got, Lax) /\ PairsOrdered(gw_tx_msgq, Lax) /\ AcrossOrdered(got, gw_tx_msgq, Lax) /\ NosOrdered(shown, Lax)
Pairs == Thread \X Nat

LEMMA Laxer ==
  ASSUME NEW a \in BOOLEAN, NEW b \in BOOLEAN, a => b, NEW s, NEW r
  PROVE  /\ PairsOrdered(s, a) => PairsOrdered(s, b)
         /\ AcrossOrdered(s, r, a) => AcrossOrdered(s, r, b)
         /\ NosOrdered(s, a) => NosOrdered(s, b)
BY DEF PairsOrdered, AcrossOrdered, NosOrdered, NotAfter

LEMMA PairAppended ==
  ASSUME NEW s \in Seq(Pairs), NEW x \in Pairs, NEW lax \in BOOLEAN, PairsOrdered(s, lax),
         \A i \in 1..Len(s) : s[i][1] = x[1] /\ s[i][1] \in Telemetry => NotAfter(s[i][2], x[2], lax)
  PROVE  PairsOrdered(Append(s, x), lax)
<1> DEFINE r == Append(s, x)
<1>1. Len(r) = Len(s) + 1 /\ r[Len(s) + 1] = x /\ (\A i \in 1..Len(s) : r[i] = s[i]) /\ Len(s) \in Nat
  OBVIOUS
<1> HIDE DEF r
<1> SUFFICES ASSUME NEW i \in 1..Len(r), NEW j \in 1..Len(r), i < j, r[i][1] = r[j][1], r[i][1] \in Telemetry
             PROVE  NotAfter(r[i][2], r[j][2], lax)
  BY DEF PairsOrdered, r
<1>2. i \in 1..Len(s) /\ r[i] = s[i]
  BY <1>1
<1>3. CASE j = Len(s) + 1
  BY <1>1, <1>2, <1>3
<1>4. CASE j # Len(s) + 1
  <2>1. j \in 1..Len(s) /\ r[j] = s[j]
    BY <1>1, <1>4
  <2> QED
    BY <1>2, <2>1 DEF PairsOrdered
<1> QED
  BY <1>3, <1>4

LEMMA AcrossAppended ==
  ASSUME NEW s \in Seq(Pairs), NEW r \in Seq(Pairs), NEW x \in Pairs, NEW lax \in BOOLEAN, AcrossOrdered(s, r, lax),
         \A i \in 1..Len(s) : s[i][1] = x[1] /\ s[i][1] \in Telemetry => NotAfter(s[i][2], x[2], lax)
  PROVE  AcrossOrdered(s, Append(r, x), lax)
<1> DEFINE q == Append(r, x)
<1>1. Len(q) = Len(r) + 1 /\ q[Len(r) + 1] = x /\ (\A i \in 1..Len(r) : q[i] = r[i]) /\ Len(r) \in Nat
  OBVIOUS
<1> HIDE DEF q
<1> SUFFICES ASSUME NEW i \in 1..Len(s), NEW j \in 1..Len(q), s[i][1] = q[j][1], s[i][1] \in Telemetry
             PROVE  NotAfter(s[i][2], q[j][2], lax)
  BY DEF AcrossOrdered, q
<1>2. CASE j = Len(r) + 1
  BY <1>1, <1>2
<1>3. CASE j # Len(r) + 1
  <2>1. j \in 1..Len(r) /\ q[j] = r[j]
    BY <1>1, <1>3
  <2> QED
    BY <2>1 DEF AcrossOrdered
<1> QED
  BY <1>2, <1>3

LEMMA NoAppended ==
  ASSUME NEW s \in Seq(Nat), NEW x \in Nat, NEW lax \in BOOLEAN, NosOrdered(s, lax),
         \A i \in 1..Len(s) : NotAfter(s[i], x, lax)
  PROVE  NosOrdered(Append(s, x), lax)
<1> DEFINE r == Append(s, x)
<1>1. Len(r) = Len(s) + 1 /\ r[Len(s) + 1] = x /\ (\A i \in 1..Len(s) : r[i] = s[i]) /\ Len(s) \in Nat
  OBVIOUS
<1> HIDE DEF r
<1> SUFFICES ASSUME NEW i \in 1..Len(r), NEW j \in 1..Len(r), i < j PROVE NotAfter(r[i], r[j], lax)
  BY DEF NosOrdered, r
<1>2. i \in 1..Len(s) /\ r[i] = s[i]
  BY <1>1
<1>3. CASE j = Len(s) + 1
  BY <1>1, <1>2, <1>3
<1>4. CASE j # Len(s) + 1
  <2>1. j \in 1..Len(s) /\ r[j] = s[j]
    BY <1>1, <1>4
  <2> QED
    BY <1>2, <2>1 DEF NosOrdered
<1> QED
  BY <1>3, <1>4

(* The head goes from the queue to the host, or is dropped. *)
LEMMA HeadMoves ==
  ASSUME NEW s \in Seq(Pairs), NEW r \in Seq(Pairs), r # <<>>, NEW lax \in BOOLEAN,
         PairsOrdered(s, lax), PairsOrdered(r, lax), AcrossOrdered(s, r, lax)
  PROVE  /\ PairsOrdered(Tail(r), lax) /\ AcrossOrdered(s, Tail(r), lax)
         /\ PairsOrdered(Append(s, Head(r)), lax) /\ AcrossOrdered(Append(s, Head(r)), Tail(r), lax)
<1> DEFINE q == Tail(r)
           h == Head(r)
           w == Append(s, h)
<1>1. Len(r) \in Nat \ {0} /\ h = r[1] /\ h \in Pairs /\ Len(q) = Len(r) - 1
      /\ \A i \in 1..(Len(r) - 1) : q[i] = r[i + 1]
  OBVIOUS
<1>2. Len(w) = Len(s) + 1 /\ w[Len(s) + 1] = h /\ (\A i \in 1..Len(s) : w[i] = s[i]) /\ Len(s) \in Nat
  BY <1>1
<1>3. \A i \in 1..Len(s) : s[i][1] = h[1] /\ s[i][1] \in Telemetry => NotAfter(s[i][2], h[2], lax)
  <2>1. 1 \in 1..Len(r)
    BY <1>1
  <2> QED
    BY <1>1, <2>1 DEF AcrossOrdered
<1>4. PairsOrdered(w, lax)
  BY <1>1, <1>3, PairAppended
<1> HIDE DEF q, h, w
<1>5. \A i \in 1..Len(q) : i + 1 \in 1..Len(r) /\ q[i] = r[i + 1] /\ 1 < i + 1
  BY <1>1
<1>6. PairsOrdered(q, lax)
  <2> SUFFICES ASSUME NEW i \in 1..Len(q), NEW j \in 1..Len(q), i < j, q[i][1] = q[j][1], q[i][1] \in Telemetry
               PROVE  NotAfter(q[i][2], q[j][2], lax)
    BY DEF PairsOrdered
  <2>1. i + 1 < j + 1
    BY <1>1
  <2> QED
    BY <1>5, <2>1 DEF PairsOrdered
<1>7. AcrossOrdered(s, q, lax)
  BY <1>5 DEF AcrossOrdered
<1>8. AcrossOrdered(w, q, lax)
  <2> SUFFICES ASSUME NEW i \in 1..Len(w), NEW j \in 1..Len(q), w[i][1] = q[j][1], w[i][1] \in Telemetry
               PROVE  NotAfter(w[i][2], q[j][2], lax)
    BY DEF AcrossOrdered
  <2>1. CASE i = Len(s) + 1
    <3>1. 1 \in 1..Len(r) /\ w[i] = r[1]
      BY <1>1, <1>2, <2>1
    <3> QED
      BY <1>5, <3>1 DEF PairsOrdered
  <2>2. CASE i # Len(s) + 1
    <3>1. i \in 1..Len(s) /\ w[i] = s[i]
      BY <1>2, <2>2
    <3> QED
      BY <1>7, <3>1 DEF AcrossOrdered
  <2> QED
    BY <2>1, <2>2
<1> QED
  BY <1>4, <1>6, <1>7, <1>8 DEF q, h, w

(* The numbered frames of one thread: those that came out, those of the    *)
(* queue and the one that it sends follow each other; what is repeated     *)
(* carries the counter of the first.                                       *)
Numbered == Telemetry \cup {"data"}
Dest(t) == Peer(NodeOf(t))
CameOut(t, k) ==
  \/ t \in Telemetry /\ \E i \in 1..Len(got) : got[i] = <<t, k>>
  \/ t \in Telemetry /\ \E i \in 1..Len(gw_tx_msgq) : gw_tx_msgq[i] = <<t, k>>
  \/ t = "data" /\ \E i \in 1..Len(shown) : shown[i] = k
Stale(m, c) == Lax \/ (rx_initialized[m] /\ c <= rx_counter[m])
Sending(t, k) == snd[t].no = k /\ snd[t].at \in {"idle", "seal", "store"}
OutBefore(t, k) ==
  /\ k <= snd[t].no /\ ~Sending(t, k)
  /\ snd[t].no = k /\ snd[t].at = "try" => Stale(Dest(t), snd[t].ctr)
  /\ \A i \in 1..Len(rf24_rx_msgq[Dest(t)]) :
       rf24_rx_msgq[Dest(t)][i].from = t =>
         /\ k <= rf24_rx_msgq[Dest(t)][i].no
         /\ k = rf24_rx_msgq[Dest(t)][i].no => Stale(Dest(t), rf24_rx_msgq[Dest(t)][i].ctr)
QueuedBefore(t, i) ==
  LET f == rf24_rx_msgq[Dest(t)][i] IN
  f.from = t =>
    /\ f.no <= snd[t].no /\ ~Sending(t, f.no)
    /\ snd[t].no = f.no /\ snd[t].at = "try" => snd[t].ctr = f.ctr
    /\ \A j \in 1..(i - 1) :
         rf24_rx_msgq[Dest(t)][j].from = t =>
           /\ rf24_rx_msgq[Dest(t)][j].no <= f.no
           /\ rf24_rx_msgq[Dest(t)][j].no = f.no => rf24_rx_msgq[Dest(t)][j].ctr = f.ctr
FramesOrdered(t) ==
  /\ \A k \in Nat : CameOut(t, k) => OutBefore(t, k)
  /\ \A i \in 1..Len(rf24_rx_msgq[Dest(t)]) : QueuedBefore(t, i)
OrderInv == OutOrder /\ \A t \in Numbered : FramesOrdered(t)

LEMMA NumberedTyped ==
  ASSUME RfBase, NEW t \in Numbered
  PROVE  /\ t \in Thread /\ t # "gwshell" /\ t # "shell" /\ KindOf(t) # "echo"
         /\ Dest(t) \in Node /\ rf24_rx_msgq[Dest(t)] \in Seq(Air) /\ Len(rf24_rx_msgq[Dest(t)]) \in Nat
         /\ snd[t] \in SndRec /\ snd[t].no \in Nat /\ snd[t].ctr \in Nat
<1>1. t \in Thread /\ t # "gwshell" /\ t # "shell" /\ KindOf(t) # "echo"
  BY DEF Numbered, Telemetry, Thread, KindOf
<1>2. Dest(t) \in Node
  BY <1>1, NodesTyped DEF Dest
<1>3. rf24_rx_msgq[Dest(t)] \in Seq(Air) /\ snd[t] \in SndRec
  BY <1>1, <1>2 DEF RfBase, RfTypeOK, RadioType
<1> QED
  BY <1>1, <1>2, <1>3 DEF SndRec

LEMMA OrderInit == RfInit => OrderInv
<1> SUFFICES ASSUME RfInit PROVE OrderInv
  OBVIOUS
<1>1. got = <<>> /\ gw_tx_msgq = <<>> /\ shown = <<>> /\ \A m \in Node : rf24_rx_msgq[m] = <<>>
  BY DEF RfInit
<1>2. OutOrder
  BY <1>1 DEF OutOrder, PairsOrdered, AcrossOrdered, NosOrdered
<1>3. ASSUME NEW t \in Numbered PROVE FramesOrdered(t)
  <2>1. Dest(t) \in Node
    BY NodesTyped DEF Numbered, Telemetry, Thread, Dest
  <2> QED
    BY <1>1, <2>1 DEF FramesOrdered, CameOut
<1> QED
  BY <1>2, <1>3 DEF OrderInv

(* Nothing comes out, nothing arrives and nothing is taken. *)
LEMMA SendingOrdered ==
  ASSUME RfBase, RfBase', OrderInv, NEW t \in Thread, \A u \in Thread : u # t => snd'[u] = snd[u],
         UNCHANGED <<got, gw_tx_msgq, shown, rf24_rx_msgq, rx_counter, rx_initialized>>, Lax => Lax',
         t \in Numbered =>
           \/ snd'[t].no = snd[t].no + 1
           \/ snd'[t].no = snd[t].no /\ snd[t].at \in {"seal", "store"}
  PROVE  OrderInv'
<1>1. Lax \in BOOLEAN /\ Lax' \in BOOLEAN
  BY DEF Lax, RfBase, RfTypeOK
<1>2. OutOrder'
  BY <1>1, Laxer DEF OrderInv, OutOrder
<1> HIDE DEF Lax
<1>3. ASSUME NEW u \in Numbered PROVE FramesOrdered(u)'
  <2>1. FramesOrdered(u) /\ u \in Thread /\ Dest(u) \in Node /\ snd[u].no \in Nat
    BY NumberedTyped DEF OrderInv
  <2>2. \A m, c : Stale(m, c) => Stale(m, c)'
    BY DEF Stale
  <2>3. \A k : CameOut(u, k)' => CameOut(u, k)
    BY DEF CameOut
  <2>4. CASE u # t
    <3>1. snd'[u] = snd[u]
      BY <2>1, <2>4
    <3>2. \A k : Sending(u, k)' <=> Sending(u, k)
      BY <3>1 DEF Sending
    <3>3. \A k \in Nat : CameOut(u, k)' => OutBefore(u, k)'
      BY <2>1, <2>2, <2>3, <3>1, <3>2 DEF FramesOrdered, OutBefore
    <3>4. \A i \in 1..Len(rf24_rx_msgq'[Dest(u)]) : QueuedBefore(u, i)'
      BY <2>1, <3>1, <3>2 DEF FramesOrdered, QueuedBefore
    <3> QED
      BY <3>3, <3>4 DEF FramesOrdered
  <2>5. CASE u = t
    <3>1. ASSUME NEW k \in Nat, k <= snd[u].no, ~Sending(u, k) PROVE k <= snd'[u].no /\ snd'[u].no # k
      BY <2>1, <2>5, <3>1 DEF Sending
    <3>2. ASSUME NEW k \in Nat, CameOut(u, k)' PROVE OutBefore(u, k)'
      <4>1. OutBefore(u, k)
        BY <2>1, <2>3, <3>2 DEF FramesOrdered
      <4>2. k <= snd'[u].no /\ snd'[u].no # k
        BY <3>1, <4>1 DEF OutBefore
      <4> QED
        BY <2>2, <4>1, <4>2 DEF OutBefore, Sending
    <3>3. ASSUME NEW i \in 1..Len(rf24_rx_msgq[Dest(u)]) PROVE QueuedBefore(u, i)'
      <4>1. QueuedBefore(u, i)
        BY <2>1 DEF FramesOrdered
      <4>2. rf24_rx_msgq[Dest(u)][i] \in Air
        <5>1. rf24_rx_msgq[Dest(u)] \in Seq(Air)
          BY NumberedTyped
        <5> QED
          BY <5>1
      <4>3. rf24_rx_msgq[Dest(u)][i].no \in Nat
        BY <4>2 DEF Air
      <4>4. rf24_rx_msgq[Dest(u)][i].from = u =>
              rf24_rx_msgq[Dest(u)][i].no <= snd'[u].no /\ snd'[u].no # rf24_rx_msgq[Dest(u)][i].no
        BY <3>1, <4>1, <4>3 DEF QueuedBefore
      <4> QED
        BY <4>1, <4>4 DEF QueuedBefore, Sending
    <3> QED
      BY <3>2, <3>3 DEF FramesOrdered
  <2> QED
    BY <2>4, <2>5
<1> QED
  BY <1>2, <1>3 DEF OrderInv

LEMMA AttemptOrdered ==
  ASSUME RfBase, RfBase', OrderInv, NEW t \in Thread, Attempt(t)
  PROVE  OrderInv'
<1> DEFINE m == Peer(NodeOf(t))
<1>1. UNCHANGED <<got, gw_tx_msgq, shown, rx_counter, rx_initialized>>
  BY DEF Attempt, cryptVars, udpVars
<1>2. /\ snd[t].at = "try" /\ snd'[t].ctr = snd[t].ctr /\ snd'[t].no = snd[t].no
      /\ snd'[t].at \in {"try", "sent", "failed"}
      /\ (\A u \in Thread : u # t => snd'[u] = snd[u])
      /\ (Arrives(m, FrameOf(t)) \/ Missed) /\ scenario'.crypt = scenario.crypt /\ (broken => broken')
  BY AttemptTyped DEF RfBase, Acked, Retried, GaveUp
<1>3. m \in Node /\ rf24_rx_msgq[m] \in Seq(Air) /\ FrameOf(t).from = t /\ FrameOf(t).no = snd[t].no /\ FrameOf(t).ctr = snd[t].ctr
  BY NodesTyped DEF RfBase, RfTypeOK, RadioType, FrameOf
<1>4. Lax \in BOOLEAN /\ Lax' \in BOOLEAN /\ (Lax => Lax')
  BY <1>2 DEF Lax, RfBase, RfTypeOK
<1>5. OutOrder'
  BY <1>1, <1>4, Laxer DEF OrderInv, OutOrder
<1>6. \A n, c : Stale(n, c) => Stale(n, c)'
  BY <1>1, <1>4 DEF Stale
<1>7. Len(rf24_rx_msgq[m]) \in Nat
      /\ \/ rf24_rx_msgq' = rf24_rx_msgq
         \/ /\ \A n \in Node : n # m => rf24_rx_msgq'[n] = rf24_rx_msgq[n]
            /\ Len(rf24_rx_msgq'[m]) = Len(rf24_rx_msgq[m]) + 1
            /\ rf24_rx_msgq'[m][Len(rf24_rx_msgq[m]) + 1] = FrameOf(t)
            /\ \A i \in 1..Len(rf24_rx_msgq[m]) : rf24_rx_msgq'[m][i] = rf24_rx_msgq[m][i]
  <2> DEFINE f == FrameOf(t)
             q == rf24_rx_msgq[m]
  <2>1. q \in Seq(Air)
    BY <1>3
  <2> HIDE DEF f, q
  <2>2. Len(q) \in Nat /\ Len(Append(q, f)) = Len(q) + 1 /\ Append(q, f)[Len(q) + 1] = f
        /\ \A i \in 1..Len(q) : Append(q, f)[i] = q[i]
    BY <2>1
  <2> QED
    BY <1>2, <2>2 DEF Arrives, Missed, f, q
<1> HIDE DEF m, Lax
<1>8. ASSUME NEW u \in Numbered PROVE FramesOrdered(u)'
  <2>1. FramesOrdered(u) /\ u \in Thread /\ Dest(u) \in Node /\ snd[u].no \in Nat /\ snd[u].ctr \in Nat /\ Len(rf24_rx_msgq[Dest(u)]) \in Nat
    BY NumberedTyped DEF OrderInv
  <2>2. snd'[u].no = snd[u].no /\ snd'[u].ctr = snd[u].ctr /\ (snd'[u].at = "try" => snd[u].at = "try")
        /\ (\A k : ~Sending(u, k) => ~Sending(u, k)')
    BY <1>2, <2>1 DEF Sending
  <2>3. \A k : CameOut(u, k)' => CameOut(u, k)
    BY <1>1 DEF CameOut
  <2>a. PICK q : q = rf24_rx_msgq[Dest(u)]
    OBVIOUS
  <2>b. PICK qn : qn = rf24_rx_msgq'[Dest(u)]
    OBVIOUS
  <2>4. ASSUME NEW i \in 1..Len(qn), qn[i].from = u
        PROVE  \/ i \in 1..Len(q) /\ qn[i] = q[i] /\ \A j \in 1..(i - 1) : j \in 1..Len(q) /\ qn[j] = q[j]
               \/ /\ u = t /\ qn[i].no = snd[t].no /\ qn[i].ctr = snd[t].ctr
                  /\ \A j \in 1..(i - 1) : j \in 1..Len(q) /\ qn[j] = q[j]
    <3>1. CASE rf24_rx_msgq' = rf24_rx_msgq
      BY <2>1, <2>4, <2>a, <2>b, <3>1
    <3>2. CASE /\ \A n \in Node : n # m => rf24_rx_msgq'[n] = rf24_rx_msgq[n]
               /\ Len(rf24_rx_msgq'[m]) = Len(rf24_rx_msgq[m]) + 1
               /\ rf24_rx_msgq'[m][Len(rf24_rx_msgq[m]) + 1] = FrameOf(t)
               /\ \A j \in 1..Len(rf24_rx_msgq[m]) : rf24_rx_msgq'[m][j] = rf24_rx_msgq[m][j]
      <4>1. CASE Dest(u) # m
        BY <2>1, <2>4, <2>a, <2>b, <3>2, <4>1
      <4>2. CASE Dest(u) = m
        <5>1. CASE i \in 1..Len(q)
          BY <2>1, <2>4, <2>a, <2>b, <3>2, <4>2, <5>1
        <5>2. CASE ~(i \in 1..Len(q))
          <6>1. i = Len(q) + 1
            BY <2>1, <2>4, <2>a, <2>b, <3>2, <4>2, <5>2
          <6>2. qn[i] = FrameOf(t)
            BY <2>a, <2>b, <3>2, <4>2, <6>1
          <6>3. u = t /\ qn[i].no = snd[t].no /\ qn[i].ctr = snd[t].ctr
            BY <1>3, <2>4, <6>2
          <6>4. \A j \in 1..(i - 1) : j \in 1..Len(q) /\ qn[j] = q[j]
            BY <2>1, <2>a, <2>b, <3>2, <4>2, <6>1
          <6> QED
            BY <6>3, <6>4
        <5> QED
          BY <5>1, <5>2
      <4> QED
        BY <4>1, <4>2
    <3> QED
      BY <1>7, <3>1, <3>2
  <2>5. ASSUME NEW k \in Nat, CameOut(u, k)' PROVE OutBefore(u, k)'
    <3>1. OutBefore(u, k)
      BY <2>1, <2>3, <2>5 DEF FramesOrdered
    <3>2. ASSUME NEW i \in 1..Len(qn), qn[i].from = u
          PROVE  k <= qn[i].no /\ (k = qn[i].no => Stale(Dest(u), qn[i].ctr)')
      <4>1. CASE i \in 1..Len(q) /\ qn[i] = q[i]
        BY <1>6, <2>a, <3>1, <3>2, <4>1 DEF OutBefore
      <4>2. CASE u = t /\ qn[i].no = snd[t].no /\ qn[i].ctr = snd[t].ctr
        BY <1>2, <1>6, <3>1, <4>2 DEF OutBefore
      <4> QED
        BY <2>4, <3>2, <4>1, <4>2
    <3> QED
      BY <1>6, <2>2, <2>b, <3>1, <3>2 DEF OutBefore
  <2>6. ASSUME NEW i \in 1..Len(qn) PROVE QueuedBefore(u, i)'
    <3> SUFFICES ASSUME qn[i].from = u
                 PROVE  /\ qn[i].no <= snd'[u].no /\ ~Sending(u, qn[i].no)'
                        /\ snd'[u].no = qn[i].no /\ snd'[u].at = "try" => snd'[u].ctr = qn[i].ctr
                        /\ \A j \in 1..(i - 1) : qn[j].from = u =>
                             qn[j].no <= qn[i].no /\ (qn[j].no = qn[i].no => qn[j].ctr = qn[i].ctr)
      BY <2>b DEF QueuedBefore
    <3>1. CASE i \in 1..Len(q) /\ qn[i] = q[i] /\ \A j \in 1..(i - 1) : j \in 1..Len(q) /\ qn[j] = q[j]
      <4>1. QueuedBefore(u, i)
        BY <2>1, <2>a, <3>1 DEF FramesOrdered
      <4>2. /\ q[i].no <= snd[u].no /\ ~Sending(u, q[i].no)
            /\ snd[u].no = q[i].no /\ snd[u].at = "try" => snd[u].ctr = q[i].ctr
            /\ \A j \in 1..(i - 1) : q[j].from = u =>
                 q[j].no <= q[i].no /\ (q[j].no = q[i].no => q[j].ctr = q[i].ctr)
        BY <2>a, <3>1, <4>1 DEF QueuedBefore
      <4> QED
        BY <2>2, <3>1, <4>2
    <3>2. CASE u = t /\ qn[i].no = snd[t].no /\ qn[i].ctr = snd[t].ctr
               /\ \A j \in 1..(i - 1) : j \in 1..Len(q) /\ qn[j] = q[j]
      <4>1. qn[i].no <= snd'[u].no /\ ~Sending(u, qn[i].no)' /\ snd'[u].ctr = qn[i].ctr
        BY <1>2, <2>1, <2>2, <3>2 DEF Sending
      <4>2. ASSUME NEW j \in 1..(i - 1), qn[j].from = u
            PROVE  qn[j].no <= qn[i].no /\ (qn[j].no = qn[i].no => qn[j].ctr = qn[i].ctr)
        <5>1. j \in 1..Len(q) /\ qn[j] = q[j]
          BY <3>2, <4>2
        <5>2. QueuedBefore(u, j)
          BY <2>1, <2>a, <5>1 DEF FramesOrdered
        <5>3. q[j].no <= snd[u].no /\ (snd[u].no = q[j].no /\ snd[u].at = "try" => snd[u].ctr = q[j].ctr)
          BY <2>a, <4>2, <5>1, <5>2 DEF QueuedBefore
        <5> QED
          BY <1>2, <3>2, <5>1, <5>3
      <4> QED
        BY <4>1, <4>2
    <3> QED
      BY <2>4, <3>1, <3>2
  <2> QED
    BY <2>5, <2>6, <2>b DEF FramesOrdered
<1> QED
  BY <1>5, <1>8 DEF OrderInv

(* The head is taken: what was stale stays so, what comes out is stale     *)
(* from then on and was not before.                                        *)
LEMMA TakenStale ==
  ASSUME RfBase, RfBase', CounterInv, NEW m \in Node, Rx(m) \/ RxRejects(m), NEW f, f = Head(rf24_rx_msgq[m])
  PROVE  /\ (Lax' <=> Lax)
         /\ \A n \in Node : \A c \in Nat : Stale(n, c) => Stale(n, c)'
         /\ Rx(m) => Stale(m, f.ctr)' /\ (Stale(m, f.ctr) => Lax)
<1>1. Lax' <=> Lax
  BY DEF Rx, RxRejects, Lax
<1>2. CASE Lax
  BY <1>1, <1>2 DEF Stale
<1>3. CASE ~Lax
  <2>1. scenario.crypt /\ ~broken
    BY <1>3 DEF Lax
  <2>2. QueueFits(m)
    <3>1. Peer(m) \in Node /\ Peer(Peer(m)) = m
      BY NodesTyped
    <3>2. CountersFit(Peer(m))
      BY <2>1, <3>1 DEF CounterInv
    <3> QED
      BY <3>1, <3>2 DEF CountersFit
  <2>3. rf24_rx_msgq[m] # <<>>
    BY DEF Rx, RxRejects, RxQuiet
  <2>4. /\ f.ctr \in Nat
        /\ Opens(m, f) => (rx_initialized[m] => rx_counter[m] < f.ctr) /\ Inferred(m, f.ctr % Low) = f.ctr
    BY <2>1, <2>2, <2>3, HeadOpens
  <2>5. rx_counter \in [Node -> Nat] /\ rx_initialized \in [Node -> BOOLEAN]
    BY DEF RfBase, RfTypeOK, RadioType
  <2>6. CASE Rx(m)
    <3>1. Opens(m, f) /\ Opened(m, f)
      BY <2>6 DEF Rx
    <3>2. rx_counter' = [rx_counter EXCEPT ![m] = f.ctr] /\ rx_initialized' = [rx_initialized EXCEPT ![m] = TRUE]
          /\ (rx_initialized[m] => rx_counter[m] < f.ctr)
      BY <2>1, <2>4, <3>1 DEF Opened
    <3>3. rx_counter'[m] = f.ctr /\ rx_initialized'[m]
      BY <2>5, <3>2
    <3>4. Stale(m, f.ctr)' /\ ~Stale(m, f.ctr)
      <4>1. f.ctr <= f.ctr /\ (rx_initialized[m] => ~(f.ctr <= rx_counter[m]))
        BY <2>4, <2>5, <3>2
      <4> QED
        BY <1>3, <3>3, <4>1 DEF Stale
    <3>5. ASSUME NEW n \in Node, NEW c \in Nat, Stale(n, c) PROVE Stale(n, c)'
      <4>1. rx_initialized[n] /\ c <= rx_counter[n]
        BY <1>3, <3>5 DEF Stale
      <4>2. CASE n = m
        <5>1. c <= f.ctr
          BY <2>4, <2>5, <3>2, <4>1, <4>2
        <5> QED
          BY <3>3, <4>2, <5>1 DEF Stale
      <4>3. CASE n # m
        <5>1. rx_counter'[n] = rx_counter[n] /\ rx_initialized'[n] = rx_initialized[n]
          BY <2>5, <3>2, <4>3
        <5> QED
          BY <4>1, <5>1 DEF Stale
      <4> QED
        BY <4>2, <4>3
    <3> QED
      BY <1>1, <3>4, <3>5
  <2>7. CASE RxRejects(m) /\ ~Rx(m)
    <3>1. rx_counter' = rx_counter /\ rx_initialized' = rx_initialized
      BY <2>7 DEF RxRejects, cryptVars
    <3> QED
      BY <1>1, <2>7, <3>1 DEF Stale
  <2> QED
    BY <2>6, <2>7
<1> QED
  BY <1>2, <1>3

(* What comes out is the head. *)
LEMMA TakenOut ==
  ASSUME RfBase, RfBase', NEW m \in Node, Rx(m) \/ RxRejects(m), NEW f, f = Head(rf24_rx_msgq[m]), NEW u \in Numbered
  PROVE  /\ snd'[u] = snd[u]
         /\ \A k : CameOut(u, k)' => CameOut(u, k) \/ (Rx(m) /\ f.from = u /\ f.no = k /\ Dest(u) = m)
<1>1. CASE Rx(m)
  <2>1. /\ got' = got
        /\ gw_tx_msgq' = gw_tx_msgq \/ (m = "G" /\ f.kind = "state" /\ gw_tx_msgq' = Append(gw_tx_msgq, <<f.from, f.no>>))
        /\ snd' = snd \/ Starts(RxThread(m), f.no)
        /\ f \in Air
    BY <1>1, RxTyped DEF RfBase, Rx
  <2>2. shown' = shown \/ (m = "H" /\ f.kind = "coords" /\ shown' = Append(shown, f.no))
    BY <1>1 DEF Rx
  <2>3. /\ rf24_rx_msgq[m] # <<>> /\ rf24_rx_msgq[m] \in Seq(Air)
    BY <1>1 DEF Rx, RxQuiet, RfBase, RfTypeOK, RadioType
  <2>4. f = rf24_rx_msgq[m][1] /\ 1 \in 1..Len(rf24_rx_msgq[m])
    BY <2>3
  <2>5. f.kind = KindOf(f.from)
    BY <2>4 DEF RfBase, SenderInv
  <2>6. snd'[u] = snd[u]
    <3>1. u \in Thread /\ u # RxThread(m)
      BY DEF Numbered, Telemetry, Thread, RxThread
    <3> QED
      BY <2>1, <3>1 DEF Starts
  <2>7. gw_tx_msgq \in Seq(Pairs) /\ <<f.from, f.no>> \in Pairs /\ shown \in Seq(Nat) /\ f.no \in Nat
    BY <2>1 DEF RfBase, RfTypeOK, Pairs, Air
  <2>8. ASSUME NEW k, CameOut(u, k)' PROVE CameOut(u, k) \/ (f.from = u /\ f.no = k /\ Dest(u) = m)
    <3>1. CASE u \in Telemetry /\ \E i \in 1..Len(got') : got'[i] = <<u, k>>
      BY <2>1, <3>1 DEF CameOut
    <3>2. CASE u \in Telemetry /\ \E i \in 1..Len(gw_tx_msgq') : gw_tx_msgq'[i] = <<u, k>>
      <4>1. CASE gw_tx_msgq' = gw_tx_msgq
        BY <3>2, <4>1 DEF CameOut
      <4>2. CASE m = "G" /\ gw_tx_msgq' = Append(gw_tx_msgq, <<f.from, f.no>>)
        <5>1. PICK i \in 1..Len(gw_tx_msgq') : gw_tx_msgq'[i] = <<u, k>>
          BY <3>2
        <5>2. CASE i \in 1..Len(gw_tx_msgq)
          <6>1. gw_tx_msgq[i] = <<u, k>>
            BY <2>7, <4>2, <5>1, <5>2
          <6> QED
            BY <3>2, <5>2, <6>1 DEF CameOut
        <5>3. CASE i \notin 1..Len(gw_tx_msgq)
          <6>1. gw_tx_msgq'[i] = <<f.from, f.no>>
            BY <2>7, <4>2, <5>1, <5>3
          <6>2. Dest(u) = "G"
            BY <3>2 DEF Telemetry, Dest, Peer, NodeOf
          <6> QED
            BY <4>2, <5>1, <6>1, <6>2
        <5> QED
          BY <5>2, <5>3
      <4> QED
        BY <2>1, <4>1, <4>2
    <3>3. CASE u = "data" /\ \E i \in 1..Len(shown') : shown'[i] = k
      <4>1. CASE shown' = shown
        BY <3>3, <4>1 DEF CameOut
      <4>2. CASE m = "H" /\ f.kind = "coords" /\ shown' = Append(shown, f.no)
        <5>1. PICK i \in 1..Len(shown') : shown'[i] = k
          BY <3>3
        <5>2. CASE i \in 1..Len(shown)
          <6>1. shown[i] = k
            BY <2>7, <4>2, <5>1, <5>2
          <6> QED
            BY <3>3, <5>2, <6>1 DEF CameOut
        <5>3. CASE i \notin 1..Len(shown)
          <6>1. shown'[i] = f.no
            BY <2>7, <4>2, <5>1, <5>3
          <6>2. Dest("data") = "H" /\ f.from = "data"
            BY <2>1, <2>5, <4>2 DEF Dest, Peer, NodeOf, KindOf, Air, Thread, Telemetry
          <6> QED
            BY <3>3, <4>2, <5>1, <6>1, <6>2
        <5> QED
          BY <5>2, <5>3
      <4> QED
        BY <2>2, <4>1, <4>2
    <3> QED
      BY <2>8, <3>1, <3>2, <3>3 DEF CameOut
  <2> QED
    BY <1>1, <2>6, <2>8
<1>2. CASE RxRejects(m) /\ ~Rx(m)
  BY <1>2 DEF RxRejects, udpVars, CameOut
<1> QED
  BY <1>1, <1>2

(* The head is taken: the frames of a thread. *)
LEMMA TakeFrames ==
  ASSUME RfBase, RfBase', CounterInv, OrderInv, NEW m \in Node, Rx(m) \/ RxRejects(m), NEW u \in Numbered
  PROVE  FramesOrdered(u)'
<1>1. PICK f : f = Head(rf24_rx_msgq[m])
  OBVIOUS
<1>2. FramesOrdered(u) /\ u \in Thread /\ Dest(u) \in Node /\ snd[u].no \in Nat /\ snd[u].ctr \in Nat
  BY NumberedTyped DEF OrderInv
<1>3. /\ \A n \in Node : \A c \in Nat : Stale(n, c) => Stale(n, c)'
      /\ Rx(m) => Stale(m, f.ctr)'
  BY <1>1, TakenStale
<1>4. /\ snd'[u] = snd[u]
      /\ \A k : CameOut(u, k)' => CameOut(u, k) \/ (Rx(m) /\ f.from = u /\ f.no = k /\ Dest(u) = m)
  BY <1>1, TakenOut
<1>5. PICK q : q = rf24_rx_msgq[Dest(u)]
  OBVIOUS
<1>6. PICK r : r = rf24_rx_msgq'[Dest(u)]
  OBVIOUS
<1>7. rf24_rx_msgq[m] # <<>> /\ rf24_rx_msgq' = [rf24_rx_msgq EXCEPT ![m] = Tail(@)]
  BY DEF Rx, RxRejects, RxQuiet
<1>8. /\ Len(q) \in Nat /\ Len(r) \in Nat
      /\ \A i \in 1..Len(q) : q[i].no \in Nat /\ q[i].ctr \in Nat
      /\ Dest(u) = m => Len(q) # 0 /\ f = q[1] /\ Len(r) = Len(q) - 1 /\ \A i \in 1..(Len(q) - 1) : r[i] = q[i + 1]
      /\ Dest(u) # m => r = q
  <2>1. q \in Seq(Air)
    BY <1>2, <1>5 DEF RfBase, RfTypeOK, RadioType
  <2>2. \A i \in 1..Len(q) : q[i] \in Air
    BY <2>1
  <2>3. \A i \in 1..Len(q) : q[i].no \in Nat /\ q[i].ctr \in Nat
    BY <2>2 DEF Air
  <2>4. CASE Dest(u) = m
    <3>1. /\ Len(rf24_rx_msgq[m]) \in Nat \ {0} /\ f = rf24_rx_msgq[m][1]
          /\ Len(rf24_rx_msgq'[m]) = Len(rf24_rx_msgq[m]) - 1
          /\ \A i \in 1..(Len(rf24_rx_msgq[m]) - 1) : rf24_rx_msgq'[m][i] = rf24_rx_msgq[m][i + 1]
      BY <1>1, <1>7, TailTyped DEF RfBase
    <3>2. q = rf24_rx_msgq[m] /\ r = rf24_rx_msgq'[m]
      BY <1>5, <1>6, <2>4
    <3>3. Len(q) \in Nat \ {0} /\ f = q[1] /\ Len(r) = Len(q) - 1 /\ \A i \in 1..(Len(q) - 1) : r[i] = q[i + 1]
      BY <3>1, <3>2
    <3>4. Len(r) \in Nat
      BY <3>3
    <3> QED
      BY <2>3, <2>4, <3>3, <3>4
  <2>5. CASE Dest(u) # m
    BY <1>2, <1>5, <1>6, <1>7, <2>1, <2>3, <2>5, TailTyped DEF RfBase
  <2> QED
    BY <2>4, <2>5
<1>9. ASSUME NEW i \in 1..Len(r)
      PROVE  \E k \in 1..Len(q) : r[i] = q[k] /\ \A j \in 1..(i - 1) : \E l \in 1..(k - 1) : r[j] = q[l]
  <2>1. CASE Dest(u) # m
    BY <1>8, <2>1
  <2>2. CASE Dest(u) = m
    <3>1. i + 1 \in 1..Len(q) /\ r[i] = q[i + 1]
      BY <1>8, <2>2
    <3>2. \A j \in 1..(i - 1) : j + 1 \in 1..((i + 1) - 1) /\ r[j] = q[j + 1]
      BY <1>8, <2>2, SMTT(30)
    <3> QED
      BY <3>1, <3>2
  <2> QED
    BY <2>1, <2>2
<1>10. ASSUME NEW k \in Nat, CameOut(u, k)' PROVE OutBefore(u, k)'
  <2>1. /\ k <= snd[u].no /\ ~Sending(u, k)
        /\ \A c : c = snd[u].ctr /\ snd[u].no = k /\ snd[u].at = "try" => Stale(Dest(u), c)'
        /\ \A i \in 1..Len(r) : r[i].from = u =>
             /\ k <= r[i].no
             /\ \A c : c = r[i].ctr /\ k = r[i].no => Stale(Dest(u), c)'
    <3>1. CASE CameOut(u, k)
      <4>1. OutBefore(u, k)
        BY <1>2, <3>1 DEF FramesOrdered
      <4>2. \A i \in 1..Len(q) : q[i].from = u => k <= q[i].no /\ (k = q[i].no => Stale(Dest(u), q[i].ctr))
        BY <1>5, <4>1 DEF OutBefore
      <4>3. ASSUME NEW i \in 1..Len(r), r[i].from = u
            PROVE  k <= r[i].no /\ \A c : c = r[i].ctr /\ k = r[i].no => Stale(Dest(u), c)'
        <5>1. PICK l \in 1..Len(q) : r[i] = q[l]
          BY <1>9
        <5>2. q[l].ctr \in Nat
          BY <1>8
        <5> QED
          BY <1>2, <1>3, <4>2, <4>3, <5>1, <5>2
      <4> QED
        BY <1>2, <1>3, <4>1, <4>3 DEF OutBefore
    <3>2. CASE Rx(m) /\ f.from = u /\ f.no = k /\ Dest(u) = m
      <4>1. 1 \in 1..Len(q) /\ f = q[1]
        BY <1>8, <3>2
      <4>2. k <= snd[u].no /\ ~Sending(u, k) /\ (snd[u].no = k /\ snd[u].at = "try" => snd[u].ctr = f.ctr)
        <5>1. QueuedBefore(u, 1)
          BY <1>2, <1>5, <4>1 DEF FramesOrdered
        <5> QED
          BY <1>5, <3>2, <4>1, <5>1 DEF QueuedBefore
      <4>3. ASSUME NEW i \in 1..Len(r), r[i].from = u
            PROVE  k <= r[i].no /\ \A c : c = r[i].ctr /\ k = r[i].no => Stale(Dest(u), c)'
        <5>1. i + 1 \in 1..Len(q) /\ r[i] = q[i + 1] /\ 1 \in 1..((i + 1) - 1)
          BY <1>8, <3>2
        <5>2. QueuedBefore(u, i + 1)
          BY <1>2, <1>5, <5>1 DEF FramesOrdered
        <5>3. q[1].no <= q[i + 1].no /\ (q[1].no = q[i + 1].no => q[1].ctr = q[i + 1].ctr)
          BY <1>5, <3>2, <4>1, <4>3, <5>1, <5>2 DEF QueuedBefore
        <5> QED
          BY <1>3, <3>2, <4>1, <5>1, <5>3
      <4> QED
        BY <1>3, <3>2, <4>2, <4>3
    <3> QED
      BY <1>4, <1>10, <3>1, <3>2
  <2>2. ~Sending(u, k)'
    BY <1>4, <2>1 DEF Sending
  <2> QED
    BY <1>4, <1>6, <2>1, <2>2 DEF OutBefore
<1>11. ASSUME NEW i \in 1..Len(r) PROVE QueuedBefore(u, i)'
  <2>1. PICK l \in 1..Len(q) : r[i] = q[l] /\ \A j \in 1..(i - 1) : \E h \in 1..(l - 1) : r[j] = q[h]
    BY <1>9
  <2>2. QueuedBefore(u, l)
    BY <1>2, <1>5, <2>1 DEF FramesOrdered
  <2>3. q[l].from = u =>
          /\ q[l].no <= snd[u].no /\ ~Sending(u, q[l].no)
          /\ snd[u].no = q[l].no /\ snd[u].at = "try" => snd[u].ctr = q[l].ctr
          /\ \A j \in 1..(l - 1) : q[j].from = u => q[j].no <= q[l].no /\ (q[j].no = q[l].no => q[j].ctr = q[l].ctr)
    BY <1>5, <2>2 DEF QueuedBefore
  <2>4. \A k : Sending(u, k)' <=> Sending(u, k)
    BY <1>4 DEF Sending
  <2>5. r[i].from = u =>
          /\ r[i].no <= snd'[u].no /\ ~Sending(u, r[i].no)'
          /\ snd'[u].no = r[i].no /\ snd'[u].at = "try" => snd'[u].ctr = r[i].ctr
          /\ \A j \in 1..(i - 1) : r[j].from = u => r[j].no <= r[i].no /\ (r[j].no = r[i].no => r[j].ctr = r[i].ctr)
    BY <1>4, <2>1, <2>3, <2>4
  <2> QED
    BY <1>6, <2>5 DEF QueuedBefore
<1> QED
  BY <1>6, <1>10, <1>11 DEF FramesOrdered

(* What has come out before the head is before it. *)
LEMMA TakeOut ==
  ASSUME RfBase, RfBase', CounterInv, OrderInv, NEW m \in Node, Rx(m) \/ RxRejects(m)
  PROVE  OutOrder'
<1>1. PICK f : f = Head(rf24_rx_msgq[m])
  OBVIOUS
<1>2. /\ (Lax' <=> Lax)
      /\ Rx(m) => (Stale(m, f.ctr) => Lax)
  BY <1>1, TakenStale
<1>3. Lax \in BOOLEAN /\ Lax' = Lax
  BY <1>2 DEF Lax, RfBase, RfTypeOK
<1>4. OutOrder
  BY DEF OrderInv
<1>5. CASE Rx(m)
  <2>1. /\ got' = got
        /\ gw_tx_msgq' = gw_tx_msgq \/ (m = "G" /\ f.kind = "state" /\ gw_tx_msgq' = Append(gw_tx_msgq, <<f.from, f.no>>))
        /\ f \in Air
    BY <1>1, <1>5, RxTyped DEF RfBase, Rx
  <2>2. shown' = shown \/ (m = "H" /\ f.kind = "coords" /\ shown' = Append(shown, f.no))
    BY <1>1, <1>5 DEF Rx
  <2>3. rf24_rx_msgq[m] # <<>> /\ rf24_rx_msgq[m] \in Seq(Air)
    BY <1>5 DEF Rx, RxQuiet, RfBase, RfTypeOK, RadioType
  <2>4. f = rf24_rx_msgq[m][1] /\ 1 \in 1..Len(rf24_rx_msgq[m])
    BY <1>1, <2>3
  <2>5. f.kind = KindOf(f.from) /\ f.from \in Thread /\ f.no \in Nat /\ NodeOf(f.from) = Peer(m)
    BY <2>1, <2>4 DEF RfBase, SenderInv, Air
  <2>6. gw_tx_msgq \in Seq(Pairs) /\ got \in Seq(Pairs) /\ <<f.from, f.no>> \in Pairs /\ shown \in Seq(Nat)
    BY <2>5 DEF RfBase, RfTypeOK, Pairs
  <2>7. ASSUME NEW k \in Nat, f.from \in Numbered, Dest(f.from) = m, CameOut(f.from, k) PROVE NotAfter(k, f.no, Lax)
    <3>1. OutBefore(f.from, k)
      BY <2>7 DEF OrderInv, FramesOrdered
    <3>2. k <= f.no /\ (k = f.no => Stale(m, f.ctr))
      BY <2>4, <2>7, <3>1 DEF OutBefore
    <3> QED
      BY <1>2, <1>5, <2>5, <2>7, <3>2 DEF NotAfter
  <2>8. f.from \in Telemetry => Dest(f.from) = "G"
    BY DEF Telemetry, Dest, Peer, NodeOf
  <2> HIDE DEF Lax
  <2>9. PairsOrdered(gw_tx_msgq', Lax) /\ AcrossOrdered(got, gw_tx_msgq', Lax)
    <3>1. CASE gw_tx_msgq' = gw_tx_msgq
      BY <1>4, <3>1 DEF OutOrder
    <3>2. CASE m = "G" /\ gw_tx_msgq' = Append(gw_tx_msgq, <<f.from, f.no>>)
      <4> DEFINE x == <<f.from, f.no>>
      <4>1. ASSUME NEW s \in Seq(Pairs), NEW i \in 1..Len(s), s = got \/ s = gw_tx_msgq, s[i][1] = f.from, f.from \in Telemetry
            PROVE  NotAfter(s[i][2], f.no, Lax)
        <5>1. s[i] \in Pairs
          BY <4>1
        <5>2. s[i] = <<f.from, s[i][2]>> /\ s[i][2] \in Nat
          BY <4>1, <5>1 DEF Pairs
        <5>3. CameOut(f.from, s[i][2])
          BY <4>1, <5>2 DEF CameOut
        <5> QED
          BY <2>7, <2>8, <3>2, <4>1, <5>2, <5>3 DEF Numbered
      <4>2. x \in Pairs /\ x[1] = f.from /\ x[2] = f.no
        BY <2>6
      <4>3. /\ \A i \in 1..Len(got) : got[i][1] = x[1] /\ got[i][1] \in Telemetry => NotAfter(got[i][2], x[2], Lax)
            /\ \A i \in 1..Len(gw_tx_msgq) :
                 gw_tx_msgq[i][1] = x[1] /\ gw_tx_msgq[i][1] \in Telemetry => NotAfter(gw_tx_msgq[i][2], x[2], Lax)
        BY <2>6, <4>1, <4>2
      <4>4. gw_tx_msgq' = Append(gw_tx_msgq, x) /\ PairsOrdered(gw_tx_msgq, Lax) /\ AcrossOrdered(got, gw_tx_msgq, Lax)
        BY <1>4, <3>2 DEF OutOrder
      <4> HIDE DEF x
      <4> QED
        BY <1>3, <2>6, <4>2, <4>3, <4>4, PairAppended, AcrossAppended
    <3> QED
      BY <2>1, <3>1, <3>2
  <2>10. NosOrdered(shown', Lax)
    <3>1. CASE shown' = shown
      BY <1>4, <3>1 DEF OutOrder
    <3>2. CASE m = "H" /\ f.kind = "coords" /\ shown' = Append(shown, f.no)
      <4>1. f.from = "data" /\ "data" \in Numbered /\ Dest("data") = "H"
        BY <2>5, <3>2 DEF Numbered, Dest, Peer, NodeOf, KindOf, Thread, Telemetry
      <4>2. ASSUME NEW i \in 1..Len(shown) PROVE NotAfter(shown[i], f.no, Lax)
        <5>1. CameOut("data", shown[i]) /\ shown[i] \in Nat
          BY <2>6 DEF CameOut
        <5> QED
          BY <2>7, <3>2, <4>1, <5>1
      <4> QED
        BY <1>3, <1>4, <2>5, <2>6, <3>2, <4>2, NoAppended DEF OutOrder
    <3> QED
      BY <2>2, <3>1, <3>2
  <2> QED
    BY <1>3, <1>4, <2>1, <2>9, <2>10 DEF OutOrder
<1>6. CASE RxRejects(m)
  <2> HIDE DEF Lax
  <2>1. UNCHANGED <<got, gw_tx_msgq, shown>>
    BY <1>6 DEF RxRejects, udpVars
  <2> QED
    BY <1>3, <1>4, <2>1 DEF OutOrder
<1> QED
  BY <1>5, <1>6

LEMMA TakeOrdered ==
  ASSUME RfBase, RfBase', CounterInv, OrderInv, NEW m \in Node, Rx(m) \/ RxRejects(m)
  PROVE  OrderInv'
BY TakeFrames, TakeOut DEF OrderInv

(* Nothing is sent, arrives or is taken, and nothing new comes out. *)
LEMMA StaysOrdered ==
  ASSUME RfBase, OrderInv, UNCHANGED <<snd, rf24_rx_msgq>>, OutOrder',
         \A m, c : Stale(m, c) => Stale(m, c)',
         \A t \in Numbered : \A k : CameOut(t, k)' => CameOut(t, k)
  PROVE  OrderInv'
<1>1. ASSUME NEW u \in Numbered PROVE FramesOrdered(u)'
  <2>1. FramesOrdered(u)
    BY DEF OrderInv
  <2>2. \A k : Sending(u, k)' <=> Sending(u, k)
    BY DEF Sending
  <2>3. \A k \in Nat : CameOut(u, k)' => OutBefore(u, k)'
    BY <2>1, <2>2 DEF FramesOrdered, OutBefore
  <2>4. \A i \in 1..Len(rf24_rx_msgq'[Dest(u)]) : QueuedBefore(u, i)'
    BY <2>1, <2>2 DEF FramesOrdered, QueuedBefore
  <2> QED
    BY <2>3, <2>4 DEF FramesOrdered
<1> QED
  BY <1>1 DEF OrderInv

(* One side begins anew. *)
LEMMA RejoinOrdered ==
  ASSUME RfBase, RfBase', OrderInv, NEW n \in Node, Rejoin(n)
  PROVE  OrderInv'
<1>1. UNCHANGED <<snd, rf24_rx_msgq, got, gw_tx_msgq, shown>>
  BY DEF Rejoin, udpVars
<1>2. Lax' /\ Lax \in BOOLEAN /\ Lax' \in BOOLEAN
  BY DEF Rejoin, Lax, RfBase, RfTypeOK
<1>3. OutOrder'
  <2> HIDE DEF Lax
  <2> QED
    BY <1>1, <1>2, Laxer DEF OrderInv, OutOrder
<1>4. \A m, c : Stale(m, c)'
  BY <1>2 DEF Stale
<1>5. \A t \in Numbered : \A k : CameOut(t, k)' => CameOut(t, k)
  BY <1>1 DEF CameOut
<1> QED
  BY <1>1, <1>3, <1>4, <1>5, StaysOrdered

(* The gateway's queue to the host. *)
LEMMA UdpOrdered ==
  ASSUME RfBase, RfBase', OrderInv, UdpTx \/ ShellSends \/ LinkEvent
  PROVE  OrderInv'
<1>1. UNCHANGED <<snd, rf24_rx_msgq, shown, rx_counter, rx_initialized, broken>> /\ scenario'.crypt = scenario.crypt
  BY UdpStepsTyped DEF UdpTx, ShellSends, LinkEvent, UdpOnly, cryptVars, RfBase
<1>2. \/ gw_tx_msgq # <<>> /\ gw_tx_msgq' = Tail(gw_tx_msgq) /\ (got' = got \/ got' = Append(got, Head(gw_tx_msgq)))
      \/ got' = got /\ (gw_tx_msgq' = gw_tx_msgq \/ \E k \in Nat : gw_tx_msgq' = Append(gw_tx_msgq, <<"gwshell", k>>))
  BY UdpStepsTyped DEF RfBase
<1>3. Lax' = Lax /\ Lax \in BOOLEAN
  BY <1>1 DEF Lax, RfBase, RfTypeOK
<1>4. \A m, c : Stale(m, c) => Stale(m, c)'
  BY <1>1, <1>3 DEF Stale
<1> HIDE DEF Lax
<1>5. /\ gw_tx_msgq \in Seq(Pairs) /\ got \in Seq(Pairs)
      /\ PairsOrdered(got, Lax) /\ PairsOrdered(gw_tx_msgq, Lax) /\ AcrossOrdered(got, gw_tx_msgq, Lax) /\ NosOrdered(shown', Lax)
  BY <1>1 DEF RfBase, RfTypeOK, Pairs, OrderInv, OutOrder
<1>6. CASE gw_tx_msgq # <<>> /\ gw_tx_msgq' = Tail(gw_tx_msgq) /\ (got' = got \/ got' = Append(got, Head(gw_tx_msgq)))
  <2>1. /\ PairsOrdered(gw_tx_msgq', Lax) /\ AcrossOrdered(got, gw_tx_msgq', Lax)
        /\ PairsOrdered(Append(got, Head(gw_tx_msgq)), Lax) /\ AcrossOrdered(Append(got, Head(gw_tx_msgq)), gw_tx_msgq', Lax)
    BY <1>3, <1>5, <1>6, HeadMoves
  <2>2. OutOrder'
    BY <1>3, <1>5, <1>6, <2>1 DEF OutOrder
  <2>3. \A k : (\E i \in 1..Len(gw_tx_msgq') : gw_tx_msgq'[i] = k) => \E i \in 1..Len(gw_tx_msgq) : gw_tx_msgq[i] = k
    <3>1. Len(gw_tx_msgq) \in Nat \ {0} /\ Len(gw_tx_msgq') = Len(gw_tx_msgq) - 1
          /\ \A i \in 1..(Len(gw_tx_msgq) - 1) : gw_tx_msgq'[i] = gw_tx_msgq[i + 1]
      BY <1>5, <1>6
    <3>2. \A i \in 1..Len(gw_tx_msgq') : i + 1 \in 1..Len(gw_tx_msgq) /\ gw_tx_msgq'[i] = gw_tx_msgq[i + 1]
      BY <3>1
    <3> QED
      BY <3>2
  <2>4. \A k : (\E i \in 1..Len(got') : got'[i] = k)
               => (\E i \in 1..Len(got) : got[i] = k) \/ (\E i \in 1..Len(gw_tx_msgq) : gw_tx_msgq[i] = k)
    <3>1. CASE got' = got
      BY <3>1
    <3>2. CASE got' = Append(got, Head(gw_tx_msgq))
      <4>1. Head(gw_tx_msgq) = gw_tx_msgq[1] /\ 1 \in 1..Len(gw_tx_msgq)
        BY <1>5, <1>6
      <4>2. \A i \in 1..Len(got') : (i \in 1..Len(got) /\ got'[i] = got[i]) \/ got'[i] = gw_tx_msgq[1]
        BY <1>5, <3>2, <4>1
      <4> QED
        BY <4>1, <4>2
    <3> QED
      BY <1>6, <3>1, <3>2
  <2>5. \A t \in Numbered : \A k : CameOut(t, k)' => CameOut(t, k)
    BY <1>1, <2>3, <2>4 DEF CameOut
  <2> QED
    BY <1>1, <1>4, <2>2, <2>5, StaysOrdered
<1>7. CASE got' = got /\ gw_tx_msgq' = gw_tx_msgq
  <2>1. OutOrder'
    BY <1>3, <1>5, <1>7 DEF OutOrder
  <2>2. \A t \in Numbered : \A k : CameOut(t, k)' => CameOut(t, k)
    BY <1>1, <1>7 DEF CameOut
  <2> QED
    BY <1>1, <1>4, <2>1, <2>2, StaysOrdered
<1>8. ASSUME got' = got, NEW k \in Nat, gw_tx_msgq' = Append(gw_tx_msgq, <<"gwshell", k>>) PROVE OrderInv'
  <2>0. <<"gwshell", k>> \in Pairs /\ "gwshell" \notin Telemetry
    BY DEF Pairs, Thread, Telemetry
  <2>1. PICK x \in Pairs : x = <<"gwshell", k>> /\ x[1] = "gwshell" /\ x[1] \notin Telemetry
    BY <2>0
  <2>2. PairsOrdered(gw_tx_msgq', Lax) /\ AcrossOrdered(got, gw_tx_msgq', Lax)
    BY <1>3, <1>5, <1>8, <2>1, PairAppended, AcrossAppended
  <2>3. OutOrder'
    BY <1>3, <1>5, <1>8, <2>2 DEF OutOrder
  <2>4. \A i \in 1..Len(gw_tx_msgq') : (i \in 1..Len(gw_tx_msgq) /\ gw_tx_msgq'[i] = gw_tx_msgq[i]) \/ gw_tx_msgq'[i] = x
    BY <1>5, <1>8, <2>1
  <2>5. \A t \in Telemetry : \A j : <<t, j>> # x
    BY <2>1
  <2>6. \A t \in Numbered : \A j : CameOut(t, j)' => CameOut(t, j)
    BY <1>1, <1>8, <2>4, <2>5 DEF CameOut
  <2> QED
    BY <1>1, <1>4, <2>3, <2>6, StaysOrdered
<1> QED
  BY <1>2, <1>6, <1>7, <1>8

LEMMA OrderStep ==
  ASSUME RfBase, RfBase', CounterInv, OrderInv, [RfNext]_rfVars
  PROVE  OrderInv'
<1>0. scenario'.crypt = scenario.crypt /\ (broken => broken')
  BY RfBaseStep, CounterStep
<1>1. Lax => Lax'
  BY <1>0 DEF Lax
<1>2. Lax \in BOOLEAN /\ Lax' \in BOOLEAN
  BY DEF Lax, RfBase, RfTypeOK
<1> HIDE DEF Lax
<1>3. ASSUME NEW t \in Thread, SealLoad(t) \/ SealStore(t) PROVE OrderInv'
  <2>1. UNCHANGED <<got, gw_tx_msgq, shown, rf24_rx_msgq, rx_counter, rx_initialized>>
    BY <1>3 DEF SealLoad, SealStore, SealOnly, udpVars
  <2>2. /\ \A u \in Thread : u # t => snd'[u] = snd[u]
        /\ snd'[t].no = snd[t].no /\ snd[t].at \in {"seal", "store"}
    BY <1>3, SealLoadTyped, SealStoreTyped DEF RfBase, SealLoad, SealStore
  <2> QED
    BY <1>1, <2>1, <2>2, SendingOrdered
<1>4. ASSUME NEW t \in Thread, Produce(t) PROVE OrderInv'
  <2>1. UNCHANGED <<got, gw_tx_msgq, shown, rf24_rx_msgq, rx_counter, rx_initialized>>
    BY <1>4 DEF Produce, cryptVars, udpVars
  <2>2. (\A u \in Thread : u # t => snd'[u] = snd[u]) /\ snd'[t].no = snd[t].no + 1
    <3>1. Starts(t, snd[t].no + 1)
      BY <1>4, ProduceTyped DEF RfBase
    <3> QED
      BY <3>1 DEF Starts
  <2> QED
    BY <1>1, <2>1, <2>2, SendingOrdered
<1>5. ASSUME PingSend PROVE OrderInv'
  <2>1. UNCHANGED <<got, gw_tx_msgq, shown, rf24_rx_msgq, rx_counter, rx_initialized>>
    BY <1>5 DEF PingSend, PingOnly, cryptVars, udpVars
  <2>2. "shell" \in Thread /\ "shell" \notin Numbered /\ \A u \in Thread : u # "shell" => snd'[u] = snd[u]
    BY <1>5, PingSendTyped DEF RfBase, Starts, Thread, Numbered, Telemetry
  <2> QED
    BY <1>1, <2>1, <2>2, SendingOrdered
<1>6. ASSUME NEW t \in Thread, Attempt(t) PROVE OrderInv'
  BY <1>6, AttemptOrdered
<1>7. ASSUME NEW n \in Node, Rx(n) \/ RxRejects(n) \/ Rejoin(n) PROVE OrderInv'
  BY <1>7, TakeOrdered, RejoinOrdered
<1>8. CASE UdpTx \/ ShellSends \/ LinkEvent
  BY <1>8, UdpOrdered
<1>9. CASE EchoPut \/ PingSent \/ PingGot \/ PingTimeout \/ UNCHANGED rfVars
  <2>1. UNCHANGED <<snd, got, gw_tx_msgq, shown, rf24_rx_msgq, rx_counter, rx_initialized>>
    BY <1>9 DEF EchoPut, PingSent, PingGot, PingTimeout, PingOnly, cryptVars, udpVars, rfVars
  <2>2. \A m, c : Stale(m, c) => Stale(m, c)'
    BY <1>1, <2>1 DEF Stale
  <2>3. OutOrder'
    BY <1>1, <1>2, <2>1, Laxer DEF OrderInv, OutOrder
  <2>4. \A t \in Numbered : \A k : CameOut(t, k)' => CameOut(t, k)
    BY <2>1 DEF CameOut
  <2> QED
    BY <2>1, <2>2, <2>3, <2>4, StaysOrdered
<1> QED
  BY <1>3, <1>4, <1>5, <1>6, <1>7, <1>8, <1>9 DEF RfNext

RfInv == RfBase /\ EchoInv /\ CounterInv /\ OrderInv /\ (misread => broken)

LEMMA RfInvStep ==
  ASSUME RfInv, [RfNext]_rfVars
  PROVE  RfInv'
<1>1. RfBase' /\ EchoInv'
  BY RfBaseStep, EchoStep DEF RfInv
<1>2. CounterInv' /\ (broken => broken') /\ (misread' => misread \/ broken)
  BY <1>1, CounterStep DEF RfInv
<1>3. OrderInv'
  BY <1>1, OrderStep DEF RfInv
<1> QED
  BY <1>1, <1>2, <1>3 DEF RfInv

LEMMA RfInvFaithful == RfInv => LinkFaithful
<1> SUFFICES ASSUME RfInv PROVE LinkFaithful
  OBVIOUS
<1>1. \A x, y : NotAfter(x, y, Lax) <=> Before(x, y)
  BY DEF NotAfter, Before, Lax
<1>2. got \in Seq(Thread \X Nat) /\ shown \in Seq(Nat)
  BY DEF RfInv, RfBase, RfTypeOK
<1>3. DOMAIN got = 1..Len(got) /\ DOMAIN shown = 1..Len(shown)
  BY <1>2
<1>4. PairsOrdered(got, Lax) /\ NosOrdered(shown, Lax)
  BY DEF RfInv, OrderInv, OutOrder
<1>5. InOrder
  <2> HIDE DEF Lax
  <2>1. ASSUME NEW i \in DOMAIN got, NEW j \in DOMAIN got, i < j, got[i][1] = got[j][1], got[i][1] \in Telemetry
        PROVE  Before(got[i][2], got[j][2])
    BY <1>1, <1>3, <1>4, <2>1 DEF PairsOrdered
  <2>2. ASSUME NEW i \in DOMAIN shown, NEW j \in DOMAIN shown, i < j PROVE Before(shown[i], shown[j])
    BY <1>1, <1>3, <1>4, <2>2 DEF NosOrdered
  <2> QED
    BY <2>1, <2>2 DEF InOrder
<1>6. OpensRight /\ PingHonest
  BY DEF RfInv, OpensRight, PingHonest, EchoInv, EchoHere
<1> QED
  BY <1>5, <1>6 DEF LinkFaithful

LEMMA RfInvInit == RfInit => RfInv
<1> SUFFICES ASSUME RfInit PROVE RfInv
  OBVIOUS
<1>1. RfBase /\ EchoInv /\ OrderInv
  <2>1. ShellInv
    BY DEF RfInit, ShellInv, Quiet, Thread
  <2> QED
    BY <2>1, RfInitType, EchoInit, OrderInit DEF RfBase
<1>2. CounterInv /\ misread = FALSE
  BY CounterInit
<1> QED
  BY <1>1, <1>2 DEF RfInv

(* What the host gets is in the order in which it was sent, no frame is    *)
(* opened for another and no ping passes for an answered one               *)
(* (nrf24_crypt.c:12, rf24.c:126, rf24_shell.c:252).                       *)
THEOREM LinkFaithfulCorrect == RfSpec => []LinkFaithful
<1>1. RfInit => RfInv
  BY RfInvInit
<1>2. RfInv /\ [RfNext]_rfVars => RfInv'
  BY RfInvStep
<1>3. RfInv => LinkFaithful
  BY RfInvFaithful
<1> QED
  BY <1>1, <1>2, <1>3, PTL DEF RfSpec
=============================================================================
