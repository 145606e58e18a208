-------------------------- MODULE UdpTransfer_proofs --------------------------
(***************************************************************************)
(* Proofs about UdpTransfer, for images and windows of any size, any       *)
(* number of runs and retries, and any faults of the network.              *)
(***************************************************************************)
EXTENDS UdpTransfer, TLAPS

-----------------------------------------------------------------------------
(* Datagrams.  `less` holds no datagram more often than `net`. *)
Fewer(less, net, S) == less \in [S -> 0..Copies] /\ \A m \in S : less[m] <= net[m]

LEMMA TakeFewer ==
  ASSUME NEW S, NEW net \in [S -> 0..Copies], NEW m \in S, net[m] > 0
  PROVE  /\ Fewer(Take(net, m), net, S) /\ Fewer(net, net, S)
         /\ Take(net, m)[m] = net[m] - 1
<1>1. Take(net, m) = [k \in S |-> IF k = m THEN net[m] - 1 ELSE net[k]]
  BY DEF Take
<1>2. \A k \in S : net[k] \in 0..Copies
  OBVIOUS
<1> QED
  BY <1>1, <1>2, TransferAssumption DEF Fewer

LEMMA ReceivedFewer ==
  ASSUME NEW S, NEW net \in [S -> 0..Copies], NEW m \in S, net[m] > 0, NEW rest \in Received(net, m)
  PROVE  Fewer(rest, net, S)
BY TakeFewer DEF Received

LEMMA PutTyped ==
  ASSUME NEW S, NEW net \in [S -> 0..Copies], NEW sent
  PROVE  /\ Put(net, sent) \in [S -> 0..Copies]
         /\ \A m \in S : m \notin sent => Put(net, sent)[m] = net[m]
         /\ \A m \in S : Put(net, sent)[m] <= net[m] + 1
<1>1. Put(net, sent) = [m \in S |-> IF m \in sent THEN Smaller(net[m] + 1, Copies) ELSE net[m]]
  BY DEF Put
<1>2. \A m \in S : net[m] \in 0..Copies
  OBVIOUS
<1>3. \A m \in S : Smaller(net[m] + 1, Copies) \in 0..Copies /\ Smaller(net[m] + 1, Copies) <= net[m] + 1
  BY <1>2, TransferAssumption DEF Smaller
<1> QED
  BY <1>1, <1>2, <1>3

LEMMA NoRepliesTyped == NoReplies \in [Reply -> 0..Copies] /\ \A m \in Reply : NoReplies[m] = 0
BY TransferAssumption DEF NoReplies

-----------------------------------------------------------------------------
(* What each side does to the datagrams of the other. *)

(* The replies of a step: some were read or lost, all were dropped with    *)
(* the socket, or the device put one answer into the open socket of its    *)
(* run.                                                                    *)
Answered(cmd, r, val) ==
  /\ r = run /\ host_pc # "exited"
  /\ replies' = Put(replies, {[cmd |-> cmd, val |-> val]})

LEMMA AnswerIs ==
  ASSUME NEW cmd, NEW r, NEW val, Answer(cmd, r, val)
  PROVE  Answered(cmd, r, val) \/ UNCHANGED replies
BY DEF Answer, Answered

LEMMA AnswerTyped ==
  ASSUME TypeOK, NEW cmd, NEW r, NEW val, Answer(cmd, r, val)
  PROVE  replies' \in [Reply -> 0..Copies]
BY PutTyped DEF Answer, TypeOK

LEMMA AnswerAdds ==
  ASSUME TypeOK, NEW cmd, NEW r, NEW val, Answered(cmd, r, val)
  PROVE  \A k \in Reply : k # [cmd |-> cmd, val |-> val] => replies'[k] = replies[k]
<1>1. PICK sent : sent = {[cmd |-> cmd, val |-> val]}
  OBVIOUS
<1>2. replies' = Put(replies, sent)
  BY <1>1 DEF Answered
<1>3. \A k \in Reply : k \notin sent => replies'[k] = replies[k]
  <2>1. replies \in [Reply -> 0..Copies]
    BY DEF TypeOK
  <2>2. \A k \in Reply : k \notin sent => Put(replies, sent)[k] = replies[k]
    BY <2>1 DEF Put
  <2> QED
    BY <1>2, <2>2, Zenon
<1> QED
  BY <1>1, <1>3, Zenon

LEMMA ArrivedTyped ==
  ASSUME TypeOK, NEW m \in Request, Arrived(m)
  PROVE  Fewer(requests', requests, Request)
BY ReceivedFewer DEF Arrived, TypeOK

LEMMA ConsumedTyped ==
  ASSUME TypeOK, NEW m \in Reply, replies[m] > 0, Consumed(m)
  PROVE  Fewer(replies', replies, Reply)
BY ReceivedFewer DEF Consumed, TypeOK

LEMMA MessagesAre ==
  /\ \A m \in Request : m.run \in Run /\ (m.cmd = "DATA_V2" => m.off \in 0..(N - 1))
  /\ \A m \in Reply : m.cmd = "DATA_V2" => m.val \in 0..N
BY DEF Request, Reply

-----------------------------------------------------------------------------
(* Types *)

(* The retries are counted up to the limit while the tool runs. *)
RetriesLeft == host_pc # "exited" => retries <= MaxRetries

LEMMA NothingStored ==
  ASSUME NEW s, s = <<>>
  PROVE  s \in Seq(Run \X (1..N)) /\ Len(s) = 0 /\ Len(s) <= N
<1>1. s \in Seq(Run \X (1..N))
  OBVIOUS
<1>2. Len(s) = 0
  OBVIOUS
<1> QED
  BY <1>1, <1>2, TransferAssumption

LEMMA DeviceTyped ==
  ASSUME TypeOK, NEW m \in Request, DevStart(m) \/ DevData(m) \/ DevEnd(m)
  PROVE  TypeOK'
<1> USE DEF TypeOK, hostVars
<1>1. requests' \in [Request -> 0..Copies]
  <2>1. Fewer(requests', requests, Request)
    BY ArrivedTyped DEF DevStart, DevData, DevEnd
  <2> QED
    BY <2>1 DEF Fewer
<1>2. replies' \in [Reply -> 0..Copies]
  BY AnswerTyped DEF DevStart, DevData, DevEnd, devVars
<1>3. UNCHANGED hostVars
  BY DEF DevStart, DevData, DevEnd
<1>4. fw_started' \in BOOLEAN /\ stored' \in Seq(Run \X (1..N)) /\ Len(stored') <= N
  <2>1. CASE DevStart(m)
    <3>1. UNCHANGED <<fw_started, stored>> \/ (fw_started' = TRUE /\ stored' = <<>>)
      BY <2>1, Zenon DEF DevStart, devVars
    <3>2. CASE UNCHANGED <<fw_started, stored>>
      BY <3>2
    <3>3. CASE fw_started' = TRUE /\ stored' = <<>>
      BY <3>3, NothingStored
    <3> QED
      BY <3>1, <3>2, <3>3
  <2>2. CASE DevEnd(m)
    BY <2>2 DEF DevEnd
  <2>3. CASE DevData(m)
    <3>1. UNCHANGED stored \/ (m.off = Len(stored) /\ stored' = Append(stored, <<m.run, m.off + 1>>))
      BY <2>3 DEF DevData
    <3>2. m.cmd = "DATA_V2" /\ m.run \in Run /\ m.off \in 0..(N - 1)
      BY <2>3, MessagesAre DEF DevData
    <3>3. <<m.run, m.off + 1>> \in Run \X (1..N)
      BY <3>2, TransferAssumption
    <3>4. CASE m.off = Len(stored) /\ stored' = Append(stored, <<m.run, m.off + 1>>)
      <4>1. stored' \in Seq(Run \X (1..N)) /\ Len(stored') = Len(stored) + 1
        BY <3>3, <3>4
      <4> QED
        BY <4>1, <3>2, <3>4, <2>3, TransferAssumption DEF DevData
    <3>5. CASE UNCHANGED stored
      BY <3>5, <2>3 DEF DevData
    <3> QED
      BY <3>1, <3>4, <3>5
  <2> QED
    BY <2>1, <2>2, <2>3
<1>5. armed' = <<>> \/ \E r \in Run : armed' = ImageOf(r)
  BY MessagesAre DEF DevStart, DevData, DevEnd, devVars
<1> QED
  BY <1>1, <1>2, <1>3, <1>4, <1>5

LEMMA HostTyped ==
  ASSUME TypeOK, RetriesLeft, HostNext
  PROVE  TypeOK' /\ RetriesLeft'
<1> USE DEF TypeOK, RetriesLeft, devVars
<1>1. CASE SendStart
  BY <1>1, PutTyped DEF SendStart
<1>2. CASE SendWindow
  <2>1. win_end' \in 0..N
    BY <1>2, TransferAssumption DEF SendWindow, Smaller
  <2>2. requests' \in [Request -> 0..Copies]
    BY <1>2, PutTyped DEF SendWindow
  <2> QED
    BY <1>2, <2>1, <2>2 DEF SendWindow
<1>3. CASE WindowConfirmed
  BY <1>3 DEF WindowConfirmed
<1>4. CASE WindowTimeout
  BY <1>4, NoRepliesTyped, TransferAssumption DEF WindowTimeout, Exit
<1>5. CASE SendEnd
  BY <1>5, PutTyped DEF SendEnd
<1>6. CASE ReplyTimeout
  BY <1>6, NoRepliesTyped DEF ReplyTimeout, Exit
<1>7. ASSUME NEW m \in Reply, StartReply(m) PROVE TypeOK' /\ RetriesLeft'
  <2>1. replies' \in [Reply -> 0..Copies]
    BY <1>7, ConsumedTyped, NoRepliesTyped DEF StartReply, Exit, Fewer
  <2> QED
    BY <1>7, <2>1 DEF StartReply, Exit
<1>8. ASSUME NEW m \in Reply, ReadAck(m) PROVE TypeOK' /\ RetriesLeft'
  <2>1. replies' \in [Reply -> 0..Copies]
    BY <1>8, ConsumedTyped DEF ReadAck, Fewer
  <2>2. confirmed' \in 0..N /\ retries' \in 0..MaxRetries
    BY <1>8, MessagesAre, TransferAssumption DEF ReadAck
  <2> QED
    BY <1>8, <2>1, <2>2, TransferAssumption DEF ReadAck
<1>9. ASSUME NEW m \in Reply, EndReply(m) PROVE TypeOK' /\ RetriesLeft'
  BY <1>9, NoRepliesTyped DEF EndReply, Exit
<1> QED
  BY <1>1, <1>2, <1>3, <1>4, <1>5, <1>6, <1>7, <1>8, <1>9 DEF HostNext

LEMMA LoseTyped ==
  ASSUME TypeOK, Lose
  PROVE  Fewer(requests', requests, Request) /\ Fewer(replies', replies, Reply)
<1>1. CASE \E m \in Request : requests[m] > 0 /\ requests' = Take(requests, m) /\ UNCHANGED replies
  <2>1. PICK m \in Request : requests[m] > 0 /\ requests' = Take(requests, m) /\ UNCHANGED replies
    BY <1>1
  <2>2. Fewer(requests', requests, Request)
    BY <2>1, TakeFewer DEF TypeOK
  <2> QED
    BY <2>1, <2>2 DEF TypeOK, Fewer
<1>2. CASE \E m \in Reply : replies[m] > 0 /\ replies' = Take(replies, m) /\ UNCHANGED requests
  <2>1. PICK m \in Reply : replies[m] > 0 /\ replies' = Take(replies, m) /\ UNCHANGED requests
    BY <1>2
  <2>2. Fewer(replies', replies, Reply)
    BY <2>1, TakeFewer DEF TypeOK
  <2> QED
    BY <2>1, <2>2 DEF TypeOK, Fewer
<1> QED
  BY <1>1, <1>2 DEF Lose

LEMMA StepTyped ==
  ASSUME TypeOK, RetriesLeft, [Next]_vars
  PROVE  TypeOK' /\ RetriesLeft'
<1>1. CASE UNCHANGED vars
  BY <1>1 DEF vars, hostVars, devVars, TypeOK, RetriesLeft
<1>2. CASE HostNext
  BY <1>2, HostTyped
<1>3. CASE NextRun
  BY <1>3, TransferAssumption DEF NextRun, TypeOK, RetriesLeft, Run, devVars
<1>4. CASE DevNext
  <2>1. TypeOK'
    BY <1>4, DeviceTyped DEF DevNext
  <2>2. UNCHANGED hostVars
    BY <1>4 DEF DevNext, DevStart, DevData, DevEnd
  <2> QED
    BY <2>1, <2>2 DEF RetriesLeft, hostVars
<1>5. CASE Lose
  <2>1. Fewer(requests', requests, Request) /\ Fewer(replies', replies, Reply)
    BY <1>5, LoseTyped
  <2> QED
    BY <1>5, <2>1 DEF Lose, Fewer, TypeOK, RetriesLeft, hostVars, devVars
<1> QED
  BY <1>1, <1>2, <1>3, <1>4, <1>5 DEF Next

LEMMA InitTyped == Init => TypeOK /\ RetriesLeft
<1> SUFFICES ASSUME Init PROVE TypeOK /\ RetriesLeft
  OBVIOUS
<1>1. requests \in [Request -> 0..Copies] /\ replies \in [Reply -> 0..Copies]
  BY TransferAssumption, NoRepliesTyped DEF Init
<1>2. stored = <<>> /\ armed = <<>> /\ fw_started \in BOOLEAN
  BY DEF Init
<1>3. /\ run \in Run /\ host_pc = "start" /\ exit = "none"
      /\ off = 0 /\ win_end = 0 /\ confirmed = 0 /\ retries = 0
  BY TransferAssumption DEF Init, Run
<1> QED
  BY <1>1, <1>2, <1>3, NothingStored, TransferAssumption DEF TypeOK, RetriesLeft

(* Every variable keeps its type, and the tool counts its retries up to    *)
(* UDP_FW_V2_MAX_RETRIES while it runs.                                    *)
THEOREM TypeCorrect == Spec => [](TypeOK /\ RetriesLeft)
<1>1. TypeOK /\ RetriesLeft /\ [Next]_vars => (TypeOK /\ RetriesLeft)'
  BY StepTyped
<1> QED
  BY <1>1, InitTyped, PTL DEF Spec

LEMMA InPlaceStep ==
  ASSUME TypeOK, InPlace, [Next]_vars
  PROVE  InPlace'
<1>1. CASE UNCHANGED stored
  BY <1>1 DEF InPlace
<1>2. CASE stored' = <<>>
  <2>1. Len(stored') = 0
    BY <1>2
  <2> QED
    BY <2>1 DEF InPlace
<1>3. ASSUME NEW m \in Request, DevData(m), ~UNCHANGED stored PROVE InPlace'
  <2>1. m.off = Len(stored) /\ stored' = Append(stored, <<m.run, m.off + 1>>)
    BY <1>3 DEF DevData
  <2>2. /\ Len(stored') = Len(stored) + 1 /\ stored'[Len(stored) + 1] = <<m.run, m.off + 1>>
        /\ \A i \in 1..Len(stored) : stored'[i] = stored[i]
    BY <2>1 DEF TypeOK
  <2>3. Len(stored) \in Nat
    BY DEF TypeOK
  <2> QED
    BY <2>1, <2>2, <2>3 DEF InPlace
<1>4. UNCHANGED stored \/ stored' = <<>> \/ \E m \in Request : DevData(m)
  BY Zenon DEF Next, HostNext, NextRun, DevNext, DevStart, DevEnd, Lose, vars, devVars, SendStart,
     SendWindow, WindowConfirmed, WindowTimeout, SendEnd, ReplyTimeout, StartReply, ReadAck, EndReply
<1> QED
  BY <1>1, <1>2, <1>3, <1>4

(* A chunk is stored at its own offset, whatever the network repeats or    *)
(* reorders (udp_fw_upgrade.c:344).                                        *)
THEOREM InPlaceCorrect == Spec => []InPlace
<1>1. Init => InPlace
  <2> SUFFICES ASSUME Init PROVE Len(stored) = 0
    BY DEF InPlace
  <2>1. stored = <<>>
    BY DEF Init
  <2> QED
    BY <2>1
<1>2. TypeOK /\ InPlace /\ [Next]_vars => InPlace'
  BY InPlaceStep
<1> QED
  BY <1>1, <1>2, TypeCorrect, PTL DEF Spec

-----------------------------------------------------------------------------
(* What is armed.  An image is armed once, when no session is open any     *)
(* more.  An answer that says so is about the run whose socket is open,    *)
(* because the device answers to the socket of the request and the tool    *)
(* closes it at the end of its run: that is what an exit code 0 rests on.  *)
Done(m) == m.cmd = "END" /\ m.val = 1

ArmedInv ==
  /\ armed # <<>> => ~fw_started
  /\ \A m \in Reply : Done(m) /\ replies[m] > 0 => armed = ImageOf(run)
  /\ host_pc = "exited" => replies = NoReplies
  /\ exit = "ok" => host_pc = "exited" /\ armed = ImageOf(run)

LEMMA ImageNotEmpty == \A r : ImageOf(r) # <<>>
<1> SUFFICES ASSUME NEW r, ImageOf(r) = <<>> PROVE FALSE
  OBVIOUS
<1>1. DOMAIN ImageOf(r) = 1..N
  BY DEF ImageOf
<1>2. DOMAIN <<>> = 1..0
  OBVIOUS
<1> QED
  BY <1>1, <1>2, TransferAssumption

(* Nothing is armed anew while something is, or an answer says so. *)
LEMMA NotArmedYet ==
  ASSUME ArmedInv, fw_started
  PROVE  /\ armed = <<>> /\ exit # "ok"
         /\ \A m \in Reply : Done(m) => ~(replies[m] > 0)
BY ImageNotEmpty DEF ArmedInv

LEMMA EndArms ==
  ASSUME TypeOK, ArmedInv, NEW m \in Request, DevEnd(m)
  PROVE  ArmedInv'
<1>1. fw_started' = FALSE /\ UNCHANGED <<run, host_pc, exit>>
  BY DEF DevEnd, hostVars
<1>2. CASE fw_started /\ stored = ImageOf(m.run)
  <2>1. armed' = ImageOf(m.run) /\ Answer("END", m.run, 1)
    BY <1>2 DEF DevEnd
  <2>2. exit # "ok" /\ \A k \in Reply : Done(k) => ~(replies[k] > 0)
    BY <1>2, NotArmedYet
  <2>3. CASE Answered("END", m.run, 1)
    <3>1. m.run = run /\ host_pc # "exited"
      BY <2>3 DEF Answered
    <3> QED
      BY <1>1, <2>1, <2>2, <3>1 DEF ArmedInv
  <2>4. CASE UNCHANGED replies
    BY <1>1, <2>2, <2>4 DEF ArmedInv
  <2> QED
    BY <2>1, <2>3, <2>4, AnswerIs
<1>3. CASE ~(fw_started /\ stored = ImageOf(m.run))
  <2>1. UNCHANGED armed /\ Answer("END", m.run, 0)
    BY <1>3 DEF DevEnd
  <2>2. CASE Answered("END", m.run, 0)
    <3>1. \A k \in Reply : Done(k) => k # [cmd |-> "END", val |-> 0]
      BY DEF Done
    <3>2. \A k \in Reply : Done(k) => replies'[k] = replies[k]
      BY <2>2, <3>1, AnswerAdds
    <3>3. host_pc # "exited"
      BY <2>2 DEF Answered
    <3> QED
      BY <1>1, <2>1, <3>2, <3>3 DEF ArmedInv
  <2>3. CASE UNCHANGED replies
    BY <1>1, <2>1, <2>3 DEF ArmedInv
  <2> QED
    BY <2>1, <2>2, <2>3, AnswerIs
<1> QED
  BY <1>2, <1>3

LEMMA OthersArmNothing ==
  ASSUME TypeOK, ArmedInv, NEW m \in Request, DevStart(m) \/ DevData(m)
  PROVE  ArmedInv'
<1>1. UNCHANGED <<run, host_pc, exit, armed>>
  BY DEF DevStart, DevData, hostVars, devVars
<1>2. armed # <<>> => ~fw_started'
  BY DEF DevStart, DevData, devVars, ArmedInv
<1>3. PICK cmd, val : cmd \in {"START", "DATA_V2"} /\ Answer(cmd, m.run, val)
  <2>1. CASE DevStart(m)
    BY <2>1 DEF DevStart
  <2>2. CASE DevData(m)
    BY <2>2 DEF DevData
  <2> QED
    BY <2>1, <2>2
<1>4. CASE Answered(cmd, m.run, val)
  <2>1. \A k \in Reply : Done(k) => k # [cmd |-> cmd, val |-> val]
    BY <1>3 DEF Done
  <2>2. \A k \in Reply : Done(k) => replies'[k] = replies[k]
    BY <1>4, <2>1, AnswerAdds
  <2>3. host_pc # "exited"
    BY <1>4 DEF Answered
  <2> QED
    BY <1>1, <1>2, <2>2, <2>3 DEF ArmedInv
<1>5. CASE UNCHANGED replies
  BY <1>1, <1>2, <1>5 DEF ArmedInv
<1> QED
  BY <1>3, <1>4, <1>5, AnswerIs

(* The tool, apart from the end of a run: it reads replies and adds none. *)
LEMMA FewerKeepsArmed ==
  ASSUME TypeOK, ArmedInv, Fewer(replies', replies, Reply), UNCHANGED <<run, exit, devVars>>,
         host_pc' # "exited", exit # "ok" \/ UNCHANGED host_pc
  PROVE  ArmedInv'
<1>1. \A m \in Reply : replies'[m] > 0 => replies[m] > 0
  BY DEF Fewer, TypeOK
<1> QED
  BY <1>1 DEF ArmedInv, devVars

LEMMA ExitKeepsArmed ==
  ASSUME ArmedInv, NEW code, Exit(code), UNCHANGED <<run, devVars>>,
         code = "ok" => armed = ImageOf(run)
  PROVE  ArmedInv'
BY NoRepliesTyped DEF ArmedInv, Exit, devVars

LEMMA HostArmed ==
  ASSUME TypeOK, ArmedInv, HostNext
  PROVE  ArmedInv'
<1>1. CASE SendStart \/ SendWindow \/ WindowConfirmed \/ SendEnd
  <2>1. Fewer(replies', replies, Reply)
    BY <1>1 DEF SendStart, SendWindow, WindowConfirmed, SendEnd, TypeOK, Fewer
  <2>2. exit # "ok" /\ host_pc' # "exited" /\ UNCHANGED <<run, exit, devVars>>
    BY <1>1 DEF SendStart, SendWindow, WindowConfirmed, SendEnd, ArmedInv
  <2> QED
    BY <2>1, <2>2, FewerKeepsArmed
<1>2. CASE WindowTimeout
  <2>1. CASE Exit("comm")
    BY <1>2, <2>1, ExitKeepsArmed DEF WindowTimeout
  <2>2. CASE host_pc' = "send" /\ UNCHANGED <<exit, replies>>
    BY <1>2, <2>2, FewerKeepsArmed DEF WindowTimeout, ArmedInv, TypeOK, Fewer
  <2> QED
    BY <1>2, <2>1, <2>2 DEF WindowTimeout
<1>3. CASE ReplyTimeout
  BY <1>3, ExitKeepsArmed DEF ReplyTimeout
<1>4. ASSUME NEW m \in Reply, StartReply(m) PROVE ArmedInv'
  <2>1. CASE Exit("comm") \/ Exit("reject")
    BY <1>4, <2>1, ExitKeepsArmed DEF StartReply
  <2>2. CASE Consumed(m) /\ host_pc' = "send" /\ UNCHANGED exit
    <3>1. Fewer(replies', replies, Reply)
      BY <1>4, <2>2, ConsumedTyped DEF StartReply
    <3> QED
      BY <1>4, <2>2, <3>1, FewerKeepsArmed DEF StartReply, ArmedInv
  <2> QED
    BY <1>4, <2>1, <2>2 DEF StartReply
<1>5. ASSUME NEW m \in Reply, ReadAck(m) PROVE ArmedInv'
  <2>1. Fewer(replies', replies, Reply)
    BY <1>5, ConsumedTyped DEF ReadAck
  <2> QED
    BY <1>5, <2>1, FewerKeepsArmed DEF ReadAck
<1>6. ASSUME NEW m \in Reply, EndReply(m) PROVE ArmedInv'
  <2>1. Done(m) => armed = ImageOf(run)
    BY <1>6 DEF EndReply, ArmedInv
  <2>2. PICK code : Exit(code) /\ (code = "ok" => Done(m))
    BY <1>6 DEF EndReply, Done
  <2> QED
    BY <1>6, <2>1, <2>2, ExitKeepsArmed DEF EndReply
<1> QED
  BY <1>1, <1>2, <1>3, <1>4, <1>5, <1>6 DEF HostNext

LEMMA ArmedStep ==
  ASSUME TypeOK, ArmedInv, [Next]_vars
  PROVE  ArmedInv'
<1>1. CASE UNCHANGED vars
  BY <1>1 DEF vars, hostVars, devVars, ArmedInv
<1>2. CASE NextRun
  <2>1. \A m \in Reply : ~(replies'[m] > 0)
    BY <1>2, NoRepliesTyped DEF NextRun, ArmedInv
  <2> QED
    BY <1>2, <2>1 DEF NextRun, ArmedInv, devVars
<1>3. CASE DevNext
  BY <1>3, EndArms, OthersArmNothing DEF DevNext
<1>4. CASE Lose
  <2>1. \A m \in Reply : replies'[m] <= replies[m] /\ replies[m] \in Nat /\ replies'[m] \in Nat
    BY <1>4, LoseTyped DEF Fewer, TypeOK
  <2>2. host_pc = "exited" => replies' = NoReplies
    <3> SUFFICES ASSUME host_pc = "exited" PROVE replies' = NoReplies
      OBVIOUS
    <3>1. \A m \in Reply : replies'[m] = NoReplies[m]
      BY <2>1, NoRepliesTyped DEF ArmedInv
    <3> QED
      BY <1>4, <3>1, LoseTyped, NoRepliesTyped DEF Fewer
  <2> QED
    BY <1>4, <2>1, <2>2 DEF Lose, ArmedInv, hostVars, devVars
<1> QED
  BY <1>1, <1>2, <1>3, <1>4, HostArmed DEF Next

LEMMA ArmedInit == Init => ArmedInv
BY NoRepliesTyped DEF Init, ArmedInv

(* The invariant above, for every network and every sequence of runs. *)
THEOREM ArmedCorrect == Spec => [](TypeOK /\ RetriesLeft /\ ArmedInv)
<1>1. TypeOK /\ RetriesLeft /\ ArmedInv /\ [Next]_vars => (TypeOK /\ RetriesLeft /\ ArmedInv)'
  BY StepTyped, ArmedStep
<1> QED
  BY <1>1, InitTyped, ArmedInit, PTL DEF Spec

(* The device never asks MCUboot for a mixture of the frames of two runs    *)
(* or for an incomplete image (udp_fw_upgrade.c:379), and exit code 0 means *)
(* that this run's image is the armed one (firmware_upgrade.c:682), even    *)
(* when the network repeats datagrams of this run and of earlier ones.      *)
THEOREM ImageCorrect == Spec => []RightImage
<1>1. TypeOK /\ ArmedInv => RightImage
  BY DEF TypeOK, ArmedInv, RightImage, ArmedWhole, SuccessIsArmed
<1> QED
  BY <1>1, ArmedCorrect, PTL

-----------------------------------------------------------------------------
(* What is confirmed.  In the first run of the tool, over a network that   *)
(* may delay, reorder and lose, the only START reaches the device before   *)
(* anything is stored.  From then on nothing is taken back, and every      *)
(* offset that was answered is one the device still has.                   *)
OneRun ==
  /\ "dup" \notin Faults /\ run = 1
  /\ \A m \in Request : requests[m] > 0 => m.run = 1

StartOf  == [cmd |-> "START", run |-> 1, off |-> 0]
Accepted == [cmd |-> "START", val |-> 1]

StartInv ==
  /\ host_pc = "start" =>
       /\ ~fw_started /\ stored = <<>> /\ replies = NoReplies
       /\ \A m \in Request : ~(requests[m] > 0)
  /\ requests[StartOf] > 0 =>
       /\ requests[StartOf] = 1 /\ ~fw_started /\ stored = <<>> /\ ~(replies[Accepted] > 0)
       /\ host_pc \in {"start_reply", "exited"}

ConfirmedInv ==
  /\ \A m \in Reply : m.cmd = "DATA_V2" /\ replies[m] > 0 => m.val <= Len(stored)
  /\ confirmed <= Len(stored) /\ off <= Len(stored)

LEMMA StartIs ==
  /\ StartOf \in Request /\ Accepted \in Reply
  /\ \A m \in Request : m.cmd = "START" /\ m.run = 1 => m = StartOf
<1>1. 1 \in Run
  BY TransferAssumption DEF Run
<1> QED
  BY <1>1 DEF Request, Reply, StartOf, Accepted

(* Nothing of a later run is under way in the first. *)
LEMMA OneRunStep ==
  ASSUME TypeOK, OneRun, [Next]_vars, run' = 1
  PROVE  OneRun'
<1> SUFFICES ASSUME NEW m \in Request, requests'[m] > 0
             PROVE  m.run = 1
  BY DEF OneRun
<1>1. CASE UNCHANGED requests
  BY <1>1 DEF OneRun
<1>2. CASE Fewer(requests', requests, Request)
  BY <1>2 DEF OneRun, Fewer, TypeOK
<1>3. ASSUME NEW sent, requests' = Put(requests, sent), \A x \in sent : x.run = run
      PROVE  m.run = 1
  <2>1. m \in sent \/ requests'[m] = requests[m]
    BY <1>3 DEF Put, TypeOK
  <2> QED
    BY <1>3, <2>1 DEF OneRun
<1>4. CASE SendStart \/ SendWindow \/ SendEnd
  <2>1. CASE SendStart
    BY <2>1, <1>3 DEF SendStart
  <2>2. CASE SendWindow
    BY <2>2, <1>3 DEF SendWindow
  <2>3. CASE SendEnd
    BY <2>3, <1>3 DEF SendEnd
  <2> QED
    BY <1>4, <2>1, <2>2, <2>3
<1>5. CASE DevNext
  BY <1>5, <1>2, ArrivedTyped DEF DevNext, DevStart, DevData, DevEnd, Arrived
<1>6. CASE Lose
  BY <1>6, <1>2, LoseTyped DEF Lose
<1>7. CASE NextRun \/ WindowConfirmed \/ WindowTimeout \/ ReplyTimeout
           \/ \E k \in Reply : StartReply(k) \/ ReadAck(k) \/ EndReply(k)
  BY <1>7, <1>1 DEF NextRun, WindowConfirmed, WindowTimeout, ReplyTimeout, StartReply, ReadAck, EndReply
<1>8. CASE UNCHANGED vars
  BY <1>8, <1>1 DEF vars
<1> QED
  BY <1>4, <1>5, <1>6, <1>7, <1>8 DEF Next, HostNext

(* The device's handlers. *)
LEMMA DataConfirmed ==
  ASSUME OneRun, TypeOK, StartInv, ConfirmedInv, NEW m \in Request, DevData(m)
  PROVE  StartInv' /\ ConfirmedInv'
<1>1. /\ requests[m] > 0 /\ Fewer(requests', requests, Request)
      /\ UNCHANGED hostVars /\ m.cmd = "DATA_V2" /\ m.off \in 0..(N - 1)
  BY ArrivedTyped, MessagesAre DEF DevData, Arrived
<1>2. requests'[StartOf] > 0 => requests[StartOf] > 0 /\ requests'[StartOf] <= requests[StartOf]
  BY <1>1, StartIs DEF Fewer, TypeOK
<1>3. PICK val \in 0..N : Answer("DATA_V2", m.run, val) /\ val <= Len(stored') /\ Len(stored) <= Len(stored')
  <2>1. Len(stored) \in 0..N
    BY TransferAssumption DEF TypeOK
  <2>2. CASE m.off = Len(stored) /\ stored' = Append(stored, <<m.run, m.off + 1>>)
             /\ Answer("DATA_V2", m.run, Len(stored'))
    <3>1. Len(stored') = Len(stored) + 1
      BY <2>2 DEF TypeOK
    <3> QED
      BY <1>1, <2>1, <2>2, <3>1, TransferAssumption
  <2>3. CASE UNCHANGED stored /\ (Answer("DATA_V2", m.run, Len(stored)) \/ Answer("DATA_V2", m.run, 0))
    BY <2>1, <2>3, TransferAssumption
  <2> QED
    BY <2>2, <2>3 DEF DevData
<1>4. \A k \in Reply : k # [cmd |-> "DATA_V2", val |-> val] => replies'[k] = replies[k]
  BY <1>3, AnswerIs, AnswerAdds
<1>5. ~fw_started => UNCHANGED <<fw_started, stored>>
  BY DEF DevData
<1>6. replies'[Accepted] = replies[Accepted]
  BY <1>4, StartIs DEF Accepted
<1>7. StartInv'
  <2>1. requests'[StartOf] > 0 => requests'[StartOf] = 1
    BY <1>1, <1>2, StartIs DEF StartInv, Fewer, TypeOK
  <2> QED
    BY <1>1, <1>2, <1>5, <1>6, <2>1 DEF StartInv, hostVars
<1>8. \A k \in Reply : k.cmd = "DATA_V2" /\ replies'[k] > 0 => k.val <= Len(stored')
  <2> SUFFICES ASSUME NEW k \in Reply, k.cmd = "DATA_V2", replies'[k] > 0 PROVE k.val <= Len(stored')
    OBVIOUS
  <2>1. CASE k = [cmd |-> "DATA_V2", val |-> val]
    BY <1>3, <2>1
  <2>2. CASE k # [cmd |-> "DATA_V2", val |-> val]
    <3>1. k.val <= Len(stored) /\ k.val \in Int
      BY <1>4, <2>2, MessagesAre DEF ConfirmedInv
    <3>2. Len(stored) \in Int /\ Len(stored') \in Int
      BY DeviceTyped DEF TypeOK
    <3> QED
      BY <1>3, <3>1, <3>2
  <2> QED
    BY <2>1, <2>2
<1>9. confirmed' <= Len(stored') /\ off' <= Len(stored')
  <2>1. Len(stored) \in Int /\ Len(stored') \in Int
    BY DeviceTyped DEF TypeOK
  <2> QED
    BY <1>1, <1>3, <2>1 DEF ConfirmedInv, TypeOK, hostVars
<1> QED
  BY <1>7, <1>8, <1>9 DEF ConfirmedInv

LEMMA StartConfirmed ==
  ASSUME OneRun, TypeOK, StartInv, ConfirmedInv, NEW m \in Request, DevStart(m)
  PROVE  StartInv' /\ ConfirmedInv'
<1>1. m = StartOf /\ requests[m] > 0 /\ requests' = Take(requests, m) /\ UNCHANGED hostVars
  BY StartIs DEF DevStart, Arrived, Received, OneRun
<1>2. requests[StartOf] = 1 /\ stored = <<>> /\ host_pc # "start"
  BY <1>1 DEF StartInv
<1>3. ~(requests'[StartOf] > 0)
  BY <1>1, <1>2, StartIs, TakeFewer DEF TypeOK
<1>4. stored' = stored
  BY <1>2 DEF DevStart, devVars
<1>5. PICK val : Answer("START", m.run, val)
  BY DEF DevStart
<1>6. \A k \in Reply : k.cmd = "DATA_V2" => replies'[k] = replies[k]
  <2>1. \A k \in Reply : k.cmd = "DATA_V2" => k # [cmd |-> "START", val |-> val]
    OBVIOUS
  <2> QED
    BY <1>5, <2>1, AnswerIs, AnswerAdds
<1> QED
  BY <1>1, <1>2, <1>3, <1>4, <1>6 DEF StartInv, ConfirmedInv, hostVars

LEMMA EndConfirmed ==
  ASSUME OneRun, TypeOK, StartInv, ConfirmedInv, NEW m \in Request, DevEnd(m)
  PROVE  StartInv' /\ ConfirmedInv'
<1>1. /\ requests[m] > 0 /\ Fewer(requests', requests, Request)
      /\ UNCHANGED <<stored, hostVars>> /\ fw_started' = FALSE
  BY ArrivedTyped DEF DevEnd, Arrived
<1>2. requests'[StartOf] > 0 => requests[StartOf] > 0 /\ requests'[StartOf] <= requests[StartOf]
  BY <1>1, StartIs DEF Fewer, TypeOK
<1>3. PICK val : Answer("END", m.run, val)
  BY DEF DevEnd
<1>4. \A k \in Reply : k.cmd # "END" => replies'[k] = replies[k]
  <2>1. \A k \in Reply : k.cmd # "END" => k # [cmd |-> "END", val |-> val]
    OBVIOUS
  <2> QED
    BY <1>3, <2>1, AnswerIs, AnswerAdds
<1>5. replies'[Accepted] = replies[Accepted]
  BY <1>4, StartIs DEF Accepted
<1>6. requests'[StartOf] > 0 => requests'[StartOf] = 1
  BY <1>1, <1>2, StartIs DEF StartInv, Fewer, TypeOK
<1>7. StartInv'
  BY <1>1, <1>2, <1>5, <1>6 DEF StartInv, hostVars
<1> QED
  BY <1>1, <1>4, <1>7 DEF ConfirmedInv, hostVars

(* The tool. *)
LEMMA SendsConfirmed ==
  ASSUME OneRun, TypeOK, StartInv, ConfirmedInv, SendStart \/ SendWindow \/ SendEnd
  PROVE  StartInv' /\ ConfirmedInv'
<1>1. CASE SendStart
  <2>1. ~(requests[StartOf] > 0) /\ ~fw_started /\ stored = <<>> /\ replies = NoReplies
    BY <1>1, StartIs DEF SendStart, StartInv
  <2>2. requests[StartOf] \in 0..Copies /\ requests'[StartOf] \in 0..Copies
        /\ requests'[StartOf] <= requests[StartOf] + 1
    <3>1. PICK sent : requests' = Put(requests, sent)
      BY <1>1 DEF SendStart
    <3>2. /\ Put(requests, sent) \in [Request -> 0..Copies]
          /\ Put(requests, sent)[StartOf] <= requests[StartOf] + 1
      BY StartIs, PutTyped DEF TypeOK
    <3> QED
      BY <3>1, <3>2, StartIs DEF TypeOK
  <2>3. requests'[StartOf] > 0 => requests'[StartOf] = 1
    BY <2>1, <2>2, TransferAssumption
  <2>4. ~(replies[Accepted] > 0)
    BY <2>1, StartIs, NoRepliesTyped
  <2> QED
    BY <1>1, <2>1, <2>3, <2>4 DEF SendStart, StartInv, ConfirmedInv, devVars
<1>2. CASE SendWindow \/ SendEnd
  <2>1. ~(requests[StartOf] > 0)
    BY <1>2 DEF SendWindow, SendEnd, StartInv
  <2>2. PICK sent : requests' = Put(requests, sent) /\ StartOf \notin sent
    <3>1. CASE SendWindow
      <4>1. StartOf \notin {[cmd |-> "DATA_V2", run |-> run, off |-> w] : w \in off..(win_end' - 1)}
        BY DEF StartOf
      <4> QED
        BY <3>1, <4>1 DEF SendWindow
    <3>2. CASE SendEnd
      <4>1. StartOf \notin {[cmd |-> "END", run |-> run, off |-> 0]}
        BY DEF StartOf
      <4> QED
        BY <3>2, <4>1 DEF SendEnd
    <3> QED
      BY <1>2, <3>1, <3>2
  <2>3. ~(requests'[StartOf] > 0)
    <3>1. Put(requests, sent)[StartOf] = requests[StartOf]
      BY <2>2, StartIs, PutTyped DEF TypeOK
    <3> QED
      BY <2>1, <2>2, <3>1
  <2>4. /\ host_pc' # "start" /\ UNCHANGED <<replies, devVars, off>>
        /\ confirmed' = off \/ UNCHANGED confirmed
    BY <1>2 DEF SendWindow, SendEnd
  <2> QED
    BY <2>3, <2>4 DEF StartInv, ConfirmedInv, devVars
<1> QED
  BY <1>1, <1>2

LEMMA ReadsConfirmed ==
  ASSUME OneRun, TypeOK, StartInv, ConfirmedInv,
         Fewer(replies', replies, Reply) \/ replies' = NoReplies,
         UNCHANGED <<requests, devVars>>, host_pc' # "start", host_pc # "start",
         UNCHANGED host_pc \/ host_pc' = "exited" \/ ~(requests[StartOf] > 0),
         off' \in {off, confirmed}, confirmed' <= Len(stored)
  PROVE  StartInv' /\ ConfirmedInv'
<1>1. \A m \in Reply : replies'[m] > 0 => replies[m] > 0
  BY NoRepliesTyped DEF Fewer, TypeOK
<1>2. StartInv'
  BY <1>1, StartIs DEF StartInv, devVars
<1>3. UNCHANGED stored
  BY DEF devVars
<1> QED
  BY <1>1, <1>2, <1>3 DEF ConfirmedInv

LEMMA HostConfirmed ==
  ASSUME OneRun, TypeOK, StartInv, ConfirmedInv, HostNext
  PROVE  StartInv' /\ ConfirmedInv'
<1>1. CASE SendStart \/ SendWindow \/ SendEnd
  BY <1>1, SendsConfirmed
<1>2. CASE WindowConfirmed \/ WindowTimeout \/ ReplyTimeout
  <2>1. Fewer(replies', replies, Reply) \/ replies' = NoReplies
    BY <1>2 DEF WindowConfirmed, WindowTimeout, ReplyTimeout, Exit, Fewer, TypeOK
  <2>2. /\ UNCHANGED <<requests, devVars, confirmed>> /\ off' \in {off, confirmed}
        /\ host_pc # "start" /\ host_pc' # "start"
        /\ host_pc' = "exited" \/ ~(requests[StartOf] > 0)
    BY <1>2 DEF WindowConfirmed, WindowTimeout, ReplyTimeout, Exit, StartInv
  <2> QED
    BY <2>1, <2>2, ReadsConfirmed DEF ConfirmedInv
<1>3. ASSUME NEW m \in Reply, StartReply(m) PROVE StartInv' /\ ConfirmedInv'
  <2>1. Fewer(replies', replies, Reply) \/ replies' = NoReplies
    BY <1>3, ConsumedTyped DEF StartReply, Exit
  <2>2. m.cmd = "START" /\ m.val = 1 => m = Accepted
    BY DEF Reply, Accepted
  <2>3. /\ UNCHANGED <<requests, devVars, confirmed, off>> /\ host_pc # "start" /\ host_pc' # "start"
        /\ host_pc' = "exited" \/ ~(requests[StartOf] > 0)
    BY <1>3, <2>2 DEF StartReply, Exit, StartInv
  <2> QED
    BY <2>1, <2>3, ReadsConfirmed DEF ConfirmedInv
<1>4. ASSUME NEW m \in Reply, ReadAck(m) PROVE StartInv' /\ ConfirmedInv'
  <2>1. Fewer(replies', replies, Reply)
    BY <1>4, ConsumedTyped DEF ReadAck
  <2>2. UNCHANGED <<requests, devVars, off, host_pc>> /\ host_pc # "start"
    BY <1>4 DEF ReadAck
  <2>3. confirmed' <= Len(stored)
    BY <1>4 DEF ReadAck, ConfirmedInv
  <2> QED
    BY <2>1, <2>2, <2>3, ReadsConfirmed
<1>5. ASSUME NEW m \in Reply, EndReply(m) PROVE StartInv' /\ ConfirmedInv'
  <2>1. /\ UNCHANGED <<requests, devVars, confirmed, off>> /\ replies' = NoReplies
        /\ host_pc # "start" /\ host_pc' = "exited"
    BY <1>5 DEF EndReply, Exit
  <2> QED
    BY <2>1, ReadsConfirmed DEF ConfirmedInv
<1> QED
  BY <1>1, <1>2, <1>3, <1>4, <1>5 DEF HostNext

LEMMA ConfirmedStep ==
  ASSUME OneRun, TypeOK, StartInv, ConfirmedInv, [Next]_vars, run' = 1
  PROVE  StartInv' /\ ConfirmedInv'
<1>1. CASE UNCHANGED vars
  BY <1>1 DEF vars, hostVars, devVars, StartInv, ConfirmedInv
<1>2. CASE NextRun
  <2>1. run' = 2
    BY <1>2 DEF NextRun, OneRun
  <2> QED
    BY <2>1
<1>3. CASE DevNext
  BY <1>3, DataConfirmed, StartConfirmed, EndConfirmed DEF DevNext
<1>4. CASE Lose
  <2>1. Fewer(requests', requests, Request) /\ Fewer(replies', replies, Reply) /\ UNCHANGED <<hostVars, devVars>>
    BY <1>4, LoseTyped DEF Lose
  <2>2. \A m \in Reply : replies'[m] > 0 => replies[m] > 0
    BY <2>1 DEF Fewer, TypeOK
  <2>3. \A m \in Request : requests'[m] > 0 => requests[m] > 0
    BY <2>1 DEF Fewer, TypeOK
  <2>4. requests'[StartOf] > 0 => requests[StartOf] > 0 /\ (requests[StartOf] = 1 => requests'[StartOf] = 1)
    BY <2>1, StartIs DEF Fewer, TypeOK
  <2>5. host_pc = "start" => replies' = NoReplies
    <3> SUFFICES ASSUME host_pc = "start" PROVE replies' = NoReplies
      OBVIOUS
    <3>1. \A m \in Reply : replies'[m] = NoReplies[m]
      BY <2>1, NoRepliesTyped DEF Fewer, StartInv
    <3> QED
      BY <2>1, <3>1, NoRepliesTyped DEF Fewer
  <2> QED
    BY <2>1, <2>2, <2>3, <2>4, <2>5, StartIs DEF StartInv, ConfirmedInv, hostVars, devVars
<1> QED
  BY <1>1, <1>2, <1>3, <1>4, HostConfirmed DEF Next

LEMMA ConfirmedInit ==
  ASSUME "dup" \notin Faults PROVE Init => OneRun /\ StartInv /\ ConfirmedInv
<1> SUFFICES ASSUME Init PROVE OneRun /\ StartInv /\ ConfirmedInv
  OBVIOUS
<1>1. \A m \in Request : ~(requests[m] > 0)
  BY DEF Init
<1>2. /\ stored = <<>> /\ ~fw_started /\ replies = NoReplies /\ confirmed = 0 /\ off = 0
  BY DEF Init
<1>3. Len(stored) = 0
  BY <1>2
<1>4. OneRun
  BY <1>1 DEF OneRun, Init
<1> QED
  BY <1>1, <1>2, <1>3, <1>4, NoRepliesTyped, StartIs DEF StartInv, ConfirmedInv

(* In a run that no run came before, over a network that delays, reorders  *)
(* and loses, no chunk below the confirmed offset is missing on the device: *)
(* the tool may go on from there (firmware_upgrade.c:433), for any window.  *)
THEOREM ConfirmedCorrect ==
  ASSUME "dup" \notin Faults PROVE Spec => []ConfirmedStored
<1> DEFINE Inv == TypeOK /\ RetriesLeft /\ (run = 1 => OneRun /\ StartInv /\ ConfirmedInv)
<1>1. Inv /\ [Next]_vars => Inv'
  <2> SUFFICES ASSUME Inv, [Next]_vars PROVE Inv'
    OBVIOUS
  <2>1. TypeOK' /\ RetriesLeft'
    BY StepTyped
  <2>2. run' = 1 => run = 1
    <3>1. CASE NextRun
      <4>1. run \in Nat \ {0} /\ run' = run + 1
        BY <3>1 DEF NextRun, TypeOK, Run
      <4> QED
        BY <4>1
    <3>2. CASE UNCHANGED run
      BY <3>2
    <3> QED
      BY <3>1, <3>2, Zenon DEF Next, HostNext, DevNext, DevStart, DevData, DevEnd, Lose, vars, hostVars,
         SendStart, SendWindow, WindowConfirmed, WindowTimeout, SendEnd, ReplyTimeout, StartReply, ReadAck, EndReply
  <2>3. run' = 1 => OneRun' /\ StartInv' /\ ConfirmedInv'
    BY <2>2, OneRunStep, ConfirmedStep
  <2> QED
    BY <2>1, <2>3
<1>2. Inv => ConfirmedStored
  BY DEF ConfirmedInv, ConfirmedStored
<1>3. Init => Inv
  BY InitTyped, ConfirmedInit
<1> QED
  BY <1>1, <1>2, <1>3, PTL DEF Spec
=============================================================================
