----------------------------- MODULE UdpTransfer -----------------------------
(***************************************************************************)
(* A firmware transfer over UDP: the host tool (upgrade_udp and its        *)
(* go-back-N stream of DATA_V2 frames), the datagrams in flight and the    *)
(* device's command handler.  Datagrams may be delayed and reordered, and  *)
(* lost or duplicated when Faults says so.                                 *)
(*                                                                         *)
(* The tool is run up to Runs times, each time on another image and from   *)
(* another socket: chunk i of the image of run r is <<r, i>>.  The device  *)
(* is io-edge-hub's: its lock, see FwUpgrade, refuses a START while a      *)
(* session is open or a swap pending.                                      *)
(***************************************************************************)
EXTENDS Integers, Sequences

CONSTANTS
  N,            \* chunks of an image
  Window,       \* UDP_FW_WINDOW
  MaxRetries,   \* UDP_FW_V2_MAX_RETRIES
  Runs,         \* bound: runs of the tool
  Copies,       \* bound: copies of one datagram in flight, more are dropped
  Faults        \* subset of {"loss", "dup", "write"}

ASSUME TransferAssumption ==
  /\ N \in Nat \ {0} /\ Window \in Nat \ {0} /\ MaxRetries \in Nat
  /\ Runs \in Nat \ {0} /\ Copies \in Nat \ {0}
  /\ Faults \subseteq {"loss", "dup", "write"}

Run == 1..Runs
ImageOf(r) == [i \in 1..N |-> <<r, i>>]

(* A reply to START or END carries the status, one to DATA_V2 the offset   *)
(* the device expects.                                                     *)
Request ==
  [cmd : {"START", "END"}, run : Run, off : {0}] \cup [cmd : {"DATA_V2"}, run : Run, off : 0..(N - 1)]
Reply ==
  [cmd : {"START", "END"}, val : {0, 1}] \cup [cmd : {"DATA_V2"}, val : 0..N]

NoReplies == [m \in Reply |-> 0]

VARIABLES
  run,         \* the current run of the tool
  host_pc,     \* "start", "start_reply", "send", "acks", "end_reply", "exited"
  off,         \* first chunk of the window, counted from 0
  win_end,     \* end of the window
  confirmed,   \* largest offset a reply carried
  retries,     \* windows given up since the last progress
  exit,        \* exit code of the current run: "none", "ok", "comm", "reject"
  requests,    \* copies of each request in flight or in the device's socket
  replies,     \* the same towards the socket of the current run
  fw_started,  \* the device has a session open
  stored,      \* the chunks it wrote, fw_received = Len(stored)
  armed        \* the image it asked MCUboot to swap in, or <<>>

hostVars == <<run, host_pc, off, win_end, confirmed, retries, exit>>
devVars  == <<fw_started, stored, armed>>
vars == <<hostVars, requests, replies, devVars>>

TypeOK ==
  /\ run \in Run
  /\ host_pc \in {"start", "start_reply", "send", "acks", "end_reply", "exited"}
  /\ off \in 0..N /\ win_end \in 0..N /\ confirmed \in 0..N
  /\ retries \in 0..(MaxRetries + 1)
  /\ exit \in {"none", "ok", "comm", "reject"}
  /\ requests \in [Request -> 0..Copies]
  /\ replies \in [Reply -> 0..Copies]
  /\ fw_started \in BOOLEAN
  /\ stored \in Seq(Run \X (1..N)) /\ Len(stored) <= N
  /\ armed = <<>> \/ \E r \in Run : armed = ImageOf(r)

Init ==
  /\ run = 1
  /\ host_pc = "start"
  /\ off = 0 /\ win_end = 0 /\ confirmed = 0 /\ retries = 0
  /\ exit = "none"
  /\ requests = [m \in Request |-> 0]
  /\ replies = NoReplies
  /\ fw_started = FALSE
  /\ stored = <<>>
  /\ armed = <<>>

-----------------------------------------------------------------------------
(* Datagrams *)
Smaller(x, y) == IF x < y THEN x ELSE y

Put(net, sent) == [m \in DOMAIN net |-> IF m \in sent THEN Smaller(net[m] + 1, Copies) ELSE net[m]]

Take(net, m) == [net EXCEPT ![m] = @ - 1]

(* The socket hands out m, which the network may have duplicated. *)
Received(net, m) == {Take(net, m)} \cup (IF "dup" \in Faults THEN {net} ELSE {})

Lose ==
  /\ "loss" \in Faults
  /\ \/ \E m \in Request : requests[m] > 0 /\ requests' = Take(requests, m) /\ UNCHANGED replies
     \/ \E m \in Reply : replies[m] > 0 /\ replies' = Take(replies, m) /\ UNCHANGED requests
  /\ UNCHANGED <<hostVars, devVars>>

-----------------------------------------------------------------------------
(* The device *)
(* The answer goes to the socket the request came from: it is lost when    *)
(* that run is over and its socket closed.                                 *)
Answer(cmd, r, val) ==
  IF r = run /\ host_pc # "exited"
  THEN replies' = Put(replies, {[cmd |-> cmd, val |-> val]})
  ELSE UNCHANGED replies

Arrived(m) == requests[m] > 0 /\ requests' \in Received(requests, m)

(* FW_CMD_START: refused in a session and while the lock is taken. *)
DevStart(m) ==
  /\ m.cmd = "START"
  /\ Arrived(m)
  /\ IF fw_started \/ armed # <<>>
     THEN Answer("START", m.run, 0) /\ UNCHANGED devVars
     ELSE /\ fw_started' = TRUE
          /\ stored' = <<>>
          /\ Answer("START", m.run, 1)
          /\ UNCHANGED armed
  /\ UNCHANGED hostVars

(* FW_CMD_DATA_V2: written when its offset is the expected one; the        *)
(* expected offset is answered in any case, 0 without a session.           *)
DevData(m) ==
  /\ m.cmd = "DATA_V2"
  /\ Arrived(m)
  /\ \/ /\ fw_started
        /\ m.off = Len(stored)
        /\ stored' = Append(stored, <<m.run, m.off + 1>>)
        /\ Answer("DATA_V2", m.run, Len(stored'))
        /\ UNCHANGED fw_started
     \/ /\ fw_started                       \* the write failed: fw_session_fail
        /\ "write" \in Faults
        /\ m.off = Len(stored)
        /\ fw_started' = FALSE
        /\ Answer("DATA_V2", m.run, Len(stored))
        /\ UNCHANGED stored
     \/ /\ fw_started
        /\ m.off # Len(stored)
        /\ Answer("DATA_V2", m.run, Len(stored))
        /\ UNCHANGED <<fw_started, stored>>
     \/ /\ ~fw_started
        /\ Answer("DATA_V2", m.run, 0)
        /\ UNCHANGED <<fw_started, stored>>
  /\ UNCHANGED <<armed, hostVars>>

(* Mutant: END requests the swap of what was received, unverified. *)
DevEndUnverified(m) ==
  /\ m.cmd = "END"
  /\ Arrived(m)
  /\ fw_started' = FALSE
  /\ IF fw_started
     THEN armed' = stored /\ Answer("END", m.run, 1)
     ELSE UNCHANGED armed /\ Answer("END", m.run, 0)
  /\ UNCHANGED <<stored, hostVars>>

(* FW_CMD_END: the session is over, with a swap request when what was      *)
(* written has the CRC the frame carries.                                  *)
DevEnd(m) ==
  /\ m.cmd = "END"
  /\ Arrived(m)
  /\ fw_started' = FALSE
  /\ IF fw_started /\ stored = ImageOf(m.run)
     THEN armed' = stored /\ Answer("END", m.run, 1)
     ELSE UNCHANGED armed /\ Answer("END", m.run, 0)
  /\ UNCHANGED <<stored, hostVars>>

DevNext == \E m \in Request : DevStart(m) \/ DevData(m) \/ DevEnd(m)

-----------------------------------------------------------------------------
(* The host *)
(* The run is over: exit code, socket closed. *)
Exit(code) ==
  /\ host_pc' = "exited"
  /\ exit' = code
  /\ replies' = NoReplies

SendStart ==
  /\ host_pc = "start"
  /\ host_pc' = "start_reply"
  /\ requests' = Put(requests, {[cmd |-> "START", run |-> run, off |-> 0]})
  /\ UNCHANGED <<run, off, win_end, confirmed, retries, exit, replies, devVars>>

Consumed(m) == replies' \in Received(replies, m)

(* udp_send_recv: exactly one datagram is read, and it must echo the       *)
(* command.                                                                *)
StartReply(m) ==
  /\ host_pc = "start_reply"
  /\ replies[m] > 0
  /\ \/ m.cmd # "START" /\ Exit("comm")
     \/ m.cmd = "START" /\ m.val # 1 /\ Exit("reject")
     \/ m.cmd = "START" /\ m.val = 1 /\ Consumed(m) /\ host_pc' = "send" /\ UNCHANGED exit
  /\ UNCHANGED <<run, off, win_end, confirmed, retries, requests, devVars>>

(* One window of udp_fw_data_v2_stream, or the end of the data. *)
SendWindow ==
  /\ host_pc = "send"
  /\ off < N
  /\ win_end' = Smaller(off + Window, N)
  /\ requests' = Put(requests, {[cmd |-> "DATA_V2", run |-> run, off |-> w] : w \in off..(win_end' - 1)})
  /\ confirmed' = off
  /\ host_pc' = "acks"
  /\ UNCHANGED <<run, off, retries, exit, replies, devVars>>

(* Mutant: any answer counts as progress. *)
ReadAckResets(m) ==
  /\ host_pc = "acks"
  /\ confirmed < win_end
  /\ replies[m] > 0
  /\ Consumed(m)
  /\ confirmed' = IF m.cmd = "DATA_V2" /\ m.val > confirmed THEN m.val ELSE confirmed
  /\ retries' = 0
  /\ UNCHANGED <<run, host_pc, off, win_end, exit, requests, devVars>>

(* Mutant: the offset answered is taken for the last chunk written. *)
ReadAckOffByOne(m) ==
  /\ host_pc = "acks"
  /\ confirmed < win_end
  /\ replies[m] > 0
  /\ Consumed(m)
  /\ confirmed' = IF m.cmd = "DATA_V2" THEN Smaller(m.val + 1, N) ELSE confirmed
  /\ retries' = IF confirmed' > confirmed THEN 0 ELSE retries
  /\ UNCHANGED <<run, host_pc, off, win_end, exit, requests, devVars>>

(* Other datagrams and old offsets are read and ignored. *)
ReadAck(m) ==
  /\ host_pc = "acks"
  /\ confirmed < win_end
  /\ replies[m] > 0
  /\ Consumed(m)
  /\ IF m.cmd = "DATA_V2" /\ m.val > confirmed
     THEN confirmed' = m.val /\ retries' = 0
     ELSE UNCHANGED <<confirmed, retries>>
  /\ UNCHANGED <<run, host_pc, off, win_end, exit, requests, devVars>>

WindowConfirmed ==
  /\ host_pc = "acks"
  /\ confirmed >= win_end
  /\ off' = confirmed
  /\ host_pc' = "send"
  /\ UNCHANGED <<run, win_end, confirmed, retries, exit, requests, replies, devVars>>

(* The window's deadline: go back to what is confirmed, or give up. *)
WindowTimeout ==
  /\ host_pc = "acks"
  /\ confirmed < win_end
  /\ retries' = retries + 1
  /\ IF retries' > MaxRetries
     THEN Exit("comm") /\ UNCHANGED off
     ELSE host_pc' = "send" /\ off' = confirmed /\ UNCHANGED <<exit, replies>>
  /\ UNCHANGED <<run, win_end, confirmed, requests, devVars>>

SendEnd ==
  /\ host_pc = "send"
  /\ off = N
  /\ host_pc' = "end_reply"
  /\ requests' = Put(requests, {[cmd |-> "END", run |-> run, off |-> 0]})
  /\ UNCHANGED <<run, off, win_end, confirmed, retries, exit, replies, devVars>>

(* Mutant: an END that was answered has succeeded. *)
EndReplyAnyResult(m) ==
  /\ host_pc = "end_reply"
  /\ replies[m] > 0
  /\ Exit(IF m.cmd # "END" THEN "comm" ELSE "ok")
  /\ UNCHANGED <<run, off, win_end, confirmed, retries, requests, devVars>>

(* The REBOOT that follows a success is left out: the run is over. *)
EndReply(m) ==
  /\ host_pc = "end_reply"
  /\ replies[m] > 0
  /\ Exit(IF m.cmd # "END" THEN "comm" ELSE IF m.val = 1 THEN "ok" ELSE "reject")
  /\ UNCHANGED <<run, off, win_end, confirmed, retries, requests, devVars>>

(* The socket timeout of START (5 s) and END (10 s).  Without losses the   *)
(* answer is taken to arrive in time.                                      *)
ReplyTimeout ==
  /\ "loss" \in Faults
  /\ host_pc \in {"start_reply", "end_reply"}
  /\ Exit("comm")
  /\ UNCHANGED <<run, off, win_end, confirmed, retries, requests, devVars>>

(* The tool is started again: a new socket, a new image. *)
NextRun ==
  /\ host_pc = "exited"
  /\ run < Runs
  /\ run' = run + 1
  /\ host_pc' = "start"
  /\ off' = 0 /\ win_end' = 0 /\ confirmed' = 0 /\ retries' = 0
  /\ exit' = "none"
  /\ UNCHANGED <<requests, replies, devVars>>

HostNext ==
  \/ SendStart \/ SendWindow \/ WindowConfirmed \/ WindowTimeout \/ SendEnd
  \/ ReplyTimeout
  \/ \E m \in Reply : StartReply(m) \/ ReadAck(m) \/ EndReply(m)

Next == HostNext \/ NextRun \/ DevNext \/ Lose

Spec == Init /\ [][Next]_vars

(* The tool runs, the deadline of a window passes whatever it reads before *)
(* (remain <= 0 ends the loop), and the device reads its socket.           *)
FairSpec == Spec /\ WF_vars(HostNext) /\ WF_vars(WindowTimeout) /\ WF_vars(DevNext)

-----------------------------------------------------------------------------
(* udp_fw_upgrade.c:344: a frame out of order or repeated is not written.  *)
(* Whatever the network does, a chunk is stored at its own offset.         *)
InPlace == \A i \in 1..Len(stored) : stored[i][2] = i

ArmedWhole == armed # <<>> => \E r \in Run : armed = ImageOf(r)
SuccessIsArmed == exit = "ok" => armed = ImageOf(run)

(* Only a complete image with the CRC of END is swapped in                 *)
(* (udp_fw_upgrade.c:379), never one mixed from the frames of two runs,    *)
(* with datagrams of the earlier one late; and the tool answers 0 only     *)
(* when the device is set to swap in the image of this run                 *)
(* (firmware_upgrade.c:682).                                               *)
RightImage == ArmedWhole /\ SuccessIsArmed

(* firmware_upgrade.c:433: the window moves to the offset of a reply; no    *)
(* chunk below it is missing on the device as long as the session lives,    *)
(* however the network delays, reorders or loses the datagrams.  A later    *)
(* run may meet the datagrams of the first.                                 *)
ConfirmedStored ==
  run = 1 /\ host_pc \in {"send", "acks", "end_reply"} /\ fw_started => confirmed <= Len(stored)

(* firmware_upgrade.c:497-515: the retries are counted since the last      *)
(* progress; however badly the network behaves, every run ends.            *)
HostTerminates == []<>(host_pc = "exited")

(* tools/firmware_upgrade/README.md:75: exit code 2 stands for a device    *)
(* that does not answer, or a timeout.  With nothing lost and START and    *)
(* END answered in time, only a window given up ends that way.             *)
CommErrorIsSilence == exit = "comm" => retries > MaxRetries
=============================================================================
