------------------------------ MODULE W5500Toe ------------------------------
(***************************************************************************)
(* drivers/w5500_toe/w5500_toe.c: the driver of a network chip that speaks *)
(* TCP itself and has eight sockets.  The driver keeps a table of its own  *)
(* sockets and gives each a hardware socket when it needs one; a listener  *)
(* has a pool of them.  A call that must wait lets go of the lock and      *)
(* looks again after at most 10 ms; the worker (interrupt or poll) passes  *)
(* over the table with the lock held.  Each action between two of these    *)
(* points is one step.                                                     *)
(***************************************************************************)
EXTENDS Naturals, Integers, Sequences, FiniteSets, SequencesExt, FiniteSetsExt

CONSTANTS
  Slot,          \* the sockets of the driver: W5500_NUM_SOCKETS
  Hw,            \* the hardware sockets, as many
  Caller,        \* the threads of the application
  ListenKeep,    \* W5500_LISTEN_KEEP
  Defective,     \* hardware sockets whose command engine is dead
  AppUses,       \* bound: what the application does, sets of calls
  MaxPeers       \* bound: connections the peers try to make

ASSUME ToeAssumption ==
  /\ IsFiniteSet(Slot) /\ Slot # {} /\ Slot = 1..Cardinality(Slot)
  /\ IsFiniteSet(Hw) /\ Hw # {} /\ Hw = 0..(Cardinality(Hw) - 1)
  /\ Defective \subseteq Hw /\ ListenKeep \in Nat \ {0} /\ MaxPeers \in Nat
  \* the attempts of listener_fill are enough for both
  /\ 3 * Cardinality(Defective) + ListenKeep <= 8

VARIABLES
  uses,          \* what the application does in this run
  sock,          \* the driver's table
  chip,          \* the hardware sockets
  hw_fail,       \* failures in a row; three and the socket is hw_broken
  worker,        \* the pass of the worker over table and pools
  calls,         \* the call each thread is in
  peers,         \* connections tried so far
  listenerDied   \* history: a hardware socket that listened has closed

toeVars == <<uses, sock, chip, hw_fail, worker, calls, peers, listenerDied>>

NoHw == -1
MaxOpen == IF "many" \in uses THEN Cardinality(Slot) ELSE IF "two" \in uses THEN 2 ELSE 1
Dead == IF "dead" \in uses THEN Defective ELSE {}
(* Sn_SR, the bytes received, and whether there is room to send.           *)
HwIn(sr) == [sr |-> sr, rx |-> 0, room |-> TRUE]
FreeSlot ==
  [in_use |-> FALSE, hw |-> NoHw, type |-> "stream", has_fd |-> FALSE, users |-> 0,
   zombie |-> FALSE, shut_rd |-> FALSE, shut_wr |-> FALSE, listening |-> FALSE,
   pool |-> <<>>, pend |-> <<>>]
NoCall == [op |-> "none"]
Asleep == [at |-> 0, i |-> 0]

ToeInit ==
  /\ uses \in AppUses
  /\ sock = [s \in Slot |-> FreeSlot]
  /\ chip = [h \in Hw |-> HwIn("closed")]
  /\ hw_fail = [h \in Hw |-> 0]
  /\ worker = Asleep
  /\ calls = [t \in Caller |-> NoCall]
  /\ peers = 0 /\ listenerDied = FALSE

-----------------------------------------------------------------------------
(* The helpers, on a state k = [sock, chip, hw_fail]. *)

Now == [sock |-> sock, chip |-> chip, hw_fail |-> hw_fail]
Becomes(k) == \E new \in {k} : sock' = new.sock /\ chip' = new.chip /\ hw_fail' = new.hw_fail

FreeSlots(k) == {s \in Slot : ~k.sock[s].in_use}
SlotAlloc(k) == Min(FreeSlots(k))

(* A mutant: hw_alloc trusts the chip alone.                               *)
HwFreeByState(k) == {h \in Hw : k.chip[h].sr = "closed" /\ k.hw_fail[h] < 3}
(* hw_alloc: the pools of the listeners are not looked at, a socket that   *)
(* listens is taken for busy because it is not closed.                     *)
HwFree(k) ==
  {h \in Hw : /\ k.chip[h].sr = "closed" /\ k.hw_fail[h] < 3
              /\ ~\E s \in Slot : k.sock[s].in_use /\ k.sock[s].hw = h}
HwAlloc(k) == IF HwFree(k) = {} THEN NoHw ELSE Min(HwFree(k))

HwOpen(k, h, sr) == [k EXCEPT !.chip[h] = HwIn(sr)]
(* The sockets of H keep their old state for a while; NoHw is none.        *)
HwClose(k, H) ==
  [k EXCEPT !.chip = [h \in Hw |-> IF h \in H THEN HwIn("closing") ELSE k.chip[h]]]

(* Registers of hardware socket -1: its block number, cut to five bits, is *)
(* that of the last socket.                                                *)
RegHw(hw) == IF hw = NoHw THEN Max(Hw) ELSE hw

(* The member of S that has n - 1 members below it.                        *)
Nth(S, n) == CHOOSE h \in S : Cardinality({g \in S : g < h}) = n - 1

(* listener_fill takes the free sockets in order until the pool is full; a *)
(* dead one is tried again at once, until it is black-listed.              *)
ListenerFill(k, l) ==
  LET free == HwFree(k)
      missing == ListenKeep - Len(k.sock[l].pool)
      good == free \ Dead
      opened == [n \in 1..Min({missing, Cardinality(good)}) |-> Nth(good, n)]
      tried == {h \in free \cap Dead : missing > 0 /\ (Len(opened) < missing \/ h < Last(opened))} IN
  [sock |-> [k.sock EXCEPT ![l].pool = @ \o opened],
   chip |-> [h \in Hw |-> IF h \in ToSet(opened) THEN HwIn("listen") ELSE k.chip[h]],
   hw_fail |-> [h \in Hw |-> IF h \in tried THEN 3 ELSE IF h \in ToSet(opened) THEN 0 ELSE k.hw_fail[h]]]

PoolRemove(k, l, i) == [k EXCEPT !.sock[l].pool = RemoveAt(@, i)]

CanPromote(k, l) == Len(k.sock[l].pend) < Cardinality(Slot) /\ FreeSlots(k) # {}
(* listener_promote: the connection gets a slot of its own.                *)
Promote(k, l, i) ==
  LET cs == SlotAlloc(k)
      taken == [PoolRemove(k, l, i) EXCEPT
                  !.sock[cs] = [FreeSlot EXCEPT !.in_use = TRUE, !.hw = k.sock[l].pool[i]]]
      filled == ListenerFill(taken, l) IN
  [filled EXCEPT !.sock[l].pend = Append(@, cs)]

(* sock_release: the last to leave a socket that was closed frees it.      *)
Release(k, s) ==
  LET left == [k EXCEPT !.sock[s].users = @ - 1] IN
  IF left.sock[s].zombie /\ left.sock[s].users = 0 THEN [left EXCEPT !.sock[s] = FreeSlot] ELSE left

-----------------------------------------------------------------------------
(* The chip and its peers *)

ChipOnly == UNCHANGED <<uses, sock, hw_fail, worker, calls>>
SetSr(h, sr) == chip' = [chip EXCEPT ![h].sr = sr]

ChipCloses(h) ==
  /\ chip[h].sr = "closing" /\ SetSr(h, "closed")
  /\ ChipOnly /\ UNCHANGED <<peers, listenerDied>>

Syn(h) ==
  /\ chip[h].sr = "listen" /\ peers < MaxPeers
  /\ SetSr(h, "synrecv") /\ peers' = peers + 1
  /\ ChipOnly /\ UNCHANGED listenerDied

Handshake(h) ==
  /\ chip[h].sr \in {"synrecv", "synsent"} /\ SetSr(h, "established")
  /\ ChipOnly /\ UNCHANGED <<peers, listenerDied>>

(* Reset, refused, or retries exhausted: also of a handshake halfway.      *)
Reset(h) ==
  /\ "reset" \in uses
  /\ chip[h].sr \in {"synrecv", "synsent", "established", "close_wait"} /\ SetSr(h, "closed")
  /\ listenerDied' = (listenerDied \/ \E s \in Slot : h \in ToSet(sock[s].pool))
  /\ ChipOnly /\ UNCHANGED peers

Fin(h) ==
  /\ "fin" \in uses
  /\ chip[h].sr = "established" /\ SetSr(h, "close_wait")
  /\ ChipOnly /\ UNCHANGED <<peers, listenerDied>>

(* A byte or a datagram comes; what was sent is acknowledged.              *)
Data(h) ==
  /\ "recv" \in uses
  /\ chip[h].sr \in {"established", "udp"} /\ chip[h].rx = 0
  /\ chip' = [chip EXCEPT ![h].rx = 1]
  /\ ChipOnly /\ UNCHANGED <<peers, listenerDied>>

Ack(h) ==
  /\ ~chip[h].room /\ chip' = [chip EXCEPT ![h].room = TRUE]
  /\ ChipOnly /\ UNCHANGED <<peers, listenerDied>>

ToeChip == \E h \in Hw : ChipCloses(h) \/ Syn(h) \/ Handshake(h) \/ Reset(h) \/ Fin(h) \/ Data(h) \/ Ack(h)

-----------------------------------------------------------------------------
(* w5500_service, the pass of the worker, with the lock held throughout *)

Locked == worker # Asleep
WorkerOnly == UNCHANGED <<uses, calls, peers, listenerDied>>
NextSlot == IF worker.at = Max(Slot) THEN Asleep ELSE [at |-> worker.at + 1, i |-> 1]

(* A pass that would find no pool to change only wakes callers, who look   *)
(* again by themselves: it is left out.                                    *)
WorkToDo ==
  \E l \in Slot :
    /\ sock[l].in_use /\ sock[l].listening
    /\ \/ \E h \in ToSet(sock[l].pool) : chip[h].sr \notin {"listen", "synrecv"}
       \/ Len(sock[l].pool) < ListenKeep /\ HwAlloc(Now) # NoHw

PassBegins ==
  /\ ~Locked /\ WorkToDo /\ worker' = [at |-> 1, i |-> 1]
  /\ UNCHANGED <<sock, chip, hw_fail>> /\ WorkerOnly

InPool == Locked /\ sock[worker.at].in_use /\ sock[worker.at].listening
          /\ worker.i <= Len(sock[worker.at].pool)

(* A mutant: what died is closed and kept.                                 *)
PassPoolKeeps ==
  LET l == worker.at
      h == sock[l].pool[worker.i] IN
  /\ InPool
  /\ IF chip[h].sr \in {"listen", "synrecv"}
     THEN worker' = [worker EXCEPT !.i = @ + 1] /\ UNCHANGED <<sock, chip, hw_fail>>
     ELSE /\ Becomes(IF chip[h].sr = "established" THEN Promote(Now, l, worker.i) ELSE HwClose(Now, {h}))
          /\ UNCHANGED worker
  /\ WorkerOnly

(* One turn of the loop over the pool of a listener.  A connection for     *)
(* which there is no slot stays where it is, and so does the loop.         *)
PassPool ==
  LET l == worker.at
      h == sock[l].pool[worker.i] IN
  /\ InPool
  /\ IF chip[h].sr = "established"
     THEN /\ Becomes(IF CanPromote(Now, l) THEN Promote(Now, l, worker.i) ELSE Now)
          /\ UNCHANGED worker
     ELSE IF chip[h].sr \in {"listen", "synrecv"}
     THEN worker' = [worker EXCEPT !.i = @ + 1] /\ UNCHANGED <<sock, chip, hw_fail>>
     ELSE Becomes(PoolRemove(HwClose(Now, {h}), l, worker.i)) /\ UNCHANGED worker
  /\ WorkerOnly

PassSlot ==
  /\ Locked /\ ~InPool
  /\ worker' = NextSlot
  /\ Becomes(IF sock[worker.at].in_use /\ sock[worker.at].listening
             THEN ListenerFill(Now, worker.at) ELSE Now)
  /\ WorkerOnly

ToeWorker == PassBegins \/ PassPool \/ PassSlot

-----------------------------------------------------------------------------
(* Calls that do not wait *)

Idle(t) == ~Locked /\ calls[t] = NoCall
AppOnly == UNCHANGED <<uses, worker, peers, listenerDied>>
(* The application has the descriptor and has not closed it; it makes one  *)
(* listener (a bound), and calls what makes sense on a socket.             *)
Open(s) == sock[s].in_use /\ sock[s].has_fd /\ ~sock[s].zombie

SocketCreate(t, type) ==
  /\ Idle(t) /\ type \in uses /\ FreeSlots(Now) # {} /\ Cardinality({s \in Slot : Open(s)}) < MaxOpen
  /\ Becomes([Now EXCEPT !.sock[SlotAlloc(Now)] =
                 [FreeSlot EXCEPT !.in_use = TRUE, !.has_fd = TRUE, !.type = type]])
  /\ UNCHANGED calls /\ AppOnly

(* A new hardware socket for a datagram socket; none, or one that is dead, *)
(* and it has none.                                                        *)
OpenUdp(k, s) ==
  LET h == HwAlloc(k) IN
  IF h = NoHw \/ h \in Dead THEN [k EXCEPT !.sock[s].hw = NoHw]
  ELSE [HwOpen(k, h, "udp") EXCEPT !.sock[s].hw = h]

(* bind() to another port; of a stream socket it only notes the port.      *)
Bind(t, s) ==
  /\ Idle(t) /\ Open(s) /\ sock[s].type = "dgram"
  /\ LET old == HwClose(Now, {sock[s].hw}) IN
     Becomes(OpenUdp([old EXCEPT !.sock[s].hw = NoHw], s))
  /\ UNCHANGED calls /\ AppOnly

Listen(t, s) ==
  /\ Idle(t) /\ "accept" \in uses /\ Open(s) /\ sock[s].type = "stream" /\ sock[s].hw = NoHw
  /\ ~\E l \in Slot : sock[l].listening
  /\ Becomes(ListenerFill([Now EXCEPT !.sock[s].listening = TRUE], s))
  /\ UNCHANGED calls /\ AppOnly

(* close(): the hardware goes at once, the slot when nobody is in it; the  *)
(* connections that wait for accept() go too.                              *)
Closing(k, s) ==
  LET me == k.sock[s]
      mine == ToSet(me.pool) \cup {k.sock[c].hw : c \in ToSet(me.pend) \cup {s}}
      gone == HwClose(k, mine) IN
  [gone EXCEPT !.sock =
     [c \in Slot |->
        IF c \in ToSet(me.pend) \/ (c = s /\ me.users = 0) THEN FreeSlot
        ELSE IF c = s THEN [me EXCEPT !.zombie = TRUE, !.listening = FALSE, !.pool = <<>>,
                                      !.hw = NoHw, !.pend = <<>>]
        ELSE k.sock[c]]]
Close(t, s) ==
  /\ Idle(t) /\ "close" \in uses /\ Open(s)
  /\ Becomes(Closing(Now, s))
  /\ UNCHANGED calls /\ AppOnly

Shutdown(t, s, how) ==
  /\ Idle(t) /\ "shutdown" \in uses /\ Open(s)
  /\ LET me == [sock[s] EXCEPT !.shut_rd = @ \/ how \in {"rd", "rdwr"},
                               !.shut_wr = @ \/ how \in {"wr", "rdwr"}]
         marked == [Now EXCEPT !.sock[s] = me] IN
     Becomes(IF how # "rd" /\ sock[s].hw # NoHw
             THEN [HwClose(marked, {sock[s].hw}) EXCEPT !.sock[s].hw = NoHw] ELSE marked)
  /\ UNCHANGED calls /\ AppOnly

-----------------------------------------------------------------------------
(* Calls that wait.  A call is entered with its first look, in one step;   *)
(* each of the looks after a wait is told whether the caller's time is up  *)
(* (late).                                                                 *)

CallOf(op, s, finite, left) == [op |-> op, s |-> s, finite |-> finite, left |-> left, polls |-> FALSE]
(* The call c of t ends with state k, but for its hold; or it waits on.    *)
Returns(t, c, k) == Becomes(Release(k, c.s)) /\ calls' = [calls EXCEPT ![t] = NoCall]
Waits(t, c, k) == Becomes(k) /\ calls' = [calls EXCEPT ![t] = c]

ConnectStarts(t, c, k) ==
  LET h == HwAlloc(k) IN
  IF h = NoHw \/ h \in Dead THEN Returns(t, c, k)
  ELSE Waits(t, c, [HwOpen(k, h, "synsent") EXCEPT !.sock[c.s].hw = h])

(* In time, a socket without hardware is noticed; late, the register of -1 *)
(* is read.  A connection that timed out keeps its hardware socket.        *)
ConnectLooks(t, c, late) ==
  LET me == sock[c.s]
      sr == chip[RegHw(me.hw)].sr IN
  IF ~late /\ (me.zombie \/ me.hw = NoHw) THEN Returns(t, c, Now)
  ELSE IF sr = "closed" THEN Returns(t, c, [Now EXCEPT !.sock[c.s].hw = NoHw])
  ELSE IF late \/ sr = "established" THEN Returns(t, c, Now)
  ELSE Waits(t, c, Now)

(* accept(): what was reset while it waited is reaped, up to the first     *)
(* that lives.                                                             *)
Live(k, s) == k.sock[s].hw # NoHw /\ k.chip[k.sock[s].hw].sr # "closed"
Reap(k, l) ==
  LET pend == k.sock[l].pend
      live == SelectInSeq(pend, LAMBDA s : Live(k, s))
      n == IF live = 0 THEN Len(pend) ELSE live - 1
      reaped == ToSet(SubSeq(pend, 1, n))
      closed == HwClose(k, {k.sock[s].hw : s \in reaped}) IN
  [closed EXCEPT !.sock = [s \in Slot |-> IF s \in reaped THEN FreeSlot
                             ELSE IF s = l THEN [k.sock[l] EXCEPT !.pend = SubSeq(pend, n + 1, Len(pend))]
                             ELSE k.sock[s]]]

(* accept() may find the connection before the worker does.                *)
PromoteFirst(k, l) ==
  LET i == SelectInSeq(k.sock[l].pool, LAMBDA h : k.chip[h].sr = "established") IN
  IF i = 0 \/ ~CanPromote(k, l) THEN k ELSE Promote(k, l, i)

(* The connection is taken from the queue before the listener's state is   *)
(* looked at; the pool of a listener that was closed is filled again.      *)
(* fds: there is a descriptor left for the connection.                     *)
AcceptLooks(t, c, k, late, fds) ==
  LET l == c.s IN
  IF /\ late /\ k.sock[l].pend = <<>>
     /\ ~\E h \in ToSet(k.sock[l].pool) : k.chip[h].sr = "established"
  THEN Returns(t, c, k)
  ELSE \E reaped \in {Reap(k, l)} :
    IF reaped.sock[l].pend = <<>>
    THEN \E promoted \in {PromoteFirst(reaped, l)} :
         \E armed \in {ListenerFill(promoted, l)} :
            IF k.sock[l].zombie THEN Returns(t, c, armed) ELSE Waits(t, c, armed)
    ELSE LET cs == Head(reaped.sock[l].pend) IN
         \E promoted \in {PromoteFirst([reaped EXCEPT !.sock[l].pend = Tail(@)], l)} :
            IF k.sock[l].zombie THEN Returns(t, c, promoted)
            ELSE IF fds THEN Returns(t, c, [promoted EXCEPT !.sock[cs].has_fd = TRUE])
            ELSE Returns(t, c, [HwClose(promoted, {promoted.sock[cs].hw}) EXCEPT !.sock[cs] = FreeSlot])

Sendable(k, s) ==
  k.chip[RegHw(k.sock[s].hw)].sr \in
    (IF k.sock[s].type = "stream" THEN {"established", "close_wait"} ELSE {"udp"})

(* The top of the loop over the chunks: the state is looked at, and the    *)
(* chunk goes if there is room.                                            *)
NextChunk(t, c, k) ==
  LET h == RegHw(k.sock[c.s].hw)
      sent == [k EXCEPT !.chip[h].room = FALSE] IN
  IF ~Sendable(k, c.s) THEN Returns(t, c, k)
  ELSE IF ~k.chip[h].room THEN Waits(t, [c EXCEPT !.polls = TRUE], k)
  ELSE IF c.left = 1 THEN Returns(t, c, sent)
  ELSE Waits(t, [c EXCEPT !.left = @ - 1, !.polls = TRUE], sent)

SendStarts(t, c, k) ==
  LET opened == IF k.sock[c.s].type = "dgram" /\ k.sock[c.s].hw = NoHw THEN OpenUdp(k, c.s) ELSE k IN
  IF k.sock[c.s].shut_wr THEN Returns(t, c, k)
  ELSE IF opened.sock[c.s].hw = NoHw THEN Returns(t, c, opened)
  ELSE NextChunk(t, c, opened)

(* After 100 us only zombie is looked at; after a slice (there are 30 of   *)
(* the short waits first) the time and, of a stream, the state.            *)
SendLooks(t, c, late) ==
  LET h == RegHw(sock[c.s].hw)
      sent == [Now EXCEPT !.chip[h].room = FALSE] IN
  IF sock[c.s].zombie \/ (~c.polls /\ (late \/ (sock[c.s].type = "stream" /\ ~Sendable(Now, c.s))))
  THEN Returns(t, c, Now)
  ELSE IF ~chip[h].room THEN \E polls \in {c.polls, FALSE} : Waits(t, [c EXCEPT !.polls = polls], Now)
  ELSE IF c.left = 1 THEN Returns(t, c, sent)
  ELSE NextChunk(t, [c EXCEPT !.left = @ - 1], sent)

RecvTakes(t, c, k) ==
  LET h == RegHw(k.sock[c.s].hw) IN
  IF k.chip[h].rx > 0 THEN Returns(t, c, [k EXCEPT !.chip[h].rx = 0])
  ELSE IF k.sock[c.s].type = "stream" /\ k.chip[h].sr \in {"close_wait", "closed"}
  THEN Returns(t, c, k)
  ELSE Waits(t, c, k)

(* recv(): a socket without hardware is refused at the start, and not      *)
(* looked for again after a wait.                                          *)
RecvStarts(t, c, k) ==
  IF k.sock[c.s].hw = NoHw \/ k.sock[c.s].shut_rd THEN Returns(t, c, k) ELSE RecvTakes(t, c, k)
(* A mutant: a call that waits does not notice close().                    *)
RecvLooksOn(t, c, late) == IF late THEN Returns(t, c, Now) ELSE RecvTakes(t, c, Now)
RecvLooks(t, c, late) ==
  IF sock[c.s].zombie \/ late THEN Returns(t, c, Now) ELSE RecvTakes(t, c, Now)

Call(t) ==
  \E op \in uses \cap {"connect", "accept", "send", "recv"}, s \in Slot, left \in {1, 2},
     finite \in (IF "timeout" \in uses THEN BOOLEAN ELSE {FALSE}), fds \in BOOLEAN :
    LET c == CallOf(op, s, finite, left)
        k == [Now EXCEPT !.sock[s].users = @ + 1] IN
    /\ Idle(t) /\ Open(s) /\ (sock[s].listening <=> op = "accept")
    /\ op # "send" => left = 1
    /\ op = "connect" => sock[s].type = "stream" /\ sock[s].hw = NoHw
    /\ CASE op = "connect" -> ConnectStarts(t, c, k)
         [] op = "accept" -> AcceptLooks(t, c, k, FALSE, fds)
         [] op = "send" -> SendStarts(t, c, k)
         [] op = "recv" -> RecvStarts(t, c, k)
    /\ AppOnly

LooksAgain(t) ==
  \E late, fds \in BOOLEAN :
    LET c == calls[t] IN
    /\ ~Locked /\ c # NoCall /\ (late => c.finite)
    /\ CASE c.op = "connect" -> ConnectLooks(t, c, late)
         [] c.op = "accept" -> AcceptLooks(t, c, Now, late, fds)
         [] c.op = "send" -> SendLooks(t, c, late)
         [] c.op = "recv" -> RecvLooks(t, c, late)
    /\ AppOnly

ToeApp ==
  \E t \in Caller :
     \/ \E type \in {"stream", "dgram"} : SocketCreate(t, type)
     \/ \E s \in Slot :
          \/ Bind(t, s) \/ Listen(t, s) \/ Close(t, s)
          \/ \E how \in {"rd", "wr", "rdwr"} : Shutdown(t, s, how)
     \/ Call(t)
     \/ LooksAgain(t)

ToeNext == ToeChip \/ ToeWorker \/ ToeApp

(* The slices of a wait end, the work queue runs, and the lock is taken in *)
(* turn; nothing is assumed of the chip's peers or of the application.     *)
ToeFairness ==
  /\ WF_toeVars(PassPool \/ PassSlot)
  /\ \A t \in Caller : SF_toeVars(LooksAgain(t))

ToeSpec == ToeInit /\ [][ToeNext]_toeVars
ToeFairSpec == ToeSpec /\ ToeFairness

-----------------------------------------------------------------------------
(* Properties *)

SrState == {"closed", "closing", "listen", "synrecv", "synsent", "established", "close_wait", "udp"}
ToeTypeOK ==
  /\ \A h \in Hw : chip[h].sr \in SrState /\ hw_fail[h] \in 0..3
  /\ \A s \in Slot : /\ sock[s].hw \in Hw \cup {NoHw}
                     /\ ToSet(sock[s].pool) \subseteq Hw /\ ToSet(sock[s].pend) \subseteq Slot
                     /\ Len(sock[s].pool) <= ListenKeep

(* The table loses no socket and takes none back that is in use: a slot in *)
(* use has a descriptor, or waits once in one listener's queue, or is held *)
(* by the calls that a close() overtook; and a call never loses its slot.  *)
SlotsAccounted ==
  \A s \in Slot :
    LET inside == {t \in Caller : calls[t] # NoCall /\ calls[t].s = s}
        places == UNION {{<<l, i>> : i \in {n \in DOMAIN sock[l].pend : sock[l].pend[n] = s}} : l \in Slot} IN
    /\ sock[s].users = Cardinality(inside)
    /\ inside # {} => sock[s].in_use
    /\ places # {} => sock[s].in_use /\ ~sock[s].has_fd /\ Cardinality(places) = 1
    /\ sock[s].in_use => \/ places # {}
                         \/ sock[s].has_fd /\ (sock[s].zombie => inside # {})

(* Unless a listening hardware socket has died (it is closed, still in its *)
(* pool, and given out again), a hardware socket serves one connection or  *)
(* one listener.                                                           *)
HwOfOneSocket ==
  ~listenerDied =>
    \A h \in Hw :
      LET owners == {s \in Slot : sock[s].in_use /\ (sock[s].hw = h \/ h \in ToSet(sock[s].pool))} IN
      /\ Cardinality(owners) <= 1
      /\ \A s \in owners : Cardinality({i \in DOMAIN sock[s].pool : sock[s].pool[i] = h}) +
                            (IF sock[s].hw = h THEN 1 ELSE 0) = 1

(* The two tables of the driver, of sockets and of hardware sockets, agree *)
(* with each other and with the calls in progress.                         *)
EachToOne == SlotsAccounted /\ HwOfOneSocket

(* Two threads do not wait in accept() of one listener when it is closed.  *)
OneInClosed ==
  \A t, u \in Caller :
    t # u /\ calls[t].op = "accept" /\ calls[u].op = "accept" /\ calls[t].s = calls[u].s =>
      ~sock[calls[t].s].zombie

(* Every call in a socket that was closed returns, and the slot with it.   *)
ClosedIsFreed == \A s \in Slot : sock[s].zombie ~> ~sock[s].zombie

(* The worker's pass ends: "the interrupt worker can always run".          *)
PassEnds == Locked ~> ~Locked

(* What close() tears down stays down: a hardware socket that listens is   *)
(* in the pool of a listener.                                              *)
ListensForSomeone ==
  \A h \in Hw : chip[h].sr = "listen" => \E s \in Slot : sock[s].in_use /\ h \in ToSet(sock[s].pool)
=============================================================================
