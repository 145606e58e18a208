----------------------------- MODULE MbClients -----------------------------
(***************************************************************************)
(* The connections of modbus/tcp.c and the bytes that arrive on them: the  *)
(* client list, select, and handle_client up to the submission of a frame  *)
(* (ModbusTcp has what follows).  A header is two units long, a body as    *)
(* many as the header says; a unit is <<number of its frame, place>>.      *)
(***************************************************************************)
EXTENDS Naturals, Sequences, SequencesExt

CONSTANTS
  Conn,          \* the connections of the masters, each made once
  Frames,        \* bound: the sequences of frames a master sends
  Timeouts       \* CONFIG_IO_MODBUS_TCP_SESSION_TIMEOUT

(* A frame with a foreign protocol id is refused, one with a foreign       *)
(* function code answered with an exception.                               *)
FrameKind == [kind : {"good", "refused", "unknown"}, body : 0..2]
HeaderLen == 2

ASSUME FramesAssumption == Frames \subseteq Seq(FrameKind) /\ Timeouts \in BOOLEAN

VARIABLES
  mbLink,       \* net_link_is_up
  peer,         \* the frames of each connection, and "new", "made" or "closed"
  coming,       \* the unit of each connection that arrives next
  stream,       \* units received by the stack and not read
  backlog,      \* connections that wait for accept
  sockets,      \* sockets the thread has not closed
  client_list,
  turn,         \* what the thread is doing
  misread,      \* history: connections with a header that is none,
  refused       \* with a refused frame

mbcVars == <<mbLink, peer, coming, stream, backlog, sockets, client_list, turn, misread, refused>>
network == <<mbLink, peer, coming, stream, backlog>>

Unit == (Nat \ {0}) \X (Nat \ {0})

(* What the thread has read of the client it serves, and the clients that  *)
(* select found ready with it and that come later.                         *)
Turn == [at : {"serve"}, of : Conn, ready : SUBSET Conn, got : Seq(Unit),
         want : 1..HeaderLen, header : BOOLEAN]
Selecting == [at |-> "select"]

MbcTypeOK ==
  /\ mbLink \in BOOLEAN
  /\ peer \in [Conn -> [frames : Frames, is : {"new", "made", "closed"}]]
  /\ coming \in [Conn -> Unit] /\ stream \in [Conn -> Seq(Unit)]
  /\ backlog \cup sockets \cup misread \cup refused \subseteq Conn
  /\ client_list \in Seq(Conn)
  /\ turn \in Turn \cup {Selecting}

MbcInit ==
  /\ mbLink = TRUE
  /\ \E f \in Frames : peer = [c \in Conn |-> [frames |-> f, is |-> "new"]]
  /\ coming = [c \in Conn |-> <<1, 1>>] /\ stream = [c \in Conn |-> <<>>]
  /\ backlog = {} /\ sockets = {} /\ client_list = <<>> /\ turn = Selecting
  /\ misread = {} /\ refused = {}

-----------------------------------------------------------------------------
(* The masters and the network *)

After(u, f) ==
  IF u[2] < HeaderLen + f[u[1]].body THEN <<u[1], u[2] + 1>> ELSE <<u[1] + 1, 1>>

Connect(c) ==
  /\ peer[c].is = "new"
  /\ peer' = [peer EXCEPT ![c].is = "made"]
  /\ backlog' = backlog \cup {c}
  /\ UNCHANGED <<mbLink, coming, stream, sockets, client_list, turn, misread, refused>>

Arrives(c) ==
  /\ peer[c].is = "made" /\ coming[c][1] <= Len(peer[c].frames)
  /\ stream' = [stream EXCEPT ![c] = Append(@, coming[c])]
  /\ coming' = [coming EXCEPT ![c] = After(@, peer[c].frames)]
  /\ UNCHANGED <<mbLink, peer, backlog, sockets, client_list, turn, misread, refused>>

(* What is under way is lost. *)
PeerCloses(c) ==
  /\ peer[c].is = "made"
  /\ peer' = [peer EXCEPT ![c].is = "closed"]
  /\ UNCHANGED <<mbLink, coming, stream, backlog, sockets, client_list, turn, misread, refused>>

LinkChanges ==
  /\ mbLink' = ~mbLink
  /\ UNCHANGED <<peer, coming, stream, backlog, sockets, client_list, turn, misread, refused>>

-----------------------------------------------------------------------------
(* The thread *)

Readable(c) == stream[c] # <<>> \/ peer[c].is = "closed"

(* The thread walks the list, and handle_client begins with a header. *)
First(ready) ==
  {c \in ready : \E i \in DOMAIN client_list :
     client_list[i] = c /\ \A j \in 1..(i - 1) : client_list[j] \notin ready}
Serve(ready) ==
  IF ready = {} THEN turn' = Selecting
  ELSE \E c \in First(ready) :
         turn' = [at |-> "serve", of |-> c, ready |-> ready \ {c},
                  got |-> <<>>, want |-> HeaderLen, header |-> TRUE]

(* One connection is accepted while the link is up; without memory for it   *)
(* it is closed.  The clients that were ready are served, those that are    *)
(* idle too long may be removed.                                            *)
Accepted(c) ==
  \/ client_list' = <<c>> \o client_list /\ sockets' = sockets \cup {c}
  \/ UNCHANGED <<client_list, sockets>>

Select ==
  /\ turn = Selecting
  /\ Serve({c \in ToSet(client_list) : Readable(c)})
  /\ \/ /\ mbLink /\ \E c \in backlog : backlog' = backlog \ {c} /\ Accepted(c)
     \/ /\ backlog = {} \/ ~mbLink
        /\ turn' # Selecting
        /\ UNCHANGED <<backlog, client_list, sockets>>
  /\ UNCHANGED <<mbLink, peer, coming, stream, misread, refused>>

Served == turn.of
NextClient == Serve(turn.ready)

client_remove(c) ==
  /\ \E i \in DOMAIN client_list : client_list[i] = c /\ client_list' = RemoveAt(client_list, i)
  /\ sockets' = sockets \ {c}

(* handle_client returns 0, or fails to send its reply. *)
Handled == NextClient /\ (client_remove(Served) \/ UNCHANGED <<client_list, sockets>>)

SessionTimeout ==
  /\ Timeouts /\ turn = Selecting
  /\ \E c \in ToSet(client_list) : client_remove(c)
  /\ UNCHANGED <<network, turn, misread, refused>>

(* Mutant: one recv is taken for the whole. *)
EnoughAtOnce(got) == got # <<>>

(* recv_full: as often as it takes. *)
Enough(got) == Len(got) = turn.want

(* What the header says, whatever it is made of. *)
Meanings(got) ==
  LET n == got[1][1]
  IN IF got = <<<<n, 1>>, <<n, 2>>>> THEN {peer[Served].frames[n]} ELSE FrameKind

(* The body of a refused frame is not read.  An exception and the silence  *)
(* for a body that is too short come after it.                             *)
AfterHeader(got) == \E f \in Meanings(got) :
  /\ IF f.kind = "refused" \/ f.body = 0 THEN Handled
     ELSE /\ turn' = [turn EXCEPT !.got = <<>>, !.want = f.body, !.header = FALSE]
          /\ UNCHANGED <<client_list, sockets>>
  /\ refused' = IF f.kind = "refused" THEN refused \cup {Served} ELSE refused
  /\ misread' = IF got[1][2] = 1 THEN misread ELSE misread \cup {Served}

Recv == turn.at = "serve" /\ \E n \in 1..(turn.want - Len(turn.got)) :
  /\ n <= Len(stream[Served])
  /\ stream' = [stream EXCEPT ![Served] = SubSeq(@, n + 1, Len(@))]
  /\ LET got == turn.got \o SubSeq(stream[Served], 1, n)
     IN IF Enough(got)
        THEN IF turn.header THEN AfterHeader(got) ELSE Handled /\ UNCHANGED <<misread, refused>>
        ELSE turn' = [turn EXCEPT !.got = got] /\ UNCHANGED <<client_list, sockets, misread, refused>>
  /\ UNCHANGED <<mbLink, peer, coming, backlog>>

NoMore == turn.at = "serve" /\ stream[Served] = <<>>

(* Mutant: without SO_RCVTIMEO. *)
RecvFailsIfClosed ==
  /\ NoMore /\ peer[Served].is = "closed" /\ client_remove(Served) /\ NextClient
  /\ UNCHANGED <<network, misread, refused>>

(* The end of the stream, MB_TCP_IO_TIMEOUT without a byte. *)
RecvFails ==
  /\ NoMore /\ client_remove(Served) /\ NextClient
  /\ UNCHANGED <<network, misread, refused>>

mb_tcp_thread == Select \/ SessionTimeout \/ Recv \/ RecvFails

MbcNext ==
  \/ mb_tcp_thread \/ LinkChanges
  \/ \E c \in Conn : Connect(c) \/ Arrives(c) \/ PeerCloses(c)

MbcFairness == WF_mbcVars(Recv \/ RecvFails)

MbcSpec == MbcInit /\ [][MbcNext]_mbcVars /\ MbcFairness
-----------------------------------------------------------------------------
(* Properties *)

(* tcp.c:112: recv_full keeps the frames in step however TCP cuts them; a  *)
(* frame refused for its header (tcp.c:162), whose body stays unread, is   *)
(* the only way out of step.                                               *)
FramesInStep == misread \subseteq refused

(* client_add, client_remove: the thread closes every socket it does not   *)
(* watch, and watches none twice.                                          *)
WatchesItsSockets == ToSet(client_list) = sockets /\ IsInjective(client_list)

(* tcp.c:38: a master that stops in the middle of a frame does not keep    *)
(* the thread from the others.                                             *)
BackToSelect == turn # Selecting ~> turn = Selecting
=============================================================================
