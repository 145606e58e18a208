----------------------------- MODULE WebServer -----------------------------
(***************************************************************************)
(* The web server of io-edge-hub: the POST commands and the download of    *)
(* httpd.c, and the WebSocket slots of ws_io.c.  One thread of Zephyr's    *)
(* HTTP server calls the handlers, each call one step.  It gives a         *)
(* resource to one client at a time (the holder), but the POST resources   *)
(* share one body buffer.                                                  *)
(*                                                                         *)
(* A byte of a body is <<client, position>>.                               *)
(***************************************************************************)
EXTENDS Integers, Sequences, FiniteSets

CONSTANTS
  Visitor,     \* HTTP clients
  Visits,      \* the sets of resources in use, with "clobber" for a build
               \* whose linker put body_len behind body_buf
  BodyMax,     \* BODY_MAX
  MaxBody,     \* bound: bytes of a body
  FileBytes,   \* bound: size of the file that is downloaded
  DlChunk,     \* DL_CHUNK
  WsSlot,      \* CONFIG_IO_WEB_WS_HANDLERS
  NoClient

Posting == {"do", "reg", "time", "cfg", "hist_del"}
Resource == Posting \cup {"save", "download"}

ASSUME WebAssumption ==
  /\ {BodyMax, MaxBody, DlChunk} \subseteq Nat \ {0} /\ FileBytes \in Nat
  /\ Visits \subseteq SUBSET (Resource \cup {"ws", "clobber"})
  /\ NoClient \notin Visitor

VARIABLES
  visits,         \* the resources in use; never changes
  conn,           \* the request of each client
  body_buf, body_done, body_rejected,
  dl,             \* the download's state, with the position in the file
  bytes,          \* size of the history file, which may grow
  slot,           \* ws_slots, and where each slot's thread stands
  corrupt         \* a thread was created on a stack that is in use

bodyVars == <<body_buf, body_done, body_rejected>>
webVars == <<visits, conn, bodyVars, dl, bytes, slot, corrupt>>

NoRequest == [res |-> "none"]
Asking(c, r) == conn[c].res = r /\ conn[c].verdict = "none"
Held(r) == \E c \in Visitor : conn[c].res = r
NoDownload == [open |-> FALSE, started |-> FALSE, remain |-> 0, pos |-> 0]
FreeSlot == [sock |-> NoClient, in_use |-> FALSE, at |-> "none"]

(* ran is the body the command ran with, size that of the file when its    *)
(* download began.                                                         *)
HttpRequest ==
  {NoRequest} \cup
  [res : Resource, len : 0..MaxBody, sent : 0..MaxBody,
   verdict : {"none", "done", "refused", "failed"}, ran : Seq(Visitor \X Nat), size : 0..FileBytes]
Download == [open : BOOLEAN, started : BOOLEAN, remain : Int, pos : 0..FileBytes]
Slot ==
  [sock : Visitor \cup {NoClient}, in_use : BOOLEAN,
   at : {"none", "run", "unregister", "clear", "free", "exit"}]

WebTypeOK ==
  /\ visits \in Visits
  /\ conn \in [Visitor -> HttpRequest]
  /\ \A c \in Visitor : conn[c] # NoRequest => conn[c].sent <= conn[c].len
  /\ body_buf \in Seq(Visitor \X Nat) /\ Len(body_buf) <= BodyMax
  /\ body_done \in BOOLEAN /\ body_rejected \in BOOLEAN
  /\ dl \in Download /\ bytes \in 0..FileBytes
  /\ slot \in [WsSlot -> Slot] /\ corrupt \in BOOLEAN

WebInit ==
  /\ visits \in Visits
  /\ conn = [c \in Visitor |-> NoRequest]
  /\ body_buf = <<>> /\ body_done = FALSE /\ body_rejected = FALSE
  /\ dl = NoDownload /\ bytes \in 0..FileBytes
  /\ slot = [i \in WsSlot |-> FreeSlot] /\ corrupt = FALSE

-----------------------------------------------------------------------------
(* Requests (external: the HTTP server) *)

WebRequest(c) == \E r \in visits \cap Resource, n \in 0..MaxBody :
  /\ conn[c] = NoRequest /\ ~Held(r)
  /\ r \in {"save", "download"} => n = 0
  /\ conn' = [conn EXCEPT ![c] = [res |-> r, len |-> n, sent |-> 0, verdict |-> "none",
                                  ran |-> <<>>, size |-> 0]]
  /\ UNCHANGED <<visits, bodyVars, dl, bytes, slot, corrupt>>

Answer(c, verdict, ran) ==
  conn' = [conn EXCEPT ![c].verdict = verdict, ![c].ran = ran, ![c].sent = conn[c].len]

(* Mutant: a body that was refused goes on with what fits. *)
RejectsOnlyNow(old, n) == Len(old) + n > BodyMax

(* The refusal is sticky. *)
Rejects(old, n) == body_rejected \/ Len(old) + n > BodyMax

(* The terminator of a full buffer lands behind it: where body_len is there, *)
(* its low byte is cleared.                                                  *)
Appended(buf) == IF "clobber" \in visits /\ Len(buf) = BodyMax THEN <<>> ELSE buf

(* body_append, the first chunk after a finished command starting afresh, *)
(* and the command once the body is whole.                                *)
Post(c, r) == \E n \in 0..(conn[c].len - conn[c].sent) :
  LET old == IF body_done THEN <<>> ELSE body_buf
      chunk == [i \in 1..n |-> <<c, conn[c].sent + i>>]
      final == conn[c].sent + n = conn[c].len
      more == [conn EXCEPT ![c].sent = @ + n]
  IN /\ n > 0 \/ final
     /\ IF Rejects(old, n)
        THEN /\ body_rejected' = TRUE /\ body_buf' = old /\ body_done' = FALSE
             /\ IF final THEN Answer(c, "refused", <<>>) ELSE conn' = more
        ELSE /\ body_buf' = Appended(old \o chunk)
             /\ body_done' = final
             /\ IF final THEN Answer(c, "done", body_buf') ELSE conn' = more
             /\ UNCHANGED body_rejected

Handler(c, r) == Asking(c, r) /\ Post(c, r) /\ UNCHANGED <<visits, dl, bytes, slot, corrupt>>

ApiDo(c) == Handler(c, "do")
Reg(c) == Handler(c, "reg")
ApiTime(c) == Handler(c, "time")
Cfg(c) == Handler(c, "cfg")
HistDel(c) == Handler(c, "hist_del")

WebSave(c) ==
  /\ Asking(c, "save")
  /\ body_done' = TRUE
  /\ Answer(c, "done", <<>>)
  /\ UNCHANGED <<visits, body_buf, body_rejected, dl, bytes, slot, corrupt>>

-----------------------------------------------------------------------------
(* The download *)

DlStart(c) ==
  /\ Asking(c, "download") /\ ~dl.started
  /\ \/ /\ dl' = [open |-> TRUE, started |-> TRUE, remain |-> bytes, pos |-> 0]
        /\ conn' = [conn EXCEPT ![c].size = bytes]
     \/ /\ dl' = [dl EXCEPT !.started = TRUE]      \* no such file, or it does not open
        /\ Answer(c, "failed", <<>>)
  /\ UNCHANGED <<visits, bodyVars, bytes, slot, corrupt>>

LastChunk(len, remain) == len = 0 \/ remain = 0

(* remain is a size_t; a negative one, of a file that grew, is no less *)
(* far from zero.                                                      *)
DlNext(c) ==
  /\ Asking(c, "download") /\ dl.open
  /\ \/ LET left == bytes - dl.pos
            len == IF left < DlChunk THEN left ELSE DlChunk
            last == LastChunk(len, dl.remain - len)
        IN /\ dl' = [dl EXCEPT !.remain = @ - len, !.pos = @ + len, !.open = ~last]
           /\ IF last THEN Answer(c, "done", <<>>) ELSE UNCHANGED conn
     \/ /\ dl' = [dl EXCEPT !.open = FALSE]        \* fs_read fails
        /\ Answer(c, "failed", <<>>)
  /\ UNCHANGED <<visits, bodyVars, bytes, slot, corrupt>>

Grow ==
  /\ "download" \in visits /\ bytes < FileBytes
  /\ bytes' = bytes + 1
  /\ UNCHANGED <<visits, conn, bodyVars, dl, slot, corrupt>>

-----------------------------------------------------------------------------
(* The end of a transaction, answered (COMPLETE) or not (ABORTED) *)

BodyReset == body_buf' = <<>> /\ body_done' = FALSE /\ body_rejected' = FALSE

DlReset == dl' = [dl EXCEPT !.open = FALSE, !.started = FALSE]

End(c) ==
  /\ conn[c] # NoRequest
  /\ IF conn[c].res \in Posting THEN BodyReset ELSE UNCHANGED bodyVars
  /\ IF conn[c].res = "download" THEN DlReset ELSE UNCHANGED dl
  /\ conn' = [conn EXCEPT ![c] = NoRequest]
  /\ UNCHANGED <<visits, bytes, slot, corrupt>>

-----------------------------------------------------------------------------
(* WebSocket connections *)

Connected(c) == \E i \in WsSlot : slot[i].sock = c

(* ws_io_setup: the slot that is not in use gets the socket and a thread;  *)
(* without one the connection is refused.  The thread that left the slot   *)
(* may not have ended yet.                                                 *)
WsSetup(c) == \E i \in WsSlot :
  /\ "ws" \in visits /\ ~Connected(c)
  /\ ~slot[i].in_use /\ \A j \in WsSlot : j < i => slot[j].in_use
  /\ slot' = [slot EXCEPT ![i] = [sock |-> c, in_use |-> TRUE, at |-> "run"]]
  /\ corrupt' = (corrupt \/ slot[i].at # "none")
  /\ UNCHANGED <<visits, conn, bodyVars, dl, bytes>>

WsGo(i, from, new) ==
  /\ slot[i].at = from
  /\ slot' = [slot EXCEPT ![i] = new]
  /\ UNCHANGED <<visits, conn, bodyVars, dl, bytes, corrupt>>

(* ws_thread: the connection fails, the socket is closed, the slot given up. *)
WsFails(i) == WsGo(i, "run", [slot[i] EXCEPT !.at = "unregister"])

WsUnregister(i) == WsGo(i, "unregister", [slot[i] EXCEPT !.at = "clear"])

WsClear(i) == WsGo(i, "clear", [slot[i] EXCEPT !.sock = NoClient, !.at = "free"])

WsFree(i) == WsGo(i, "free", [slot[i] EXCEPT !.in_use = FALSE, !.at = "exit"])

WsExit(i) == WsGo(i, "exit", [slot[i] EXCEPT !.at = "none"])

WsThread(i) == WsFails(i) \/ WsUnregister(i) \/ WsClear(i) \/ WsFree(i) \/ WsExit(i)

WebNext ==
  \/ \E c \in Visitor :
       \/ WebRequest(c) \/ End(c) \/ WsSetup(c)
       \/ ApiDo(c) \/ Reg(c) \/ ApiTime(c) \/ Cfg(c) \/ HistDel(c) \/ WebSave(c)
       \/ DlStart(c) \/ DlNext(c)
  \/ Grow
  \/ \E i \in WsSlot : WsThread(i)

WebSpec == WebInit /\ [][WebNext]_webVars

-----------------------------------------------------------------------------
(* Properties *)

Own(c) == [i \in 1..conn[c].len |-> <<c, i>>]

RanRight(c) ==
  /\ conn[c].verdict = "done" => conn[c].ran = Own(c)
  /\ conn[c].verdict = "refused" => conn[c].len > BodyMax

Posted == {c \in Visitor : conn[c].res \in Posting}

(* The command that runs is the one its client sent, whole and nothing else, *)
(* however the network cut it and whatever became of the requests before; a  *)
(* body that fits is not refused, one that does not fit is.  While one POST  *)
(* resource is in use, and in a build that clobbers body_len as long as the  *)
(* body leaves room for the terminator.                                      *)
OwnBody ==
  Cardinality(visits \cap (Posting \cup {"save"})) <= 1 =>
    \A c \in Posted : ("clobber" \in visits => conn[c].len < BodyMax) => RanRight(c)

(* httpd.c:94 takes the holder for a guarantee that one client at a time uses *)
(* the buffer.                                                                *)
BodiesApart == "clobber" \notin visits => \A c \in Posted : RanRight(c)

(* ws_io.c:527: the thread of a connection that ends gives its slot up when   *)
(* it is through with it, lest the next connection loses its socket.          *)
WsSlotsClean == \A i \in WsSlot : ~slot[i].in_use => slot[i].sock = NoClient

(* No handle of the download is lost: a download starts with the file of the *)
(* one before closed, whichever way that ended; and one that was answered    *)
(* has sent what the file held when it began, though the recorder goes on.   *)
DownloadWhole ==
  /\ dl.open => \E c \in Visitor : Asking(c, "download") /\ dl.started
  /\ \A c \in Visitor :
       (conn[c].res = "download" /\ conn[c].verdict = "done") => dl.pos >= conn[c].size
=============================================================================
