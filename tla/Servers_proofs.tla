--------------------------- MODULE Servers_proofs ---------------------------
(***************************************************************************)
(* Proofs about WebServer and FtpServer, for any visitors, sessions and    *)
(* sizes, and about ModbusTcp and MbClients, for any clients, requests,    *)
(* broadcasts and frames.                                                  *)
(***************************************************************************)
EXTENDS WebServer, FtpServer, ModbusTcp, MbClients, FiniteSetTheorems, SequenceTheorems, TLAPS

-----------------------------------------------------------------------------
(* WebServer *)

-----------------------------------------------------------------------------
(* A resource has one client at a time, and only resources in use have one. *)
OneHolder ==
  /\ \A c, d \in Visitor : conn[c].res # "none" /\ conn[c].res = conn[d].res => c = d
  /\ \A c \in Visitor : conn[c].res # "none" => conn[c].res \in visits

(* What the file has, what was sent and what remains to be sent. *)
DownloadInv ==
  /\ dl.pos <= bytes
  /\ dl.open => dl.started /\ \E c \in Visitor : Asking(c, "download")
  /\ \A c \in Visitor :
       /\ Asking(c, "download") /\ dl.open =>
            dl.pos + dl.remain = conn[c].size /\ conn[c].size <= bytes
       /\ conn[c].res = "download" /\ conn[c].verdict = "done" => dl.pos >= conn[c].size

LEMMA NoneAskedFor == NoRequest.res = "none" /\ NoRequest.res \notin Resource
BY DEF NoRequest, Resource, Posting

LEMMA EmptyBody == \A s : s = <<>> => s \in Seq(Visitor \X Nat) /\ Len(s) = 0
OBVIOUS

LEMMA NothingFits ==
  ASSUME NEW s, s = <<>>
  PROVE  s \in Seq(Visitor \X Nat) /\ Len(s) <= BodyMax
<1>1. Len(s) = 0
  OBVIOUS
<1> QED
  BY <1>1, WebAssumption

LEMMA WebInitTyped == WebInit => WebTypeOK
<1> SUFFICES ASSUME WebInit PROVE WebTypeOK
  OBVIOUS
<1>1. conn \in [Visitor -> HttpRequest] /\ \A c \in Visitor : conn[c] = NoRequest
  BY DEF WebInit, HttpRequest
<1>2. dl \in Download
  BY WebAssumption DEF WebInit, Download, NoDownload
<1>3. slot \in [WsSlot -> Slot]
  BY DEF WebInit, Slot, FreeSlot
<1>4. body_buf \in Seq(Visitor \X Nat) /\ Len(body_buf) <= BodyMax
  BY EmptyBody, WebAssumption DEF WebInit
<1> QED
  BY <1>1, <1>2, <1>3, <1>4, WebAssumption DEF WebInit, WebTypeOK

(* What an answer leaves in the request. *)
LEMMA RequestFields ==
  ASSUME WebTypeOK, NEW c \in Visitor, conn[c].res # "none"
  PROVE  /\ conn[c] # NoRequest
         /\ conn[c] \in [res : Resource, len : 0..MaxBody, sent : 0..MaxBody,
               verdict : {"none", "done", "refused", "failed"},
               ran : Seq(Visitor \X Nat), size : 0..FileBytes]
         /\ conn[c].sent <= conn[c].len
BY NoneAskedFor DEF WebTypeOK, HttpRequest

(* What an answer leaves in the request. *)
LEMMA AnswerTyped ==
  ASSUME WebTypeOK, NEW c \in Visitor, conn[c].res # "none",
         NEW v \in {"done", "refused", "failed"}, NEW ran \in Seq(Visitor \X Nat),
         Answer(c, v, ran)
  PROVE  /\ conn' \in [Visitor -> HttpRequest]
         /\ \A d \in Visitor : conn'[d] # NoRequest => conn'[d].sent <= conn'[d].len
         /\ conn'[c].res = conn[c].res /\ conn'[c].len = conn[c].len
         /\ conn'[c].size = conn[c].size
         /\ conn'[c].verdict = v /\ conn'[c].ran = ran
         /\ \A d \in Visitor \ {c} : conn'[d] = conn[d]
<1> DEFINE q == conn[c]
           new == [q EXCEPT !.verdict = v, !.ran = ran, !.sent = q.len]
<1>1. conn \in [Visitor -> HttpRequest]
  BY DEF WebTypeOK
<1>2. conn' = [conn EXCEPT ![c] = new]
  BY <1>1 DEF Answer
<1>3. /\ new \in HttpRequest /\ new.sent = new.len
      /\ new.res = q.res /\ new.len = q.len /\ new.size = q.size
      /\ new.verdict = v /\ new.ran = ran
  BY RequestFields DEF HttpRequest
<1>4. conn'[c] = new /\ \A d \in Visitor \ {c} : conn'[d] = conn[d]
  BY <1>1, <1>2
<1>5. new.len \in 0..MaxBody
  BY <1>3, RequestFields
<1> HIDE DEF new
<1> QED
  BY <1>1, <1>2, <1>3, <1>4, <1>5 DEF WebTypeOK

(* One chunk of a body. *)
Chunk(c, n) == [i \in 1..n |-> <<c, conn[c].sent + i>>]

LEMMA PostTyped ==
  ASSUME WebTypeOK, NEW c \in Visitor, NEW r \in Resource, Handler(c, r)
  PROVE  WebTypeOK'
<1>1. PICK n \in 0..(conn[c].len - conn[c].sent) : Post(c, r)!(n)
  BY DEF Handler, Post
<1> DEFINE old == IF body_done THEN <<>> ELSE body_buf
<1>2. r # "none" /\ conn[c].res = r
  BY DEF Handler, Asking, Resource, Posting
<1>3. /\ conn[c] # NoRequest /\ conn[c].sent <= conn[c].len
      /\ conn[c].sent \in 0..MaxBody /\ conn[c].len \in 0..MaxBody
  BY <1>2, RequestFields
<1>4. old \in Seq(Visitor \X Nat) /\ Len(old) <= BodyMax
  BY EmptyBody, WebAssumption DEF WebTypeOK
<1>5. Chunk(c, n) \in Seq(Visitor \X Nat) /\ Len(Chunk(c, n)) = n
  <2>1. \A i \in 1..n : <<c, conn[c].sent + i>> \in Visitor \X Nat
    BY <1>3
  <2> QED
    BY <2>1, <1>3 DEF Chunk
<1>6. /\ old \o Chunk(c, n) \in Seq(Visitor \X Nat)
      /\ Len(old \o Chunk(c, n)) = Len(old) + n
  BY <1>4, <1>5, ConcatProperties
<1>7. ~Rejects(old, n) => /\ Appended(old \o Chunk(c, n)) \in Seq(Visitor \X Nat)
                          /\ Len(Appended(old \o Chunk(c, n))) <= BodyMax
  BY <1>3, <1>4, <1>6, EmptyBody, WebAssumption DEF Rejects, Appended
<1>8. /\ body_buf' \in Seq(Visitor \X Nat) /\ Len(body_buf') <= BodyMax
      /\ body_done' \in BOOLEAN /\ body_rejected' \in BOOLEAN
  BY <1>1, <1>3, <1>4, <1>7 DEF WebTypeOK, Chunk
<1>9. /\ conn' \in [Visitor -> HttpRequest]
      /\ \A d \in Visitor : conn'[d] # NoRequest => conn'[d].sent <= conn'[d].len
  <2>1. CASE conn' = [conn EXCEPT ![c].sent = @ + n]
    <3>1. conn[c].sent + n \in 0..MaxBody /\ conn[c].sent + n <= conn[c].len
      BY <1>3, WebAssumption
    <3> QED
      BY <2>1, <3>1, <1>2, RequestFields DEF WebTypeOK, HttpRequest
  <2>2. CASE Answer(c, "refused", <<>>)
    BY <2>2, <1>2, AnswerTyped, EmptyBody
  <2>3. CASE Answer(c, "done", body_buf')
    BY <2>3, <1>2, <1>8, AnswerTyped
  <2> QED
    BY <1>1, <2>1, <2>2, <2>3
<1> QED
  BY <1>8, <1>9 DEF WebTypeOK, Handler

LEMMA DownloadTyped ==
  ASSUME WebTypeOK, DownloadInv, NEW c \in Visitor, DlStart(c) \/ DlNext(c)
  PROVE  WebTypeOK'
<1> SUFFICES conn' \in [Visitor -> HttpRequest] /\ dl' \in Download
             /\ \A d \in Visitor : conn'[d] # NoRequest => conn'[d].sent <= conn'[d].len
  BY DEF DlStart, DlNext, bodyVars, WebTypeOK
<1>1. conn[c].res # "none" /\ conn[c].res = "download"
  BY DEF DlStart, DlNext, Asking
<1>2. CASE DlStart(c)
  <2>1. dl' \in Download
    <3>1. CASE dl' = [open |-> TRUE, started |-> TRUE, remain |-> bytes, pos |-> 0]
      BY <3>1, WebAssumption DEF WebTypeOK, Download
    <3>2. CASE dl' = [dl EXCEPT !.started = TRUE]
      BY <3>2 DEF WebTypeOK, Download
    <3> QED
      BY <1>2, <3>1, <3>2 DEF DlStart
  <2>2. CASE conn' = [conn EXCEPT ![c].size = bytes]
    BY <2>1, <2>2, <1>1, RequestFields DEF WebTypeOK, HttpRequest
  <2>3. CASE Answer(c, "failed", <<>>)
    BY <2>1, <2>3, <1>1, AnswerTyped, EmptyBody
  <2> QED
    BY <1>2, <2>2, <2>3 DEF DlStart
<1>3. CASE DlNext(c)
  <2> DEFINE left == bytes - dl.pos
             len == IF left < DlChunk THEN left ELSE DlChunk
             last == LastChunk(len, dl.remain - len)
  <2>1. CASE /\ dl' = [dl EXCEPT !.remain = @ - len, !.pos = @ + len, !.open = ~last]
             /\ IF last THEN Answer(c, "done", <<>>) ELSE UNCHANGED conn
    <3>1. left \in Nat /\ len \in Nat /\ dl.pos + len \in 0..FileBytes /\ dl.remain - len \in Int
      <4>1. dl.pos \in Nat /\ dl.remain \in Int
        BY DEF WebTypeOK, Download
      <4>2. bytes \in 0..FileBytes /\ dl.pos <= bytes /\ DlChunk \in Nat /\ FileBytes \in Nat
        BY WebAssumption DEF DownloadInv, WebTypeOK
      <4>3. left \in Nat /\ dl.pos + left <= FileBytes
        BY <4>1, <4>2
      <4> HIDE DEF left
      <4>4. len \in Nat /\ len <= left
        BY <4>2, <4>3
      <4> HIDE DEF len
      <4> QED
        BY <4>1, <4>2, <4>3, <4>4
    <3>2. last \in BOOLEAN
      BY DEF LastChunk
    <3>3. dl' \in Download
      <4> HIDE DEF len, last
      <4> QED BY <2>1, <3>1, <3>2 DEF WebTypeOK, Download
    <3>4. CASE Answer(c, "done", <<>>)
      BY <3>3, <3>4, <1>1, AnswerTyped, EmptyBody
    <3>5. CASE UNCHANGED conn
      BY <3>3, <3>5 DEF WebTypeOK
    <3> QED
      BY <2>1, <3>4, <3>5
  <2>2. CASE dl' = [dl EXCEPT !.open = FALSE] /\ Answer(c, "failed", <<>>)
    <3>1. dl' \in Download
      BY <2>2 DEF WebTypeOK, Download
    <3> QED
      BY <3>1, <2>2, <1>1, AnswerTyped, EmptyBody
  <2> QED
    BY <1>3, <2>1, <2>2 DEF DlNext
<1> QED
  BY <1>2, <1>3

LEMMA WebStepRequest ==
  ASSUME WebTypeOK, NEW c \in Visitor, WebRequest(c)
  PROVE  WebTypeOK'
<1>1. PICK r \in visits \cap Resource, n \in 0..MaxBody :
             conn' = [conn EXCEPT ![c] = [res |-> r, len |-> n, sent |-> 0,
                                          verdict |-> "none", ran |-> <<>>, size |-> 0]]
  BY DEF WebRequest
<1> DEFINE new == [res |-> r, len |-> n, sent |-> 0, verdict |-> "none", ran |-> <<>>, size |-> 0]
<1>2. new \in HttpRequest /\ new.sent <= new.len
  BY EmptyBody, WebAssumption DEF HttpRequest
<1> QED
  BY <1>1, <1>2 DEF WebTypeOK, WebRequest, bodyVars

LEMMA WebStepTyped ==
  ASSUME WebTypeOK, DownloadInv, [WebNext]_webVars
  PROVE  WebTypeOK'
<1>1. ASSUME NEW c \in Visitor, WebRequest(c)
      PROVE  WebTypeOK'
  BY <1>1, WebStepRequest
<1>2. ASSUME NEW c \in Visitor, End(c)
      PROVE  WebTypeOK'
  <2>1. conn' \in [Visitor -> HttpRequest]
        /\ \A d \in Visitor : conn'[d] # NoRequest => conn'[d].sent <= conn'[d].len
    BY <1>2 DEF End, WebTypeOK, HttpRequest
  <2>2. dl' \in Download
    BY <1>2 DEF End, DlReset, WebTypeOK, Download
  <2>3. body_buf' \in Seq(Visitor \X Nat) /\ Len(body_buf') <= BodyMax
        /\ body_done' \in BOOLEAN /\ body_rejected' \in BOOLEAN
    <3>1. CASE BodyReset
      <4>1. body_buf' = <<>> /\ body_done' = FALSE /\ body_rejected' = FALSE
        BY <3>1 DEF BodyReset
      <4> QED
        BY <4>1, NothingFits
    <3>2. CASE UNCHANGED bodyVars
      BY <3>2 DEF WebTypeOK, bodyVars
    <3> QED
      BY <3>1, <3>2, <1>2 DEF End
  <2> QED
    BY <1>2, <2>1, <2>2, <2>3 DEF End, WebTypeOK
<1>3. ASSUME NEW c \in Visitor, WsSetup(c)
      PROVE  WebTypeOK'
  BY <1>3 DEF WsSetup, WebTypeOK, Slot, bodyVars
<1>4. ASSUME NEW c \in Visitor, WebSave(c)
      PROVE  WebTypeOK'
  <2>1. conn[c].res # "none"
    BY <1>4 DEF WebSave, Asking
  <2> QED
    BY <1>4, <2>1, AnswerTyped, EmptyBody DEF WebSave, WebTypeOK
<1>5. CASE Grow
  BY <1>5, WebAssumption DEF Grow, WebTypeOK, bodyVars
<1>6. ASSUME NEW i \in WsSlot, WsThread(i)
      PROVE  WebTypeOK'
  <2>1. slot[i] \in Slot
    BY DEF WebTypeOK
  <2>2. UNCHANGED <<visits, conn, bodyVars, dl, bytes>> /\ corrupt' \in BOOLEAN
    BY <1>6 DEF WsThread, WsFails, WsUnregister, WsClear, WsFree, WsExit, WsGo, WebTypeOK
  <2>3. PICK s \in Slot : slot' = [slot EXCEPT ![i] = s]
    <3>1. \A a \in {"none", "run", "unregister", "clear", "free", "exit"} :
            [slot[i] EXCEPT !.at = a] \in Slot
      BY <2>1 DEF Slot
    <3> QED
      BY <1>6, <2>1, <3>1, ZenonT(40)
         DEF WsThread, WsFails, WsUnregister, WsClear, WsFree, WsExit, WsGo, Slot
  <2>4. slot' \in [WsSlot -> Slot]
    BY <2>3 DEF WebTypeOK
  <2> QED
    BY <2>2, <2>4 DEF WebTypeOK, bodyVars
<1>7. CASE UNCHANGED webVars
  BY <1>7 DEF webVars, bodyVars, WebTypeOK
<1>8. ASSUME NEW c \in Visitor, ApiDo(c) \/ Reg(c) \/ ApiTime(c) \/ Cfg(c) \/ HistDel(c)
      PROVE  WebTypeOK'
  BY <1>8, PostTyped DEF ApiDo, Reg, ApiTime, Cfg, HistDel, Resource, Posting
<1> QED
  BY <1>1, <1>2, <1>3, <1>4, <1>5, <1>6, <1>7, <1>8, DownloadTyped DEF WebNext

-----------------------------------------------------------------------------
(* Who holds what *)

(* No step gives a resource to a second client. *)
LEMMA OneHolderStep ==
  ASSUME WebTypeOK, OneHolder, [WebNext]_webVars
  PROVE  OneHolder'
<1>1. ASSUME \A c \in Visitor : conn'[c].res \in {"none", conn[c].res}, visits' = visits
      PROVE  OneHolder'
  BY <1>1 DEF OneHolder
<1>2. ASSUME NEW c \in Visitor, WebRequest(c)
      PROVE  OneHolder'
  <2>1. PICK r \in visits \cap Resource, n \in 0..MaxBody :
          /\ ~Held(r)
          /\ conn' = [conn EXCEPT ![c] = [res |-> r, len |-> n, sent |-> 0,
                                          verdict |-> "none", ran |-> <<>>, size |-> 0]]
    BY <1>2 DEF WebRequest
  <2>2. conn'[c].res = r /\ \A d \in Visitor \ {c} : conn'[d] = conn[d]
    BY <2>1 DEF WebTypeOK
  <2> QED
    BY <1>2, <2>1, <2>2 DEF OneHolder, Held, WebRequest
<1>3. ASSUME NEW c \in Visitor, End(c)
      PROVE  OneHolder'
  <2>1. \A d \in Visitor : conn'[d].res \in {"none", conn[d].res}
    BY <1>3, NoneAskedFor DEF End, WebTypeOK
  <2> QED
    BY <1>1, <1>3, <2>1 DEF End
<1>4. ASSUME NEW c \in Visitor, NEW v \in {"done", "refused", "failed"}, NEW ran \in Seq(Visitor \X Nat),
             conn[c].res # "none", Answer(c, v, ran), visits' = visits
      PROVE  OneHolder'
  BY <1>1, <1>4, AnswerTyped
<1>5. ASSUME NEW c \in Visitor, NEW r \in Resource, Handler(c, r)
      PROVE  OneHolder'
  <2>1. conn[c].res # "none" /\ visits' = visits
    BY <1>5 DEF Handler, Asking, Resource, Posting
  <2>2. PICK n \in 0..(conn[c].len - conn[c].sent) : Post(c, r)!(n)
    BY <1>5 DEF Handler, Post
  <2>3. CASE conn' = [conn EXCEPT ![c].sent = @ + n]
    BY <1>1, <2>1, <2>3, RequestFields DEF WebTypeOK
  <2>4. CASE Answer(c, "refused", <<>>)
    BY <1>4, <2>1, <2>4, EmptyBody
  <2>5. CASE Answer(c, "done", body_buf')
    <3>1. body_buf' \in Seq(Visitor \X Nat)
      BY <1>5, PostTyped DEF WebTypeOK
    <3> QED
      BY <1>4, <2>1, <2>5, <3>1
  <2> QED
    BY <2>2, <2>3, <2>4, <2>5
<1>6. ASSUME NEW c \in Visitor, WebSave(c) \/ DlStart(c) \/ DlNext(c)
      PROVE  OneHolder'
  <2>1. conn[c].res # "none" /\ visits' = visits
    BY <1>6 DEF WebSave, DlStart, DlNext, Asking
  <2>2. CASE Answer(c, "done", <<>>) \/ Answer(c, "failed", <<>>)
    BY <1>4, <2>1, <2>2, EmptyBody
  <2>3. CASE conn' = [conn EXCEPT ![c].size = bytes] \/ UNCHANGED conn
    BY <1>1, <2>1, <2>3, RequestFields DEF WebTypeOK
  <2> QED
    BY <1>6, <2>2, <2>3 DEF WebSave, DlStart, DlNext
<1>7. CASE UNCHANGED <<visits, conn>>
  BY <1>1, <1>7
<1>8. ASSUME NEW c \in Visitor, ApiDo(c) \/ Reg(c) \/ ApiTime(c) \/ Cfg(c) \/ HistDel(c)
      PROVE  OneHolder'
  BY <1>5, <1>8 DEF ApiDo, Reg, ApiTime, Cfg, HistDel, Resource, Posting
<1>9. ASSUME Grow \/ UNCHANGED webVars
      PROVE  OneHolder'
  BY <1>7, <1>9 DEF Grow, webVars
<1>10. ASSUME NEW c \in Visitor, WsSetup(c)
       PROVE  OneHolder'
  BY <1>7, <1>10 DEF WsSetup
<1>11. ASSUME NEW i \in WsSlot, WsThread(i)
       PROVE  OneHolder'
  BY <1>7, <1>11 DEF WsThread, WsFails, WsUnregister, WsClear, WsFree, WsExit, WsGo
<1> QED
  BY <1>2, <1>3, <1>6, <1>8, <1>9, <1>10, <1>11 DEF WebNext

-----------------------------------------------------------------------------
(* The body of a command.  The buffer is that of the one client that posts: *)
(* the beginning of its body, or the body was too long; without one it is   *)
(* empty.                                                                   *)
OnePost == Cardinality(visits \cap (Posting \cup {"save"})) <= 1

Beginning1(c, n) == [i \in 1..n |-> <<c, i>>]
Fits(c) == "clobber" \in visits => conn[c].len < BodyMax

InBuffer(c) ==
  conn[c].verdict = "none" =>
    /\ ~body_done
    /\ IF body_rejected THEN conn[c].len > BodyMax ELSE body_buf = Beginning1(c, conn[c].sent)

BodyInv == OnePost =>
  /\ "save" \notin visits /\ Posted = {} => body_buf = <<>> /\ ~body_done /\ ~body_rejected
  /\ \A c \in Posted : Fits(c) => InBuffer(c) /\ RanRight(c)

LEMMA AtMostOne ==
  ASSUME NEW S, IsFiniteSet(S), Cardinality(S) <= 1, NEW x \in S, NEW y \in S
  PROVE  x = y
<1> SUFFICES ASSUME x # y PROVE FALSE
  OBVIOUS
<1>1. IsFiniteSet({x}) /\ Cardinality({x}) = 1
  BY FS_Singleton
<1>2. IsFiniteSet({x} \cup {y}) /\ Cardinality({x} \cup {y}) = 2
  <2>1. y \notin {x}
    OBVIOUS
  <2>2. Cardinality({x} \cup {y}) = Cardinality({x}) + 1 /\ IsFiniteSet({x} \cup {y})
    BY <1>1, <2>1, FS_AddElement
  <2> QED
    BY <1>1, <2>2
<1>3. {x} \cup {y} \subseteq S
  OBVIOUS
<1>4. Cardinality({x} \cup {y}) <= Cardinality(S)
  BY <1>3, FS_Subset
<1>5. Cardinality(S) \in Nat
  BY FS_CardinalityType
<1> QED
  BY <1>2, <1>4, <1>5

LEMMA OneInUse ==
  ASSUME OnePost, NEW q \in visits \cap (Posting \cup {"save"}),
         NEW r \in visits \cap (Posting \cup {"save"})
  PROVE  q = r
<1> DEFINE P == Posting \cup {"save"}
<1>1. IsFiniteSet({"do", "reg", "time", "cfg", "hist_del", "save"})
  <2>1. IsFiniteSet({"do"})
    BY FS_Singleton
  <2>2. IsFiniteSet({"do"} \cup {"reg"})
    BY <2>1, FS_AddElement
  <2>3. IsFiniteSet({"do"} \cup {"reg"} \cup {"time"})
    BY <2>2, FS_AddElement
  <2>4. IsFiniteSet({"do"} \cup {"reg"} \cup {"time"} \cup {"cfg"})
    BY <2>3, FS_AddElement
  <2>5. IsFiniteSet({"do"} \cup {"reg"} \cup {"time"} \cup {"cfg"} \cup {"hist_del"})
    BY <2>4, FS_AddElement
  <2>6. IsFiniteSet({"do"} \cup {"reg"} \cup {"time"} \cup {"cfg"} \cup {"hist_del"} \cup {"save"})
    BY <2>5, FS_AddElement
  <2>7. {"do"} \cup {"reg"} \cup {"time"} \cup {"cfg"} \cup {"hist_del"} \cup {"save"}
          = {"do", "reg", "time", "cfg", "hist_del", "save"}
    BY Zenon
  <2> QED
    BY <2>6, <2>7
<1>2. visits \cap P \subseteq {"do", "reg", "time", "cfg", "hist_del", "save"}
  BY DEF Posting
<1>3. IsFiniteSet(visits \cap P)
  BY <1>1, <1>2, FS_Subset
<1> QED
  BY <1>3, AtMostOne DEF OnePost

(* There is one client that posts, and nobody saves meanwhile. *)
LEMMA Alone ==
  ASSUME WebTypeOK, OneHolder, OnePost, NEW c \in Posted
  PROVE  Posted = {c} /\ "save" \notin visits
<1>1. \A d \in Posted : conn[d].res \in visits \cap (Posting \cup {"save"})
  BY DEF Posted, OneHolder, Posting
<1>2. \A d \in Posted : conn[d].res = conn[c].res /\ conn[d].res # "none"
  BY <1>1, OneInUse DEF Posted, Posting
<1>3. Posted = {c}
  BY <1>2 DEF OneHolder, Posted
<1>4. "save" \notin visits
  <2> SUFFICES ASSUME "save" \in visits PROVE FALSE
    OBVIOUS
  <2>1. "save" = conn[c].res
    BY <1>1, OneInUse
  <2> QED
    BY <2>1 DEF Posted, Posting
<1> QED
  BY <1>3, <1>4

LEMMA BeginningLen ==
  ASSUME NEW c, NEW s \in Nat, NEW b, b = Beginning1(c, s)
  PROVE  Len(b) = s
BY DEF Beginning1

LEMMA Continued ==
  ASSUME NEW c, NEW s \in Nat, NEW n \in Nat, NEW b, b = Beginning1(c, s)
  PROVE  b \o [i \in 1..n |-> <<c, s + i>>] = Beginning1(c, s + n)
<1> DEFINE d == [i \in 1..n |-> <<c, s + i>>]
<1>1. b \in Seq({c} \X Nat) /\ Len(b) = s
  BY DEF Beginning1
<1>2. d \in Seq({c} \X Nat) /\ Len(d) = n
  <2>1. \A i \in 1..n : <<c, s + i>> \in {c} \X Nat
    OBVIOUS
  <2> QED
    BY <2>1
<1>3. /\ Len(b \o d) = s + n /\ b \o d \in Seq({c} \X Nat)
      /\ \A i \in 1..(s + n) : (b \o d)[i] = IF i <= s THEN b[i] ELSE d[i - s]
  <2> HIDE DEF d
  <2>1. /\ b \o d \in Seq({c} \X Nat)
        /\ Len(b \o d) = Len(b) + Len(d)
        /\ \A i \in 1..(Len(b) + Len(d)) : (b \o d)[i] = IF i <= Len(b) THEN b[i] ELSE d[i - Len(b)]
    BY <1>1, <1>2, ConcatProperties
  <2> QED
    BY <1>1, <1>2, <2>1
<1>4. \A i \in 1..(s + n) : (b \o d)[i] = <<c, i>>
  <2> SUFFICES ASSUME NEW i \in 1..(s + n) PROVE (b \o d)[i] = <<c, i>>
    OBVIOUS
  <2>1. CASE i <= s
    BY <1>3, <2>1 DEF Beginning1
  <2>2. CASE ~(i <= s)
    <3>1. i - s \in 1..n /\ s + (i - s) = i
      BY <2>2
    <3>2. d[i - s] = <<c, i>>
      BY <3>1
    <3> QED
      BY <1>3, <2>2, <3>2
  <2> QED
    BY <2>1, <2>2
<1>5. Beginning1(c, s + n) \in Seq({c} \X Nat) /\ Len(Beginning1(c, s + n)) = s + n
  BY DEF Beginning1
<1>6. \A i \in 1..(s + n) : Beginning1(c, s + n)[i] = <<c, i>>
  BY DEF Beginning1
<1>7. b \o d = Beginning1(c, s + n)
  <2> HIDE DEF d
  <2> QED BY <1>3, <1>4, <1>5, <1>6, SeqEqual
<1> QED
  BY <1>1, <1>7

LEMMA PostBody ==
  ASSUME WebTypeOK, OneHolder, BodyInv, NEW c \in Visitor, NEW r \in Posting, Handler(c, r)
  PROVE  BodyInv'
<1> SUFFICES ASSUME OnePost PROVE BodyInv'
  BY DEF BodyInv, OnePost, Handler
<1>1. PICK n \in 0..(conn[c].len - conn[c].sent) : Post(c, r)!(n)
  BY DEF Handler, Post
<1>2. visits' = visits /\ conn[c].res = r /\ conn[c].verdict = "none"
  BY DEF Handler, Asking
<1>3. c \in Posted /\ conn[c].res # "none"
  BY <1>2 DEF Posted, Posting
<1>4. Posted = {c} /\ "save" \notin visits
  BY <1>3, Alone
<1>5. /\ conn[c].sent <= conn[c].len /\ conn[c].sent \in Nat /\ conn[c].len \in Nat
      /\ n \in Nat /\ conn[c].sent + n <= conn[c].len /\ BodyMax \in Nat
  BY <1>3, RequestFields, WebAssumption
<1> DEFINE old == IF body_done THEN <<>> ELSE body_buf
           chunk == [i \in 1..n |-> <<c, conn[c].sent + i>>]
           final == conn[c].sent + n = conn[c].len
           more == [conn EXCEPT ![c].sent = @ + n]
<1>6. \/ conn' = more
      \/ Answer(c, "refused", <<>>)
      \/ Answer(c, "done", body_buf')
  BY <1>1
<1>7. \A d \in Visitor \ {c} : conn'[d] = conn[d]
  <2>1. body_buf' \in Seq(Visitor \X Nat)
    BY PostTyped DEF WebTypeOK, Resource
  <2>2. CASE conn' = more
    BY <2>2 DEF WebTypeOK
  <2> QED
    BY <1>6, <2>1, <2>2, <1>3, EmptyBody, AnswerTyped
<1>8. conn'[c].res = r /\ conn'[c].len = conn[c].len
  <2>1. body_buf' \in Seq(Visitor \X Nat)
    BY PostTyped DEF WebTypeOK, Resource
  <2>2. CASE conn' = more
    BY <2>2, <1>2, <1>3, RequestFields DEF WebTypeOK
  <2> QED
    BY <1>2, <1>6, <2>1, <2>2, <1>3, EmptyBody, AnswerTyped
<1>9. Posted' = {c}
  BY <1>4, <1>7, <1>8 DEF Posted
<1> SUFFICES ASSUME Fits(c) PROVE InBuffer(c)' /\ RanRight(c)'
  BY <1>2, <1>4, <1>8, <1>9 DEF BodyInv, Fits
<1>10. InBuffer(c)
  BY <1>3 DEF BodyInv
<1>11. ~body_done /\ old = body_buf
  BY <1>2, <1>10 DEF InBuffer
<1>12. CASE Rejects(old, n)
  <2>1. conn[c].len > BodyMax
    <3>1. CASE body_rejected
      BY <1>2, <1>10, <3>1 DEF InBuffer
    <3>2. CASE ~body_rejected /\ Len(body_buf) + n > BodyMax
      <4>1. Len(body_buf) = conn[c].sent
        <5>1. body_buf = Beginning1(c, conn[c].sent)
          BY <1>2, <1>10, <3>2 DEF InBuffer
        <5> QED
          BY <5>1, <1>5, BeginningLen
      <4> QED
        BY <1>5, <3>2, <4>1
    <3> QED
      BY <1>11, <1>12, <3>1, <3>2 DEF Rejects
  <2>2. body_rejected' /\ ~body_done'
    BY <1>1, <1>12
  <2>3. CASE Answer(c, "refused", <<>>)
    <3>1. conn'[c].verdict = "refused"
      BY <2>3, <1>3, EmptyBody, AnswerTyped
    <3> QED
      BY <3>1, <2>1, <1>8 DEF InBuffer, RanRight
  <2>4. CASE conn' = more
    <3>1. conn'[c].verdict = "none"
      BY <2>4, <1>2, <1>3, RequestFields DEF WebTypeOK
    <3> QED
      BY <3>1, <2>1, <2>2, <1>8 DEF InBuffer, RanRight
  <2> QED
    BY <1>1, <1>12, <2>3, <2>4
<1>13. CASE ~Rejects(old, n)
  <2>1. ~body_rejected /\ Len(body_buf) + n <= BodyMax
    <3>1. Len(body_buf) \in Nat
      BY DEF WebTypeOK
    <3> QED
      BY <1>5, <1>11, <1>13, <3>1 DEF Rejects
  <2>2. body_buf = Beginning1(c, conn[c].sent)
    BY <1>2, <1>10, <2>1 DEF InBuffer
  <2>3. old \o chunk = Beginning1(c, conn[c].sent + n) /\ Len(body_buf) = conn[c].sent
    <3>1. old = Beginning1(c, conn[c].sent) /\ old = body_buf
      BY <1>11, <2>2
    <3> HIDE DEF old
    <3>2. old \o chunk = Beginning1(c, conn[c].sent + n)
      BY <1>5, <3>1, Continued
    <3>3. Len(old) = conn[c].sent
      BY <1>5, <3>1, BeginningLen
    <3> QED BY <3>1, <3>2, <3>3
  <2>4. Len(old \o chunk) = conn[c].sent + n
    <3>1. conn[c].sent + n \in Nat
      BY <1>5
    <3>2. old \o chunk = Beginning1(c, conn[c].sent + n)
      BY <2>3
    <3> HIDE DEF old, chunk
    <3> QED BY <1>5, <3>1, <3>2, BeginningLen
  <2>5. Appended(old \o chunk) = old \o chunk
    <3> SUFFICES ASSUME "clobber" \in visits PROVE Len(old \o chunk) # BodyMax
      BY DEF Appended
    <3>1. conn[c].len < BodyMax
      BY DEF Fits
    <3> QED
      BY <1>5, <2>4, <3>1
  <2>6. body_buf' = Beginning1(c, conn[c].sent + n) /\ body_rejected' = body_rejected
        /\ body_done' = final
    <3>1. body_buf' = Appended(old \o chunk) /\ body_rejected' = body_rejected /\ body_done' = final
      BY <1>1, <1>13
    <3> QED
      BY <2>3, <2>5, <3>1
  <2>7. CASE final /\ Answer(c, "done", body_buf')
    <3>1. body_buf' \in Seq(Visitor \X Nat)
      BY PostTyped DEF WebTypeOK, Resource
    <3>2. conn'[c].verdict = "done" /\ conn'[c].ran = body_buf'
      BY <2>7, <3>1, <1>3, AnswerTyped
    <3>3. body_buf' = Own(c)'
      BY <2>6, <2>7, <1>8 DEF Own, Beginning1
    <3> QED
      BY <3>2, <3>3 DEF InBuffer, RanRight
  <2>8. CASE ~final /\ conn' = more
    <3>1. conn'[c].verdict = "none" /\ conn'[c].sent = conn[c].sent + n
      BY <2>8, <1>2, <1>3, RequestFields DEF WebTypeOK
    <3> QED
      BY <3>1, <2>1, <2>6, <2>8 DEF InBuffer, RanRight
  <2> QED
    BY <1>1, <1>13, <2>7, <2>8
<1> QED
  BY <1>12, <1>13

(* What the requests of the others and the rest of the server leave alone. *)
LEMMA BodyUntouched ==
  ASSUME BodyInv, visits' = visits, UNCHANGED bodyVars,
         NEW c \in Visitor, \A d \in Visitor \ {c} : conn'[d] = conn[d],
         conn'[c] = conn[c] \/ (conn[c].res \notin Posting /\ conn'[c].res \notin Posting)
  PROVE  BodyInv'
<1>1. Posted' = Posted
  BY DEF Posted
<1>2. \A d \in Posted : conn'[d] = conn[d]
  BY DEF Posted
<1> QED
  BY <1>1, <1>2 DEF BodyInv, OnePost, Fits, InBuffer, RanRight, Own, bodyVars

LEMMA RequestBody ==
  ASSUME WebTypeOK, OneHolder, BodyInv, NEW c \in Visitor, WebRequest(c)
  PROVE  BodyInv'
<1>1. PICK r \in visits \cap Resource, n \in 0..MaxBody :
        /\ conn[c] = NoRequest /\ ~Held(r)
        /\ conn' = [conn EXCEPT ![c] = [res |-> r, len |-> n, sent |-> 0,
                                        verdict |-> "none", ran |-> <<>>, size |-> 0]]
  BY DEF WebRequest
<1>2. /\ conn'[c].res = r /\ conn'[c].sent = 0 /\ conn'[c].len = n /\ conn'[c].verdict = "none"
      /\ \A d \in Visitor \ {c} : conn'[d] = conn[d]
  BY <1>1 DEF WebTypeOK
<1>3. visits' = visits /\ UNCHANGED bodyVars
  BY DEF WebRequest
<1>4. CASE r \notin Posting
  <2>1. conn[c].res \notin Posting
    BY <1>1, NoneAskedFor DEF Resource
  <2>2. conn'[c].res \notin Posting
    BY <1>2, <1>4
  <2> QED
    BY <1>2, <1>3, <2>1, <2>2, BodyUntouched
<1>5. CASE r \in Posting
  <2> SUFFICES ASSUME OnePost PROVE BodyInv'
    BY <1>3 DEF BodyInv, OnePost
  <2>1. r \in visits \cap (Posting \cup {"save"})
    BY <1>5
  <2>2. "save" \notin visits
    <3> SUFFICES ASSUME "save" \in visits PROVE FALSE
      OBVIOUS
    <3>1. "save" = r
      BY <2>1, OneInUse
    <3> QED
      BY <1>5, <3>1 DEF Posting
  <2>4. Posted = {}
    <3> SUFFICES ASSUME NEW d \in Posted PROVE FALSE
      OBVIOUS
    <3>1. d \in Visitor /\ conn[d].res \in visits \cap (Posting \cup {"save"})
      BY DEF Posted, OneHolder, Posting
    <3>2. conn[d].res = r
      BY <2>1, <3>1, OneInUse
    <3> QED
      BY <1>1, <3>1, <3>2 DEF Held
  <2>3. Posted' = {c}
    BY <2>4, <1>2, <1>5 DEF Posted
  <2>5. body_buf = <<>> /\ ~body_done /\ ~body_rejected
    BY <2>2, <2>4 DEF BodyInv
  <2>6. <<>> = Beginning1(c, 0)
    BY DEF Beginning1
  <2>7. InBuffer(c)'
    BY <1>2, <1>3, <2>5, <2>6 DEF InBuffer, bodyVars
  <2>8. RanRight(c)'
    BY <1>2 DEF RanRight
  <2> QED
    BY <1>3, <2>2, <2>3, <2>7, <2>8 DEF BodyInv
<1> QED
  BY <1>4, <1>5

LEMMA EndBody ==
  ASSUME WebTypeOK, OneHolder, BodyInv, NEW c \in Visitor, End(c)
  PROVE  BodyInv'
<1>1. visits' = visits /\ conn' = [conn EXCEPT ![c] = NoRequest]
  BY DEF End
<1>2. conn'[c].res \notin Posting /\ \A d \in Visitor \ {c} : conn'[d] = conn[d]
  BY <1>1, NoneAskedFor DEF WebTypeOK, Resource
<1>3. CASE conn[c].res \notin Posting
  <2>1. UNCHANGED bodyVars
    BY <1>3 DEF End
  <2> QED
    BY <1>1, <1>2, <1>3, <2>1, BodyUntouched
<1>4. CASE conn[c].res \in Posting
  <2> SUFFICES ASSUME OnePost PROVE BodyInv'
    BY <1>1 DEF BodyInv, OnePost
  <2>1. c \in Posted
    BY <1>4 DEF Posted
  <2>2. Posted = {c}
    BY <2>1, Alone
  <2>3. Posted' = {}
    BY <1>2, <2>2 DEF Posted
  <2>4. body_buf' = <<>> /\ body_done' = FALSE /\ body_rejected' = FALSE
    BY <1>4 DEF End, BodyReset
  <2> QED
    BY <2>3, <2>4 DEF BodyInv
<1> QED
  BY <1>3, <1>4

LEMMA BodyStep ==
  ASSUME WebTypeOK, OneHolder, BodyInv, [WebNext]_webVars
  PROVE  BodyInv'
<1>1. ASSUME NEW c \in Visitor, NEW v \in {"done", "refused", "failed"}, Answer(c, v, <<>>),
             conn[c].res \in Resource \ Posting, visits' = visits, UNCHANGED bodyVars
      PROVE  BodyInv'
  <2>1. conn[c].res # "none"
    BY <1>1 DEF Resource, Posting
  <2>2. conn'[c].res = conn[c].res /\ \A d \in Visitor \ {c} : conn'[d] = conn[d]
    BY <1>1, <2>1, AnswerTyped, EmptyBody
  <2> QED
    BY <1>1, <2>2, BodyUntouched
<1>2. ASSUME NEW c \in Visitor, DlStart(c) \/ DlNext(c)
      PROVE  BodyInv'
  <2>1. conn[c].res = "download" /\ visits' = visits /\ UNCHANGED bodyVars
    BY <1>2 DEF DlStart, DlNext, Asking
  <2>2. CASE Answer(c, "done", <<>>) \/ Answer(c, "failed", <<>>)
    BY <1>1, <2>1, <2>2 DEF Resource, Posting
  <2>3. CASE conn' = [conn EXCEPT ![c].size = bytes] \/ UNCHANGED conn
    <3>1. conn'[c].res = conn[c].res /\ \A d \in Visitor \ {c} : conn'[d] = conn[d]
      BY <2>1, <2>3, RequestFields DEF WebTypeOK
    <3>2. conn[c].res \notin Posting
      BY <2>1 DEF Posting
    <3> QED
      BY <2>1, <3>1, <3>2, BodyUntouched
  <2> QED
    BY <1>2, <2>2, <2>3 DEF DlStart, DlNext
<1>3. ASSUME NEW c \in Visitor, WebSave(c)
      PROVE  BodyInv'
  <2> SUFFICES ASSUME OnePost PROVE BodyInv'
    BY <1>3 DEF BodyInv, OnePost, WebSave
  <2>1. conn[c].res = "save" /\ visits' = visits
    BY <1>3 DEF WebSave, Asking
  <2>2. "save" \in visits
    BY <2>1 DEF OneHolder
  <2>3. Posted = {}
    BY <2>2, Alone
  <2>4. conn'[c].res = "save" /\ \A d \in Visitor \ {c} : conn'[d] = conn[d]
    BY <1>3, <2>1, AnswerTyped, EmptyBody DEF WebSave
  <2>5. Posted' = {}
    BY <2>3, <2>4 DEF Posted, Posting
  <2> QED
    BY <2>1, <2>2, <2>5 DEF BodyInv
<1>4. CASE UNCHANGED <<visits, conn, bodyVars>>
  BY <1>4 DEF BodyInv, OnePost, Posted, Fits, InBuffer, RanRight, Own, bodyVars
<1>5. ASSUME Grow \/ UNCHANGED webVars
      PROVE  BodyInv'
  BY <1>4, <1>5 DEF Grow, webVars
<1>6. ASSUME NEW c \in Visitor, WsSetup(c)
      PROVE  BodyInv'
  BY <1>4, <1>6 DEF WsSetup
<1>7. ASSUME NEW i \in WsSlot, WsThread(i)
      PROVE  BodyInv'
  BY <1>4, <1>7 DEF WsThread, WsFails, WsUnregister, WsClear, WsFree, WsExit, WsGo
<1>8. ASSUME NEW c \in Visitor, ApiDo(c) \/ Reg(c) \/ ApiTime(c) \/ Cfg(c) \/ HistDel(c)
      PROVE  BodyInv'
  BY <1>8, PostBody DEF ApiDo, Reg, ApiTime, Cfg, HistDel, Posting
<1> QED
  BY <1>2, <1>3, <1>5, <1>6, <1>7, <1>8, RequestBody, EndBody DEF WebNext

-----------------------------------------------------------------------------
(* The download and the slots *)

LEMMA DownloadStart ==
  ASSUME WebTypeOK, OneHolder, DownloadInv, NEW c \in Visitor, DlStart(c)
  PROVE  DownloadInv'
<1>1. conn[c].res = "download" /\ conn[c].verdict = "none" /\ ~dl.started /\ ~dl.open
  BY DEF DlStart, Asking, DownloadInv
<1>2. \A d \in Visitor \ {c} : conn[d].res # "download"
  BY <1>1 DEF OneHolder
<1>3. CASE /\ dl' = [open |-> TRUE, started |-> TRUE, remain |-> bytes, pos |-> 0]
           /\ conn' = [conn EXCEPT ![c].size = bytes]
  <2>1. /\ conn'[c].res = "download" /\ conn'[c].verdict = "none" /\ conn'[c].size = bytes
        /\ \A d \in Visitor \ {c} : conn'[d] = conn[d]
    BY <1>1, <1>3, RequestFields DEF WebTypeOK
  <2>2. dl'.pos = 0 /\ dl'.remain = bytes /\ dl'.open /\ dl'.started /\ bytes' = bytes /\ bytes \in Nat
    BY <1>3, WebAssumption DEF DlStart, WebTypeOK
  <2> QED
    BY <1>2, <2>1, <2>2 DEF DownloadInv, Asking
<1>4. CASE dl' = [dl EXCEPT !.started = TRUE] /\ Answer(c, "failed", <<>>)
  <2>1. /\ conn'[c].res = "download" /\ conn'[c].verdict = "failed"
        /\ \A d \in Visitor \ {c} : conn'[d] = conn[d]
    BY <1>1, <1>4, AnswerTyped, EmptyBody
  <2>2. dl'.pos = dl.pos /\ ~dl'.open /\ bytes' = bytes
    BY <1>1, <1>4 DEF DlStart, WebTypeOK, Download
  <2> QED
    BY <1>2, <2>1, <2>2 DEF DownloadInv, Asking
<1> QED
  BY <1>3, <1>4 DEF DlStart

LEMMA DownloadGoesOn ==
  ASSUME WebTypeOK, OneHolder, DownloadInv, NEW c \in Visitor, DlNext(c)
  PROVE  DownloadInv'
<1>1. conn[c].res = "download" /\ conn[c].verdict = "none" /\ dl.open /\ bytes' = bytes
  BY DEF DlNext, Asking
<1>2. \A d \in Visitor \ {c} : conn[d].res # "download"
  BY <1>1 DEF OneHolder
<1>3. dl.started /\ dl.pos <= bytes /\ dl.pos + dl.remain = conn[c].size /\ conn[c].size <= bytes
  BY <1>1 DEF DownloadInv, Asking
<1> DEFINE left == bytes - dl.pos
           len == IF left < DlChunk THEN left ELSE DlChunk
           last == LastChunk(len, dl.remain - len)
<1>4. CASE /\ dl' = [dl EXCEPT !.remain = @ - len, !.pos = @ + len, !.open = ~last]
           /\ IF last THEN Answer(c, "done", <<>>) ELSE UNCHANGED conn
  <2>1. dl.pos \in Nat /\ bytes \in Nat /\ dl.remain \in Int /\ conn[c].size \in Nat /\ len \in Nat
    BY <1>1, <1>3, WebAssumption, RequestFields, SMTT(30) DEF WebTypeOK, Download
  <2>2. dl.pos + len <= bytes /\ (len = 0 => dl.pos = bytes)
    BY <1>3, <2>1, WebAssumption
  <2>3. dl'.pos = dl.pos + len /\ dl'.remain = dl.remain - len /\ dl'.open = ~last /\ dl'.started = dl.started
    <3> HIDE DEF len, last
    <3> QED BY <1>4 DEF WebTypeOK, Download
  <2>4. CASE last
    <3>1. dl.pos + len >= conn[c].size
      <4> HIDE DEF len
      <4> QED BY <1>3, <2>1, <2>2, <2>4 DEF LastChunk
    <3>2. /\ conn'[c].res = "download" /\ conn'[c].verdict = "done" /\ conn'[c].size = conn[c].size
          /\ \A d \in Visitor \ {c} : conn'[d] = conn[d]
      BY <1>1, <1>4, <2>4, AnswerTyped, EmptyBody
    <3>3. ~dl'.open
      BY <2>3, <2>4
    <3> HIDE DEF len, last
    <3> QED
      BY <1>1, <1>2, <2>2, <2>3, <3>1, <3>2, <3>3 DEF DownloadInv, Asking
  <2>5. CASE ~last
    <3>1. conn' = conn
      BY <1>4, <2>5
    <3>2. dl'.open /\ dl'.started
      BY <1>3, <2>3, <2>5
    <3>3. dl'.pos + dl'.remain = conn[c].size
      <4> HIDE DEF len, last
      <4> QED BY <1>3, <2>1, <2>3
    <3>4. dl'.pos <= bytes
      <4> HIDE DEF len, last
      <4> QED BY <2>2, <2>3
    <3> QED
      BY <1>1, <1>2, <1>3, <3>1, <3>2, <3>3, <3>4 DEF DownloadInv, Asking
  <2> QED
    BY <2>4, <2>5
<1>5. CASE dl' = [dl EXCEPT !.open = FALSE] /\ Answer(c, "failed", <<>>)
  <2>1. /\ conn'[c].res = "download" /\ conn'[c].verdict = "failed"
        /\ \A d \in Visitor \ {c} : conn'[d] = conn[d]
    BY <1>1, <1>5, AnswerTyped, EmptyBody
  <2>2. dl'.pos = dl.pos /\ ~dl'.open
    BY <1>5 DEF WebTypeOK, Download
  <2> QED
    BY <1>1, <1>2, <1>3, <2>1, <2>2 DEF DownloadInv, Asking
<1> QED
  BY <1>4, <1>5 DEF DlNext

(* What is no business of the download. *)
LEMMA DownloadUntouched ==
  ASSUME DownloadInv, NEW c \in Visitor, \A d \in Visitor \ {c} : conn'[d] = conn[d],
         conn[c].res # "download", conn'[c].res # "download", UNCHANGED <<dl, bytes>>
  PROVE  DownloadInv'
BY DEF DownloadInv, Asking

LEMMA HandlerKeepsOthers ==
  ASSUME WebTypeOK, NEW c \in Visitor, NEW r \in Posting, Handler(c, r)
  PROVE  /\ conn[c].res = r /\ conn'[c].res = r /\ \A d \in Visitor \ {c} : conn'[d] = conn[d]
         /\ UNCHANGED <<dl, bytes>>
<1>1. conn[c].res = r /\ conn[c].res # "none" /\ UNCHANGED <<dl, bytes>>
  BY DEF Handler, Asking, Posting
<1>2. PICK n \in 0..(conn[c].len - conn[c].sent) : Post(c, r)!(n)
  BY DEF Handler, Post
<1>3. CASE conn' = [conn EXCEPT ![c].sent = @ + n]
  BY <1>1, <1>3, RequestFields DEF WebTypeOK
<1>4. CASE Answer(c, "refused", <<>>)
  BY <1>1, <1>4, EmptyBody, AnswerTyped
<1>5. CASE Answer(c, "done", body_buf')
  <2>1. body_buf' \in Seq(Visitor \X Nat)
    BY PostTyped DEF WebTypeOK, Resource
  <2> QED
    BY <1>1, <1>5, <2>1, AnswerTyped
<1> QED
  BY <1>2, <1>3, <1>4, <1>5

LEMMA DownloadStep ==
  ASSUME WebTypeOK, OneHolder, DownloadInv, [WebNext]_webVars
  PROVE  DownloadInv'
<1>1. ASSUME NEW c \in Visitor, WebRequest(c)
      PROVE  DownloadInv'
  <2>1. PICK r \in visits \cap Resource, n \in 0..MaxBody :
          /\ conn[c] = NoRequest /\ ~Held(r)
          /\ conn' = [conn EXCEPT ![c] = [res |-> r, len |-> n, sent |-> 0,
                                          verdict |-> "none", ran |-> <<>>, size |-> 0]]
    BY <1>1 DEF WebRequest
  <2>2. /\ conn'[c].res = r /\ conn'[c].verdict = "none" /\ \A d \in Visitor \ {c} : conn'[d] = conn[d]
        /\ UNCHANGED <<dl, bytes>> /\ conn[c].res # "download"
    BY <1>1, <2>1, NoneAskedFor DEF WebRequest, WebTypeOK
  <2>3. CASE r # "download"
    BY <2>2, <2>3, DownloadUntouched
  <2>4. CASE r = "download"
    <3>1. \A d \in Visitor : conn[d].res # "download"
      BY <2>1, <2>4 DEF Held
    <3>2. ~dl.open
      BY <3>1 DEF DownloadInv, Asking
    <3> QED
      BY <2>2, <3>1, <3>2 DEF DownloadInv, Asking
  <2> QED
    BY <2>3, <2>4
<1>2. ASSUME NEW c \in Visitor, End(c)
      PROVE  DownloadInv'
  <2>1. /\ conn'[c].res = "none" /\ conn[c].res # "none" /\ bytes' = bytes
        /\ \A d \in Visitor \ {c} : conn'[d] = conn[d]
    BY <1>2, NoneAskedFor DEF End, WebTypeOK, HttpRequest, Resource, Posting
  <2>2. CASE conn[c].res # "download"
    BY <1>2, <2>1, <2>2, DownloadUntouched DEF End
  <2>3. CASE conn[c].res = "download"
    <3>1. \A d \in Visitor \ {c} : conn[d].res # "download"
      BY <2>3 DEF OneHolder
    <3>2. ~dl'.open /\ dl'.pos = dl.pos
      BY <1>2, <2>3 DEF End, DlReset, WebTypeOK, Download
    <3>3. \A d \in Visitor : conn'[d].res # "download"
      BY <2>1, <3>1
    <3>4. dl'.pos <= bytes'
      BY <2>1, <3>2 DEF DownloadInv
    <3> QED
      BY <3>2, <3>3, <3>4 DEF DownloadInv, Asking
  <2> QED
    BY <2>2, <2>3
<1>3. ASSUME NEW c \in Visitor, WebSave(c)
      PROVE  DownloadInv'
  <2>1. conn[c].res = "save"
    BY <1>3 DEF WebSave, Asking
  <2>2. /\ conn'[c].res = "save" /\ \A d \in Visitor \ {c} : conn'[d] = conn[d]
        /\ UNCHANGED <<dl, bytes>>
    BY <1>3, <2>1, AnswerTyped, EmptyBody DEF WebSave
  <2> QED
    BY <2>1, <2>2, DownloadUntouched
<1>4. CASE UNCHANGED <<conn, dl, bytes>>
  BY <1>4 DEF DownloadInv, Asking
<1>5. CASE Grow
  <2>1. bytes' >= bytes /\ bytes' \in Nat /\ bytes \in Nat /\ dl.pos \in Nat
    BY <1>5, WebAssumption DEF Grow, WebTypeOK, Download
  <2>2. \A c \in Visitor : Asking(c, "download") => conn[c].size \in Nat
    BY RequestFields DEF Asking
  <2> QED
    BY <1>5, <2>1, <2>2 DEF Grow, DownloadInv, Asking
<1>6. ASSUME NEW c \in Visitor, WsSetup(c)
      PROVE  DownloadInv'
  BY <1>4, <1>6 DEF WsSetup
<1>7. ASSUME NEW i \in WsSlot, WsThread(i)
      PROVE  DownloadInv'
  BY <1>4, <1>7 DEF WsThread, WsFails, WsUnregister, WsClear, WsFree, WsExit, WsGo
<1>8. ASSUME NEW c \in Visitor, NEW r \in Posting, Handler(c, r)
      PROVE  DownloadInv'
  <2>1. conn[c].res # "download" /\ conn'[c].res # "download"
    BY <1>8, HandlerKeepsOthers DEF Posting
  <2> QED
    BY <1>8, <2>1, HandlerKeepsOthers, DownloadUntouched
<1>9. ASSUME NEW c \in Visitor, ApiDo(c) \/ Reg(c) \/ ApiTime(c) \/ Cfg(c) \/ HistDel(c)
      PROVE  DownloadInv'
  BY <1>8, <1>9 DEF ApiDo, Reg, ApiTime, Cfg, HistDel, Posting
<1>10. CASE UNCHANGED webVars
  BY <1>4, <1>10 DEF webVars
<1> QED
  BY <1>1, <1>2, <1>3, <1>5, <1>6, <1>7, <1>9, <1>10, DownloadStart, DownloadGoesOn DEF WebNext

(* A slot that is being given up has lost its socket first. *)
SlotInv == \A i \in WsSlot :
  ~slot[i].in_use \/ slot[i].at = "free" => slot[i].sock = NoClient

LEMMA SlotStep ==
  ASSUME WebTypeOK, SlotInv, [WebNext]_webVars
  PROVE  SlotInv'
<1>1. ASSUME NEW c \in Visitor, WsSetup(c)
      PROVE  SlotInv'
  <2>1. PICK i \in WsSlot : slot' = [slot EXCEPT ![i] = [sock |-> c, in_use |-> TRUE, at |-> "run"]]
    BY <1>1 DEF WsSetup
  <2> QED
    BY <2>1 DEF SlotInv, WebTypeOK
<1>2. ASSUME NEW i \in WsSlot, WsThread(i)
      PROVE  SlotInv'
  BY <1>2, ZenonT(40) DEF WsThread, WsFails, WsUnregister, WsClear, WsFree, WsExit, WsGo, SlotInv, WebTypeOK, Slot
<1>3. CASE UNCHANGED slot
  BY <1>3 DEF SlotInv
<1>4. ASSUME NEW c \in Visitor, NEW r, Handler(c, r)
      PROVE  UNCHANGED slot
  BY <1>4 DEF Handler
<1> QED
  BY <1>1, <1>2, <1>3, <1>4
    DEF WebNext, webVars, WebRequest, End, ApiDo, Reg, ApiTime, Cfg, HistDel, WebSave, DlStart, DlNext, Grow

WebInv == WebTypeOK /\ OneHolder /\ BodyInv /\ DownloadInv /\ SlotInv

LEMMA WebInitInv == WebInit => WebInv
<1> SUFFICES ASSUME WebInit PROVE WebInv
  OBVIOUS
<1>1. WebTypeOK
  BY WebInitTyped
<1>2. \A c \in Visitor : conn[c].res = "none"
  BY NoneAskedFor DEF WebInit
<1>3. OneHolder /\ Posted = {}
  BY <1>2 DEF OneHolder, Posted, Posting
<1>4. BodyInv
  BY <1>3 DEF BodyInv, WebInit
<1>5. DownloadInv
  BY <1>2, WebAssumption DEF DownloadInv, WebInit, NoDownload, Asking
<1>6. SlotInv
  BY DEF SlotInv, WebInit, FreeSlot
<1> QED
  BY <1>1, <1>3, <1>4, <1>5, <1>6 DEF WebInv

LEMMA WebInvStep == WebInv /\ [WebNext]_webVars => WebInv'
BY WebStepTyped, OneHolderStep, BodyStep, DownloadStep, SlotStep DEF WebInv

(* Types, one request per resource, and where the body of a POST, the file *)
(* of a download and the WebSocket slots are at each step (httpd.c).       *)
THEOREM WebInvCorrect == WebSpec => []WebInv
BY WebInitInv, WebInvStep, PTL DEF WebSpec

(* While one POST resource is in use, what its handler acts on is the body *)
(* its own client sent, whole, however the network cut it and whatever     *)
(* became of the requests before (httpd.c).                                *)
THEOREM OwnBodyCorrect == WebSpec => []OwnBody
<1>1. WebInv => OwnBody
  BY DEF WebInv, BodyInv, OwnBody, OnePost, Fits
<1> QED
  BY <1>1, WebInvCorrect, PTL

(* A download that is answered has sent what the file held when it began,  *)
(* one that ends otherwise leaves no handle open, and a WebSocket slot     *)
(* that is free holds no connection (httpd.c, ws_io.c:527).                *)
THEOREM WholeDownload == WebSpec => [](DownloadWhole /\ WsSlotsClean)
<1>1. WebInv => DownloadWhole /\ WsSlotsClean
  BY DEF WebInv, DownloadInv, DownloadWhole, SlotInv, WsSlotsClean
<1> QED
  BY <1>1, WebInvCorrect, PTL

-----------------------------------------------------------------------------
(* FtpServer *)

-----------------------------------------------------------------------------
LEMMA FtpStepTyped ==
  ASSUME NEW path \in Seq(FtpName), Len(path) <= MaxParts, NEW name \in FtpName \cup {".."}
  PROVE  Step(path, name) \in Seq(FtpName) /\ Len(Step(path, name)) <= MaxParts
<1>1. MaxParts \in Nat
  BY FtpAssumption
<1>2. CASE name = ".." /\ path = <<>>
  <2>1. Len(path) = 0 /\ SubSeq(path, 1, Len(path) - 1) = <<>>
    BY <1>2
  <2> QED
    BY <1>1, <1>2, <2>1 DEF Step
<1>3. CASE name = ".." /\ path # <<>>
  <2>1. Len(path) \in Nat \ {0}
    BY <1>3
  <2>2. SubSeq(path, 1, Len(path) - 1) \in Seq(FtpName) /\ Len(SubSeq(path, 1, Len(path) - 1)) = Len(path) - 1
    <3>1. Len(path) - 1 \in Int /\ \A i \in 1..(Len(path) - 1) : path[i] \in FtpName
      BY <2>1
    <3> DEFINE n == Len(path) - 1
    <3>2. /\ SubSeq(path, 1, n) \in Seq(FtpName)
          /\ Len(SubSeq(path, 1, n)) = IF 1 <= n THEN n - 1 + 1 ELSE 0
      <4> HIDE DEF n
      <4> QED BY <3>1, SubSeqProperties DEF n
    <3>3. n \in Nat
      BY <2>1
    <3>4. SubSeq(path, 1, n) \in Seq(FtpName) /\ Len(SubSeq(path, 1, n)) = n
      <4> DEFINE q == SubSeq(path, 1, n)
      <4>1. q \in Seq(FtpName) /\ Len(q) = IF 1 <= n THEN n - 1 + 1 ELSE 0
        BY <3>2
      <4> HIDE DEF q, n
      <4>2. Len(q) = n
        BY <3>3, <4>1
      <4> QED BY <4>1, <4>2 DEF q
    <3> QED
      BY <3>4
  <2> QED
    BY <1>1, <1>3, <2>1, <2>2 DEF Step
<1>4. CASE name # ".."
  BY <1>1, <1>4 DEF Step
<1> QED
  BY <1>2, <1>3, <1>4

LEMMA norm_pathTyped ==
  ASSUME NEW cwd \in Seq(FtpName), Len(cwd) <= MaxParts, NEW p \in Input
  PROVE  norm_path(cwd, p) \in Seq(FtpName) /\ Len(norm_path(cwd, p)) <= MaxParts
<1>1. PICK name \in FtpName \cup {".."} : p = <<name>>
  BY DEF Input
<1>2. Len(p) = 1 /\ p[1] = name
  BY <1>1
<1> DEFINE rec(w) == [n \in 0..Len(p) |-> IF n = 0 THEN cwd ELSE Step(w[n - 1], p[n])]
           sol == [n \in 0..Len(p) |-> IF n = 0 THEN cwd ELSE Step(cwd, p[n])]
           walk == CHOOSE w : w = rec(w)
<1>3. sol = rec(sol)
  BY <1>2
<1>4. walk = rec(walk)
  <2> HIDE DEF sol, rec
  <2> QED BY <1>3
<1>5. walk[0] = cwd /\ walk[1] = Step(walk[0], name)
  <2> HIDE DEF walk
  <2> QED BY <1>2, <1>4
<1>6. norm_path(cwd, p) = walk[Len(p)]
  BY DEF norm_path
<1> HIDE DEF walk
<1> QED
  BY <1>2, <1>5, <1>6, FtpStepTyped

-----------------------------------------------------------------------------
(* A transfer keeps the session it belongs to. *)
XferInv == xfer # Gone => {"of", "at", "kind"} \subseteq DOMAIN xfer

FtpTyped == FtpTypeOK /\ XferInv

LEMMA NewSessionTyped == NewSession \in FtpSession /\ Len(NewSession.cwd) <= MaxParts
<1>1. \A s : s = <<>> => s \in Seq(FtpName) /\ Len(s) = 0
  OBVIOUS
<1> QED
  BY <1>1, FtpAssumption DEF NewSession, FtpSession

(* A step that replaces a session by another one. *)
LEMMA SetTyped ==
  ASSUME FtpTyped, NEW i \in Session, NEW s \in FtpSession, Len(s.cwd) <= MaxParts, Set(i, s)
  PROVE  /\ sessions' \in [Session -> FtpSession \cup {Gone}]
         /\ \A j \in Session : sessions'[j] # Gone => Len(sessions'[j].cwd) <= MaxParts
         /\ sessions'[i] = s /\ sessions'[i] # Gone
         /\ \A j \in Session \ {i} : sessions'[j] = sessions[j]
BY FtpAssumption DEF FtpTyped, FtpTypeOK, Set

LEMMA OpenTyped ==
  ASSUME FtpTyped, NEW i \in Session, sessions[i] # Gone
  PROVE  sessions[i] \in FtpSession /\ Len(sessions[i].cwd) <= MaxParts
BY DEF FtpTyped, FtpTypeOK

(* The commands without a transfer: what they make of their session. *)
LEMMA QuietSession ==
  ASSUME FtpTyped, NEW i \in Session,
         \/ User(i) \/ Pass(i) \/ Type(i) \/ Rest(i) \/ Cwd(i) \/ Size(i) \/ Noop(i) \/ Rnfr(i)
  PROVE  \E s \in FtpSession :
           /\ Len(s.cwd) <= MaxParts /\ Set(i, s)
           /\ s.data_listen = sessions[i].data_listen /\ sessions[i] # Gone
           /\ UNCHANGED <<habit, listening, files, xfer>> /\ aged' \subseteq aged
<1>1. sessions[i] # Gone /\ UNCHANGED <<habit, listening, files, xfer>> /\ aged' \subseteq aged
  BY DEF User, Pass, Type, Rest, Cwd, Size, Noop, Rnfr, Quiet, FtpDo, FtpIdle
<1>2. sessions[i] \in FtpSession /\ Len(sessions[i].cwd) <= MaxParts
  BY <1>1, OpenTyped
<1> SUFFICES \E s \in FtpSession :
               Len(s.cwd) <= MaxParts /\ Set(i, s) /\ s.data_listen = sessions[i].data_listen
  BY <1>1
<1>3. CASE User(i)
  <2>1. PICK a \in BOOLEAN : Set(i, [sessions[i] EXCEPT !.anon = a, !.rename_from = Gone])
    BY <1>3 DEF User, Quiet
  <2> DEFINE s == [sessions[i] EXCEPT !.anon = a, !.rename_from = Gone]
  <2>2. s \in FtpSession
    BY <1>2 DEF FtpSession
  <2>3. s.cwd = sessions[i].cwd /\ s.data_listen = sessions[i].data_listen
    BY <1>2 DEF FtpSession
  <2> HIDE DEF s
  <2> QED
    BY <1>2, <2>1, <2>2, <2>3 DEF s
<1>4. CASE Pass(i)
  <2>1. PICK right \in BOOLEAN : Set(i, [sessions[i] EXCEPT !.authed = sessions[i].anon \/ right])
    BY <1>4 DEF Pass, Quiet
  <2>2. PICK b \in BOOLEAN : b = (sessions[i].anon \/ right)
    OBVIOUS
  <2>3. Set(i, [sessions[i] EXCEPT !.authed = b])
    BY <2>1, <2>2 DEF Set
  <2> QED
    BY <1>2, <2>3 DEF FtpSession
<1>5. CASE Type(i)
  <2>1. PICK a \in BOOLEAN : Set(i, [sessions[i] EXCEPT !.type_ascii = a])
    BY <1>5 DEF Type, Quiet
  <2> QED
    BY <1>2, <2>1 DEF FtpSession
<1>6. CASE Rest(i)
  <2>1. PICK n \in 1..Block : Set(i, [sessions[i] EXCEPT !.rest = n])
    BY <1>6 DEF Rest, Quiet
  <2> QED
    BY <1>2, <2>1, FtpAssumption, SMTT(30) DEF FtpSession
<1>7. CASE Cwd(i)
  <2>1. PICK p \in Input : Set(i, [sessions[i] EXCEPT !.cwd = norm_path(sessions[i].cwd, p)])
    BY <1>7 DEF Cwd, Quiet
  <2>2. norm_path(sessions[i].cwd, p) \in Seq(FtpName) /\ Len(norm_path(sessions[i].cwd, p)) <= MaxParts
    BY <1>2, norm_pathTyped DEF FtpSession
  <2> QED
    BY <1>2, <2>1, <2>2, SMTT(30) DEF FtpSession
<1>8. CASE Size(i) \/ Noop(i)
  <2>1. Set(i, sessions[i])
    BY <1>8 DEF Size, Noop, Quiet
  <2> QED
    BY <1>2, <2>1
<1>9. CASE Rnfr(i)
  <2>1. PICK p \in Input : LET path == norm_path(sessions[i].cwd, p) IN
          Set(i, IF MayWrite(i) /\ path \in DOMAIN files
                 THEN [sessions[i] EXCEPT !.rename_from = path] ELSE sessions[i])
    BY <1>9 DEF Rnfr, Quiet
  <2> DEFINE path == norm_path(sessions[i].cwd, p)
  <2>2. path \in Seq(FtpName)
    BY <1>2, norm_pathTyped DEF FtpSession
  <2>3. Set(i, [sessions[i] EXCEPT !.rename_from = path]) \/ Set(i, sessions[i])
    BY <2>1
  <2> HIDE DEF path
  <2>4. CASE Set(i, [sessions[i] EXCEPT !.rename_from = path])
    <3> DEFINE s == [sessions[i] EXCEPT !.rename_from = path]
    <3>1. s \in FtpSession
      BY <1>2, <2>2 DEF FtpSession
    <3>2. s.cwd = sessions[i].cwd /\ s.data_listen = sessions[i].data_listen
      BY <1>2 DEF FtpSession
    <3> HIDE DEF s
    <3> QED
      BY <1>2, <2>4, <3>1, <3>2 DEF s
  <2>5. CASE Set(i, sessions[i])
    BY <1>2, <2>5
  <2> QED
    BY <2>3, <2>4, <2>5
<1> QED
  BY <1>3, <1>4, <1>5, <1>6, <1>7, <1>8, <1>9

-----------------------------------------------------------------------------
(* Who listens.  The sockets of the sessions are different ones, so that    *)
(* the one a session gives up is nobody else's.                             *)
Listens(s, i) == s[i] # Gone /\ s[i].data_listen # NoSocket

ListenInv == "QUIT" \notin habit =>
  /\ \A i \in Session : Listens(sessions, i) => sessions[i].data_listen \in listening
  /\ \A d \in listening : \E i \in Session : Listens(sessions, i) /\ sessions[i].data_listen = d
  /\ \A i, j \in Session :
       /\ Listens(sessions, i) /\ Listens(sessions, j)
       /\ sessions[i].data_listen = sessions[j].data_listen
       => i = j

(* A session that keeps its socket. *)
LEMMA KeepsSocket ==
  ASSUME FtpTyped, ListenInv, NEW i \in Session, NEW s \in FtpSession, Set(i, s),
         sessions[i] # Gone, s.data_listen = sessions[i].data_listen, UNCHANGED <<habit, listening>>
  PROVE  ListenInv'
<1>1. sessions'[i] = s /\ s # Gone /\ \A j \in Session \ {i} : sessions'[j] = sessions[j]
  BY FtpAssumption DEF FtpTyped, FtpTypeOK, Set
<1>2. \A j \in Session : /\ Listens(sessions', j) <=> Listens(sessions, j)
                         /\ Listens(sessions, j) => sessions'[j].data_listen = sessions[j].data_listen
  BY <1>1 DEF Listens
<1> QED
  BY <1>2 DEF ListenInv

(* A session that gives its socket up, or the session itself is given up. *)
LEMMA DropsSocket ==
  ASSUME FtpTyped, ListenInv, NEW i \in Session, NEW s \in FtpSession \cup {Gone}, Set(i, s),
         s = Gone \/ s.data_listen = NoSocket,
         sessions[i] # Gone, listening' = listening \ {sessions[i].data_listen}, habit' = habit
  PROVE  ListenInv'
<1>1. ~Listens(sessions', i) /\ \A j \in Session \ {i} : sessions'[j] = sessions[j]
  BY DEF FtpTyped, FtpTypeOK, Set, Listens
<1>2. \A j \in Session \ {i} : /\ Listens(sessions', j) <=> Listens(sessions, j)
                               /\ sessions'[j] = sessions[j]
  BY <1>1 DEF Listens
<1> SUFFICES ASSUME "QUIT" \notin habit PROVE ListenInv'
  BY DEF ListenInv
<1>3. NoSocket \notin listening
  BY FtpAssumption DEF FtpTyped, FtpTypeOK
<1>4. ASSUME NEW j \in Session, Listens(sessions', j)
      PROVE  sessions'[j].data_listen \in listening'
  <2>1. j # i /\ Listens(sessions, j) /\ sessions'[j] = sessions[j]
    BY <1>1, <1>2, <1>4
  <2>2. sessions[j].data_listen \in listening
    BY <2>1 DEF ListenInv
  <2>3. sessions[j].data_listen # sessions[i].data_listen
    BY <2>1 DEF ListenInv, Listens
  <2> QED
    BY <2>1, <2>2, <2>3
<1>5. ASSUME NEW d \in listening'
      PROVE  \E j \in Session : Listens(sessions', j) /\ sessions'[j].data_listen = d
  <2>1. PICK j \in Session : Listens(sessions, j) /\ sessions[j].data_listen = d
    BY <1>5 DEF ListenInv
  <2>2. j # i
    BY <1>5, <2>1
  <2> QED
    BY <1>2, <2>1, <2>2
<1>6. \A j, k \in Session :
        /\ Listens(sessions', j) /\ Listens(sessions', k)
        /\ sessions'[j].data_listen = sessions'[k].data_listen
        => j = k
  BY <1>1, <1>2 DEF ListenInv
<1> QED
  BY <1>4, <1>5, <1>6 DEF ListenInv

(* PASV: the earlier socket goes, another one may come. *)
LEMMA GetsSocket ==
  ASSUME FtpTyped, ListenInv, NEW i \in Session, NEW s \in FtpSession, Set(i, s),
         NEW d \in Socket, d \notin listening \ {sessions[i].data_listen}, s.data_listen = d,
         sessions[i] # Gone, listening' = (listening \ {sessions[i].data_listen}) \cup {d}, habit' = habit
  PROVE  ListenInv'
<1>1. s # Gone /\ d # NoSocket
  BY FtpAssumption
<1>2. /\ sessions'[i] = s /\ Listens(sessions', i)
      /\ \A j \in Session \ {i} : sessions'[j] = sessions[j]
  BY <1>1 DEF FtpTyped, FtpTypeOK, Set, Listens
<1>3. \A j \in Session \ {i} : Listens(sessions', j) <=> Listens(sessions, j)
  BY <1>2 DEF Listens
<1> SUFFICES ASSUME "QUIT" \notin habit PROVE ListenInv'
  BY DEF ListenInv
<1>4. ASSUME NEW j \in Session, j # i, Listens(sessions, j)
      PROVE  sessions[j].data_listen \in listening \ {sessions[i].data_listen}
  <2>1. sessions[j].data_listen \in listening
    BY <1>4 DEF ListenInv
  <2>2. sessions[j].data_listen # sessions[i].data_listen
    BY <1>4 DEF ListenInv, Listens
  <2> QED
    BY <2>1, <2>2
<1>5. ASSUME NEW j \in Session, Listens(sessions', j)
      PROVE  sessions'[j].data_listen \in listening'
  BY <1>2, <1>3, <1>4, <1>5
<1>6. ASSUME NEW e \in listening'
      PROVE  \E j \in Session : Listens(sessions', j) /\ sessions'[j].data_listen = e
  <2>1. CASE e = d
    BY <1>2, <2>1
  <2>2. CASE e # d
    <3>1. e \in listening /\ e # sessions[i].data_listen
      BY <1>6, <2>2
    <3>2. PICK j \in Session : Listens(sessions, j) /\ sessions[j].data_listen = e
      BY <3>1 DEF ListenInv
    <3> QED
      BY <1>2, <1>3, <3>1, <3>2
  <2> QED
    BY <2>1, <2>2
<1>7. ASSUME NEW j \in Session, NEW k \in Session, Listens(sessions', j), Listens(sessions', k),
             sessions'[j].data_listen = sessions'[k].data_listen
      PROVE  j = k
  <2>1. CASE j # i /\ k # i
    BY <1>2, <1>3, <1>7, <2>1 DEF ListenInv
  <2>2. CASE j = i /\ k # i
    <3>1. sessions[k].data_listen \in listening \ {sessions[i].data_listen}
      BY <1>3, <1>4, <1>7, <2>2
    <3> QED
      BY <1>2, <1>7, <2>2, <3>1
  <2>3. CASE j # i /\ k = i
    <3>1. sessions[j].data_listen \in listening \ {sessions[i].data_listen}
      BY <1>3, <1>4, <1>7, <2>3
    <3> QED
      BY <1>2, <1>7, <2>3, <3>1
  <2> QED
    BY <2>1, <2>2, <2>3
<1> QED
  BY <1>5, <1>6, <1>7 DEF ListenInv

-----------------------------------------------------------------------------
(* What a step does to the sessions and their sockets. *)
Keeps(i, s) ==
  /\ sessions[i] # Gone /\ Set(i, s) /\ Len(s.cwd) <= MaxParts
  /\ s.data_listen = sessions[i].data_listen /\ UNCHANGED listening

Drops(i, s) ==
  /\ sessions[i] # Gone /\ Set(i, s) /\ Len(s.cwd) <= MaxParts
  /\ s.data_listen = NoSocket /\ listening' = listening \ {sessions[i].data_listen}

Gets(i, s) ==
  /\ sessions[i] # Gone /\ Set(i, s) /\ Len(s.cwd) <= MaxParts
  /\ \E d \in Socket : /\ d \notin listening \ {sessions[i].data_listen} /\ s.data_listen = d
                       /\ listening' = (listening \ {sessions[i].data_listen}) \cup {d}

Changes == \E i \in Session, s \in FtpSession : Keeps(i, s) \/ Drops(i, s) \/ Gets(i, s)

Opens == \E i \in Session : sessions[i] = Gone /\ Set(i, NewSession) /\ UNCHANGED listening

Closes == \E i \in Session :
  /\ sessions[i] # Gone /\ Set(i, Gone) /\ xfer = Gone
  /\ listening' = listening \ {sessions[i].data_listen} \/ (UNCHANGED listening /\ "QUIT" \in habit)

FtpEffect == UNCHANGED <<sessions, listening>> \/ Changes \/ Opens \/ Closes

Carries(x) ==
  {"of", "at", "kind"} \subseteq DOMAIN x /\ x.of \in Session /\ x.at \in {"connect", "data"}

LEMMA EffectStep ==
  ASSUME FtpTyped, ListenInv, habit' = habit, FtpEffect, aged' \subseteq Session,
         xfer' = Gone \/ (Carries(xfer') /\ sessions[xfer'.of] # Gone /\ ~Closes)
  PROVE  FtpTyped' /\ ListenInv'
<1> SUFFICES /\ sessions' \in [Session -> FtpSession \cup {Gone}]
             /\ \A i \in Session : sessions'[i] # Gone => Len(sessions'[i].cwd) <= MaxParts
             /\ listening' \subseteq Socket
             /\ ~Closes => \A i \in Session : sessions[i] # Gone => sessions'[i] # Gone
             /\ ListenInv'
  BY DEF FtpTyped, FtpTypeOK, XferInv, Carries
<1>1. CASE UNCHANGED <<sessions, listening>>
  BY <1>1 DEF FtpTyped, FtpTypeOK, ListenInv, Listens
<1>2. ASSUME NEW i \in Session, NEW s \in FtpSession, Keeps(i, s)
      PROVE  /\ sessions' \in [Session -> FtpSession \cup {Gone}]
             /\ \A j \in Session : sessions'[j] # Gone => Len(sessions'[j].cwd) <= MaxParts
             /\ listening' \subseteq Socket
             /\ \A j \in Session : sessions[j] # Gone => sessions'[j] # Gone
             /\ ListenInv'
  <2>1. listening' \subseteq Socket
    BY <1>2 DEF Keeps, FtpTyped, FtpTypeOK
  <2> QED
    BY <1>2, <2>1, SetTyped, KeepsSocket DEF Keeps
<1>3. ASSUME NEW i \in Session, NEW s \in FtpSession, Drops(i, s)
      PROVE  /\ sessions' \in [Session -> FtpSession \cup {Gone}]
             /\ \A j \in Session : sessions'[j] # Gone => Len(sessions'[j].cwd) <= MaxParts
             /\ listening' \subseteq Socket
             /\ \A j \in Session : sessions[j] # Gone => sessions'[j] # Gone
             /\ ListenInv'
  <2>1. listening' \subseteq Socket
    BY <1>3 DEF Drops, FtpTyped, FtpTypeOK
  <2> QED
    BY <1>3, <2>1, SetTyped, DropsSocket DEF Drops
<1>4. ASSUME NEW i \in Session, NEW s \in FtpSession, Gets(i, s)
      PROVE  /\ sessions' \in [Session -> FtpSession \cup {Gone}]
             /\ \A j \in Session : sessions'[j] # Gone => Len(sessions'[j].cwd) <= MaxParts
             /\ listening' \subseteq Socket
             /\ \A j \in Session : sessions[j] # Gone => sessions'[j] # Gone
             /\ ListenInv'
  <2>1. listening' \subseteq Socket
    BY <1>4 DEF Gets, FtpTyped, FtpTypeOK
  <2> QED
    BY <1>4, <2>1, SetTyped, GetsSocket DEF Gets
<1>5. CASE Opens
  <2>1. PICK i \in Session : sessions[i] = Gone /\ Set(i, NewSession) /\ UNCHANGED listening
    BY <1>5 DEF Opens
  <2>2. NewSession.data_listen = NoSocket
    BY DEF NewSession
  <2>3. /\ sessions' \in [Session -> FtpSession \cup {Gone}]
        /\ \A j \in Session : sessions'[j] # Gone => Len(sessions'[j].cwd) <= MaxParts
        /\ sessions'[i] = NewSession /\ sessions'[i] # Gone
        /\ \A j \in Session \ {i} : sessions'[j] = sessions[j]
    BY <2>1, SetTyped, NewSessionTyped
  <2>4. \A j \in Session : /\ Listens(sessions', j) <=> Listens(sessions, j)
                           /\ Listens(sessions, j) => sessions'[j] = sessions[j]
    BY <2>1, <2>2, <2>3 DEF Listens
  <2>5. ListenInv'
    BY <2>1, <2>4 DEF ListenInv
  <2> QED
    BY <2>1, <2>3, <2>5 DEF FtpTyped, FtpTypeOK
<1>6. CASE Closes
  <2>1. PICK i \in Session :
          /\ sessions[i] # Gone /\ Set(i, Gone)
          /\ listening' = listening \ {sessions[i].data_listen} \/ (UNCHANGED listening /\ "QUIT" \in habit)
    BY <1>6 DEF Closes
  <2>2. /\ sessions' \in [Session -> FtpSession \cup {Gone}]
        /\ \A j \in Session : sessions'[j] # Gone => Len(sessions'[j].cwd) <= MaxParts
        /\ listening' \subseteq Socket
    BY <2>1 DEF FtpTyped, FtpTypeOK, Set
  <2>3. ListenInv'
    <3>1. CASE "QUIT" \in habit
      BY <3>1 DEF ListenInv
    <3>2. CASE "QUIT" \notin habit
      BY <2>1, <3>2, DropsSocket
    <3> QED
      BY <3>1, <3>2
  <2> QED
    BY <1>6, <2>2, <2>3
<1> QED
  BY <1>1, <1>2, <1>3, <1>4, <1>5, <1>6 DEF FtpEffect, Changes

-----------------------------------------------------------------------------
(* Each step has one of these effects. *)
Shape ==
  /\ habit' = habit /\ FtpEffect /\ aged' \subseteq Session
  /\ xfer' = Gone \/ (Carries(xfer') /\ sessions[xfer'.of] # Gone /\ ~Closes)

LEMMA NotClosing ==
  ASSUME FtpTyped, UNCHANGED sessions \/ Changes
  PROVE  ~Closes
<1>1. CASE UNCHANGED sessions
  BY <1>1 DEF Closes, Set, FtpTyped, FtpTypeOK
<1>2. CASE Changes
  <2>1. PICK i \in Session, s \in FtpSession : Set(i, s) /\ sessions[i] # Gone
    BY <1>2 DEF Changes, Keeps, Drops, Gets
  <2>2. sessions'[i] # Gone /\ \A j \in Session \ {i} : sessions'[j] = sessions[j]
    BY <2>1, FtpAssumption DEF Set, FtpTyped, FtpTypeOK
  <2> QED
    BY <2>1, <2>2 DEF Closes, Set, FtpTyped, FtpTypeOK
<1> QED
  BY <1>1, <1>2

LEMMA CloseShape ==
  ASSUME FtpTyped, NEW i \in Session,
         ClientGone(i) \/ IdleTimeout(i) \/ Quit(i)
  PROVE  Shape
<1>1. /\ sessions[i] # Gone /\ Set(i, Gone) /\ xfer = Gone /\ xfer' = Gone /\ habit' = habit
      /\ listening' = listening \ {sessions[i].data_listen} \/ (UNCHANGED listening /\ "QUIT" \in habit)
      /\ aged' = aged \ {i}
  BY DEF ClientGone, IdleTimeout, Close, Quit, FtpIdle
<1> QED
  BY <1>1 DEF Shape, FtpEffect, Closes, FtpTyped, FtpTypeOK

LEMMA QuietShape ==
  ASSUME FtpTyped, NEW i \in Session,
         \/ User(i) \/ Pass(i) \/ Type(i) \/ Rest(i) \/ Cwd(i) \/ Size(i) \/ Noop(i) \/ Rnfr(i)
  PROVE  Shape
<1>1. PICK s \in FtpSession :
        /\ Len(s.cwd) <= MaxParts /\ Set(i, s)
        /\ s.data_listen = sessions[i].data_listen /\ sessions[i] # Gone
        /\ UNCHANGED <<habit, listening, files, xfer>> /\ aged' \subseteq aged
  BY QuietSession
<1>2. Changes
  BY <1>1 DEF Changes, Keeps
<1>3. xfer = Gone
  BY DEF User, Pass, Type, Rest, Cwd, Size, Noop, Rnfr, Quiet, FtpDo, FtpIdle
<1> QED
  BY <1>1, <1>2, <1>3 DEF Shape, FtpEffect, FtpTyped, FtpTypeOK

LEMMA ListenShape ==
  ASSUME FtpTyped, NEW i \in Session, NEW name, Listen(i, name) \/ Active(i, name)
  PROVE  Shape
<1>1. xfer = Gone /\ xfer' = Gone /\ sessions[i] # Gone /\ habit' = habit /\ aged' \subseteq aged
  BY DEF Listen, Active, FtpDo, FtpIdle
<1>2. sessions[i] \in FtpSession /\ Len(sessions[i].cwd) <= MaxParts
  BY <1>1, OpenTyped
<1>3. CASE \E d \in Socket \ (listening \ {sessions[i].data_listen}) :
             /\ listening' = (listening \ {sessions[i].data_listen}) \cup {d}
             /\ Set(i, [sessions[i] EXCEPT !.data_is_port = FALSE, !.data_listen = d])
  <2>1. PICK d \in Socket \ (listening \ {sessions[i].data_listen}) :
             /\ listening' = (listening \ {sessions[i].data_listen}) \cup {d}
             /\ Set(i, [sessions[i] EXCEPT !.data_is_port = FALSE, !.data_listen = d])
    BY <1>3
  <2> DEFINE s == [sessions[i] EXCEPT !.data_is_port = FALSE, !.data_listen = d]
  <2>2. s \in FtpSession /\ s.cwd = sessions[i].cwd /\ s.data_listen = d
    BY <1>2 DEF FtpSession
  <2>3. Set(i, s)
    BY <2>1
  <2> HIDE DEF s
  <2>4. Gets(i, s)
    BY <1>1, <1>2, <2>1, <2>2, <2>3 DEF Gets
  <2> QED
    BY <1>1, <2>2, <2>4 DEF Shape, FtpEffect, Changes, FtpTyped, FtpTypeOK
<1>4. CASE \E p \in BOOLEAN :
             /\ listening' = listening \ {sessions[i].data_listen}
             /\ Set(i, [sessions[i] EXCEPT !.data_is_port = p, !.data_listen = NoSocket])
  <2>1. PICK p \in BOOLEAN :
             /\ listening' = listening \ {sessions[i].data_listen}
             /\ Set(i, [sessions[i] EXCEPT !.data_is_port = p, !.data_listen = NoSocket])
    BY <1>4
  <2> DEFINE s == [sessions[i] EXCEPT !.data_is_port = p, !.data_listen = NoSocket]
  <2>2. s \in FtpSession /\ s.cwd = sessions[i].cwd /\ s.data_listen = NoSocket
    BY <1>2 DEF FtpSession
  <2>3. Set(i, s)
    BY <2>1
  <2> HIDE DEF s
  <2>4. Drops(i, s)
    BY <1>1, <1>2, <2>1, <2>2, <2>3 DEF Drops
  <2> QED
    BY <1>1, <2>2, <2>4 DEF Shape, FtpEffect, Changes, FtpTyped, FtpTypeOK
<1> QED
  BY <1>3, <1>4 DEF Listen, Active

LEMMA FileShape ==
  ASSUME FtpTyped, NEW i \in Session, Dele(i) \/ Rnto(i)
  PROVE  Shape
<1>1. xfer = Gone /\ xfer' = Gone /\ sessions[i] # Gone /\ habit' = habit /\ aged' \subseteq aged
      /\ UNCHANGED listening
  BY DEF Dele, Rnto, FtpDo, FtpIdle
<1>2. sessions[i] \in FtpSession /\ Len(sessions[i].cwd) <= MaxParts
  BY <1>1, OpenTyped
<1>3. CASE UNCHANGED sessions
  BY <1>1, <1>3 DEF Shape, FtpEffect, FtpTyped, FtpTypeOK
<1>4. CASE Set(i, [sessions[i] EXCEPT !.rename_from = Gone])
  <2> DEFINE s == [sessions[i] EXCEPT !.rename_from = Gone]
  <2>1. s \in FtpSession /\ s.cwd = sessions[i].cwd /\ s.data_listen = sessions[i].data_listen
    BY <1>2 DEF FtpSession
  <2>2. Set(i, s)
    BY <1>4
  <2> HIDE DEF s
  <2>3. Keeps(i, s)
    BY <1>1, <1>2, <2>1, <2>2 DEF Keeps
  <2> QED
    BY <1>1, <2>1, <2>3 DEF Shape, FtpEffect, Changes, FtpTyped, FtpTypeOK
<1> QED
  BY <1>3, <1>4 DEF Dele, Rnto

(* A transfer that is refused, or whose path is not there, or that begins. *)
LEMMA BeginShape ==
  ASSUME FtpTyped, NEW i \in Session, List(i) \/ Retr(i) \/ Stor(i)
  PROVE  Shape
<1>1. sessions[i] # Gone /\ xfer = Gone /\ habit' = habit /\ aged' \subseteq Session
  BY DEF List, Retr, Stor, Beginning, FtpIdle, FtpTyped, FtpTypeOK
<1>2. sessions[i] \in FtpSession /\ Len(sessions[i].cwd) <= MaxParts
  BY <1>1, OpenTyped
<1>3. ASSUME NEW rest \in 0..Block, Refuse(i, rest)
      PROVE  Shape
  <2> DEFINE s == [sessions[i] EXCEPT !.data_listen = NoSocket, !.data_is_port = FALSE, !.rest = rest]
  <2>1. s \in FtpSession /\ s.cwd = sessions[i].cwd /\ s.data_listen = NoSocket
    BY <1>2 DEF FtpSession
  <2>2. Set(i, s) /\ listening' = listening \ {sessions[i].data_listen} /\ xfer' = Gone
    BY <1>1, <1>3 DEF Refuse
  <2> HIDE DEF s
  <2>3. Drops(i, s)
    BY <1>1, <1>2, <2>1, <2>2 DEF Drops
  <2> QED
    BY <1>1, <2>1, <2>2, <2>3 DEF Shape, FtpEffect, Changes
<1>4. ASSUME NEW kind, NEW path, NEW pos, NEW data, NEW base, Transfer(i, kind, path, pos, data, base)
      PROVE  Shape
  <2>1. UNCHANGED <<sessions, listening>>
    BY <1>4 DEF Transfer
  <2>2. Carries(xfer') /\ xfer'.of = i
    BY <1>4 DEF Transfer, Carries
  <2>3. ~Closes
    BY <2>1, NotClosing
  <2> QED
    BY <1>1, <2>1, <2>2, <2>3 DEF Shape, FtpEffect
<1>5. CASE /\ Set(i, [sessions[i] EXCEPT !.data_listen = NoSocket])
           /\ listening' = listening \ {sessions[i].data_listen} /\ xfer' = xfer
  <2> DEFINE s == [sessions[i] EXCEPT !.data_listen = NoSocket]
  <2>1. s \in FtpSession /\ s.cwd = sessions[i].cwd /\ s.data_listen = NoSocket
    BY <1>2 DEF FtpSession
  <2>2. Set(i, s)
    BY <1>5
  <2> HIDE DEF s
  <2>3. Drops(i, s)
    BY <1>1, <1>2, <1>5, <2>1, <2>2 DEF Drops
  <2> QED
    BY <1>1, <1>5, <2>1, <2>3 DEF Shape, FtpEffect, Changes
<1>6. sessions[i].rest \in 0..Block /\ 0 \in 0..Block
  BY <1>2, FtpAssumption DEF FtpSession
<1>7. CASE List(i)
  BY <1>4, <1>5, <1>7 DEF List
<1>8. CASE Retr(i)
  BY <1>3, <1>4, <1>6, <1>8 DEF Retr
<1>9. CASE Stor(i)
  BY <1>3, <1>4, <1>6, <1>9 DEF Stor
<1> QED
  BY <1>7, <1>8, <1>9

LEMMA TransferShape ==
  ASSUME FtpTyped, FtpTransfer
  PROVE  Shape
<1> DEFINE i == xfer.of
<1>1. xfer # Gone /\ habit' = habit /\ aged' = aged
  BY DEF FtpTransfer, DataConnected, NotConnected, AtConnect, DataOpened, Send, Store, Ends, Moving
<1>2. i \in Session /\ sessions[i] # Gone /\ Carries(xfer) /\ aged \subseteq Session
  BY <1>1 DEF FtpTyped, FtpTypeOK, XferInv, Carries
<1>3. sessions[i] \in FtpSession /\ Len(sessions[i].cwd) <= MaxParts
  BY <1>2, OpenTyped
<1>4. ASSUME NEW ok \in BOOLEAN, DataOpened(ok)
      PROVE  Shape
  <2> DEFINE s == [sessions[i] EXCEPT !.data_is_port = FALSE,
                     !.data_listen = IF sessions[i].data_is_port THEN @ ELSE NoSocket,
                     !.rest = IF ok \/ xfer.kind = "list" THEN @ ELSE 0]
  <2>a. PICK d \in Socket \cup {NoSocket}, r \in 0..Block :
          /\ d = (IF sessions[i].data_is_port THEN sessions[i].data_listen ELSE NoSocket)
          /\ r = (IF ok \/ xfer.kind = "list" THEN sessions[i].rest ELSE 0)
    <3>1. sessions[i].data_listen \in Socket \cup {NoSocket} /\ sessions[i].rest \in 0..Block /\ 0 \in 0..Block
      BY <1>3, FtpAssumption DEF FtpSession
    <3> QED
      BY <3>1
  <2>b. s = [sessions[i] EXCEPT !.data_is_port = FALSE, !.data_listen = d, !.rest = r]
    BY <1>3, <2>a DEF FtpSession
  <2> HIDE DEF s
  <2>1. /\ s \in FtpSession /\ s.cwd = sessions[i].cwd
        /\ s.data_listen = IF sessions[i].data_is_port THEN sessions[i].data_listen ELSE NoSocket
    BY <1>3, <2>a, <2>b DEF FtpSession
  <2> USE DEF s
  <2>2. /\ Set(i, s)
        /\ listening' = IF sessions[i].data_is_port THEN listening
                        ELSE listening \ {sessions[i].data_listen}
        /\ xfer' = IF ok THEN [xfer EXCEPT !.at = "data"] ELSE Gone
    BY <1>4 DEF DataOpened
  <2> HIDE DEF s
  <2>3. Keeps(i, s) \/ Drops(i, s)
    BY <1>2, <1>3, <2>1, <2>2 DEF Keeps, Drops
  <2>4. Changes
    BY <1>2, <2>1, <2>3 DEF Changes
  <2>5. ok => Carries(xfer') /\ xfer'.of = xfer.of
    BY <1>2, <2>2 DEF Carries
  <2>6. ~Closes
    BY <2>4, NotClosing
  <2> QED
    BY <1>1, <1>2, <2>2, <2>4, <2>5, <2>6 DEF Shape, FtpEffect
<1>5. CASE Send \/ Store
  <2>1. UNCHANGED <<sessions, listening>>
    BY <1>5 DEF Send, Store
  <2>2. Carries(xfer') /\ xfer'.of = xfer.of
    <3>1. CASE Send
      <4>1. PICK pos, out : xfer' = [xfer EXCEPT !.pos = pos, !.out = out]
        BY <3>1 DEF Send
      <4> QED
        BY <1>2, <4>1 DEF Carries
    <3>2. CASE Store
      <4>1. PICK n \in 1..Block :
              LET b == SubSeq(xfer.in, 1, n)
                  w == IF Ascii THEN ascii_strip_cr(b, xfer.cr) ELSE b
              IN xfer' = [xfer EXCEPT !.in = SubSeq(@, n + 1, Len(@)), !.pos = @ + Len(w),
                                      !.cr = b[n] = CR, !.torn = @ \/ b[n] = CR]
        BY <3>2 DEF Store
      <4>2. /\ DOMAIN xfer' = DOMAIN xfer
            /\ \A f \in {"at", "kind", "of"} : xfer'[f] = xfer[f]
        BY <4>1
      <4> QED
        BY <1>2, <4>2 DEF Carries
    <3> QED
      BY <1>5, <3>1, <3>2
  <2>3. ~Closes
    BY <2>1, NotClosing
  <2> QED
    BY <1>1, <1>2, <2>1, <2>2, <2>3 DEF Shape, FtpEffect
<1>6. CASE Ends
  <2> DEFINE s == [sessions[i] EXCEPT !.rest = IF xfer.kind = "list" THEN @ ELSE 0]
  <2>1. s \in FtpSession /\ s.cwd = sessions[i].cwd /\ s.data_listen = sessions[i].data_listen
    BY <1>3, FtpAssumption, SMTT(30) DEF FtpSession
  <2>2. Set(i, s) /\ UNCHANGED listening /\ xfer' = Gone
    BY <1>6 DEF Ends, Ended
  <2> HIDE DEF s
  <2>3. Keeps(i, s)
    BY <1>2, <1>3, <2>1, <2>2 DEF Keeps
  <2> QED
    BY <1>1, <1>2, <2>1, <2>2, <2>3 DEF Shape, FtpEffect, Changes
<1> QED
  BY <1>4, <1>5, <1>6 DEF FtpTransfer, DataConnected, NotConnected

LEMMA AcceptShape ==
  ASSUME FtpTyped, Accept \/ TimePasses
  PROVE  Shape
<1>1. CASE Accept
  <2>1. xfer' = Gone /\ habit' = habit /\ aged' \subseteq Session
    BY <1>1 DEF Accept, FtpTyped, FtpTypeOK
  <2>2. Opens
    BY <1>1 DEF Accept, Opens
  <2> QED
    BY <2>1, <2>2 DEF Shape, FtpEffect
<1>2. CASE TimePasses
  <2>1. UNCHANGED <<habit, sessions, listening, xfer>> /\ aged' \subseteq Session
    BY <1>2 DEF TimePasses
  <2>2. ~Closes
    BY <2>1, NotClosing
  <2>3. xfer' = Gone \/ (Carries(xfer') /\ sessions[xfer'.of] # Gone)
    BY <2>1 DEF FtpTyped, FtpTypeOK, XferInv, Carries
  <2> QED
    BY <2>1, <2>2, <2>3 DEF Shape, FtpEffect
<1> QED
  BY <1>1, <1>2

LEMMA ListenStep ==
  ASSUME FtpTyped, ListenInv, [FtpNext]_ftpVars
  PROVE  FtpTyped' /\ ListenInv'
<1>1. CASE UNCHANGED ftpVars
  BY <1>1 DEF ftpVars, FtpTyped, FtpTypeOK, XferInv, ListenInv, Listens
<1>2. CASE FtpNext
  <2>1. Shape
    BY <1>2, CloseShape, QuietShape, ListenShape, FileShape, BeginShape, TransferShape, AcceptShape
      DEF FtpNext, FtpCommand, Pasv, Epsv, Port, Eprt
  <2> QED
    BY <2>1, EffectStep DEF Shape
<1> QED
  BY <1>1, <1>2

LEMMA ListenInit == FtpInit => FtpTyped /\ ListenInv
BY DEF FtpInit, FtpTyped, FtpTypeOK, XferInv, ListenInv, Listens

(* The sockets that listen are those the sessions have, whichever way a    *)
(* transfer or a session ends (ftpd.c).                                    *)
THEOREM FtpListenersCorrect == FtpSpec => [](FtpTypeOK /\ FtpListeners)
<1>1. FtpTyped /\ ListenInv => FtpTypeOK /\ FtpListeners
  <2> SUFFICES ASSUME FtpTyped, ListenInv, "QUIT" \notin habit
               PROVE  listening = {sessions[i].data_listen : i \in {j \in Session : sessions[j] # Gone}} \ {NoSocket}
    BY DEF FtpTyped, FtpListeners
  <2>1. NoSocket \notin listening
    BY FtpAssumption DEF FtpTyped, FtpTypeOK
  <2>2. \A d \in listening : d \in {sessions[i].data_listen : i \in {j \in Session : sessions[j] # Gone}}
    BY DEF ListenInv, Listens
  <2>3. \A d \in {sessions[i].data_listen : i \in {j \in Session : sessions[j] # Gone}} :
          d # NoSocket => d \in listening
    BY DEF ListenInv, Listens
  <2> QED
    BY <2>1, <2>2, <2>3, Zenon
<1> QED
  BY <1>1, ListenInit, ListenStep, PTL DEF FtpSpec

-----------------------------------------------------------------------------
(* ModbusTcp, MbClients: types *)

LEMMA TransTyped == \A r \in MbRequest : TransOf(r) \in TransId
BY TransAssumption DEF MbRequest, TransOf

LEMMA OutstandingIs == \A c \in Client : Outstanding(c) \subseteq MbRequest \ Answered
BY DEF Outstanding

LEMMA MbInitTyped == MbInit => MbTypeOK
<1> SUFFICES ASSUME MbInit PROVE MbTypeOK
  OBVIOUS
<1>1. sent \in [Client -> 0..MaxReq]
  BY TransAssumption DEF MbInit
<1>2. g_resp \in [trans : TransId \cup {NoTrans}, of : MbRequest \cup {Nobody}]
  BY DEF MbInit
<1>3. /\ answers = {} /\ failures = {} /\ silent = {} /\ pc = "select" /\ req = Nobody
      /\ g_resp_sem \in 0..1 /\ rx_adu = Nobody /\ queued = FALSE /\ running = Nobody
      /\ executed = {}
  BY DEF MbInit
<1> QED
  BY <1>1, <1>2, <1>3 DEF MbTypeOK

LEMMA NobodyIsNone == Nobody \notin MbRequest
BY TransAssumption DEF MbRequest, Nobody

(* The request the thread serves is one a client has sent, and was not     *)
(* answered yet; what the server works on, and what a response was         *)
(* computed for, is a request.                                             *)
Serving ==
  /\ pc # "select" => req \in MbRequest \ Answered
  /\ queued \/ running # Nobody => rx_adu # Nobody
  /\ g_resp.trans # NoTrans => g_resp.of # Nobody
  /\ pc = "reply" => g_resp.trans # NoTrans

LEMMA ThreadTyped ==
  ASSUME MbTypeOK, Serving, ThreadStep
  PROVE  MbTypeOK'
<1> USE DEF MbTypeOK, Serving, clientVars, serverVars
<1>1. CASE Submit
  BY <1>1 DEF Submit
<1>2. CASE TakeResponse \/ WaitTimeout
  BY <1>2 DEF TakeResponse, WaitTimeout
<1>3. CASE Check
  BY <1>3 DEF Check
<1>4. CASE ReplyAdu
  BY <1>4 DEF ReplyAdu
<1> QED
  BY <1>1, <1>2, <1>3, <1>4 DEF ThreadStep

LEMMA MbStepTyped ==
  ASSUME MbTypeOK, Serving, [MbNext]_mbVars
  PROVE  MbTypeOK'
<1> USE DEF MbTypeOK, clientVars, serverVars
<1>1. CASE UNCHANGED mbVars
  BY <1>1 DEF mbVars
<1>2. ASSUME NEW c \in Client, ClientSend(c) PROVE MbTypeOK'
  BY <1>2, TransAssumption DEF ClientSend
<1>3. ASSUME NEW c \in Client, Receive(c) PROVE MbTypeOK'
  BY <1>3, OutstandingIs DEF Receive
<1>4. CASE ThreadStep
  BY <1>4, ThreadTyped
<1>5. CASE ServerStart
  BY <1>5 DEF ServerStart
<1>6. CASE ServerDone
  <2>1. PICK r \in {running, rx_adu} :
          /\ executed' = executed \cup {r}
          /\ IF running \in Broadcast THEN UNCHANGED <<g_resp, g_resp_sem>>
             ELSE g_resp' = [trans |-> TransOf(running), of |-> r] /\ g_resp_sem' = 1
    BY <1>6 DEF ServerDone
  <2>2. running \in MbRequest /\ r \in MbRequest
    BY <1>6, <2>1 DEF ServerDone, Serving
  <2>3. /\ g_resp' \in [trans : TransId \cup {NoTrans}, of : MbRequest \cup {Nobody}]
        /\ g_resp_sem' \in 0..1
    BY <2>1, <2>2, TransTyped
  <2> QED
    BY <1>6, <2>1, <2>2, <2>3 DEF ServerDone
<1> QED
  BY <1>1, <1>2, <1>3, <1>4, <1>5, <1>6 DEF MbNext, ServerStep

(* What a step adds to the answered requests. *)
LEMMA AnsweredGrows ==
  /\ UNCHANGED <<answers, failures, silent>> => UNCHANGED Answered
  /\ Submit => Answered' \subseteq Answered \cup {req} /\ Answered \subseteq Answered'
  /\ Check => Answered' \subseteq Answered \cup {req} /\ Answered \subseteq Answered'
  /\ ReplyAdu => Answered' = Answered \cup {req}
<1>1. ASSUME ReplyAdu PROVE {a[1] : a \in answers'} = {a[1] : a \in answers} \cup {req}
  <2>1. answers' = answers \cup {<<req, g_resp.of>>}
    BY <1>1 DEF ReplyAdu
  <2>2. <<req, g_resp.of>>[1] = req
    OBVIOUS
  <2>3. \A a \in answers' : a \in answers \/ a = <<req, g_resp.of>>
    BY <2>1
  <2>4. {a[1] : a \in answers'} \subseteq {a[1] : a \in answers} \cup {req}
    BY <2>2, <2>3, Zenon
  <2>5. answers \subseteq answers' /\ <<req, g_resp.of>> \in answers'
    BY <2>1, Zenon
  <2>6. {a[1] : a \in answers} \cup {req} \subseteq {a[1] : a \in answers'}
    BY <2>2, <2>5, Zenon
  <2> QED
    BY <2>4, <2>6, Zenon
<1> QED
  BY <1>1 DEF Answered, Submit, Check, ReplyAdu

LEMMA ServingStep ==
  ASSUME MbTypeOK, Serving, [MbNext]_mbVars
  PROVE  Serving'
<1> USE DEF Serving, clientVars, serverVars
<1>1. CASE UNCHANGED mbVars
  BY <1>1, AnsweredGrows DEF mbVars
<1>2. ASSUME NEW c \in Client, ClientSend(c) PROVE Serving'
  BY <1>2, AnsweredGrows DEF ClientSend
<1>3. ASSUME NEW c \in Client, Receive(c) PROVE Serving'
  BY <1>3, AnsweredGrows, OutstandingIs DEF Receive
<1>4. CASE Submit
  BY <1>4, AnsweredGrows, NobodyIsNone DEF Submit
<1>5. CASE TakeResponse \/ WaitTimeout
  BY <1>5, AnsweredGrows DEF TakeResponse, WaitTimeout
<1>6. CASE Check
  <2>1. TransOf(req) # NoTrans
    BY <1>6, TransTyped, TransAssumption DEF Check
  <2> QED
    BY <1>6, <2>1, AnsweredGrows DEF Check
<1>7. CASE ReplyAdu
  BY <1>7 DEF ReplyAdu
<1>8. CASE ServerStart
  BY <1>8, AnsweredGrows DEF ServerStart
<1>9. CASE ServerDone
  <2>1. UNCHANGED <<pc, req, Answered, rx_adu>> /\ running' = Nobody
    BY <1>9, AnsweredGrows DEF ServerDone
  <2>2. running \in MbRequest /\ rx_adu # Nobody
    BY <1>9 DEF ServerDone, MbTypeOK
  <2>3. UNCHANGED g_resp \/ (g_resp'.trans \in TransId /\ g_resp'.of # Nobody)
    BY <1>9, <2>2, TransTyped DEF ServerDone
  <2> QED
    BY <1>9, <2>1, <2>2, <2>3, TransAssumption DEF ServerDone
<1> QED
  BY <1>1, <1>2, <1>3, <1>4, <1>5, <1>6, <1>7, <1>8, <1>9 DEF MbNext, ThreadStep, ServerStep

(* Every variable keeps its type, and the thread serves only requests that *)
(* wait for their answer.                                                  *)
THEOREM MbTypeCorrect == MbSpec => [](MbTypeOK /\ Serving)
<1>1. MbInit => MbTypeOK /\ Serving
  BY MbInitTyped DEF MbInit, Serving
<1>2. MbTypeOK /\ Serving /\ [MbNext]_mbVars => (MbTypeOK /\ Serving)'
  BY MbStepTyped, ServingStep
<1> QED
  BY <1>1, <1>2, PTL DEF MbSpec

-----------------------------------------------------------------------------
(* The inductive invariant.  Only requests that were submitted are in the  *)
(* server or in g_resp; while the thread waits, the receive ADU is its     *)
(* request, so that what the server computes under that request's id it    *)
(* computes for it; and once it has, it has no other work that could       *)
(* overwrite g_resp before the reply.                                      *)

Waiting == pc \in {"wait", "check", "reply"}
Submitted == Answered \cup (IF Waiting THEN {req} ELSE {})
HasAnswer == g_resp.trans = TransOf(req)

SeenInv ==
  /\ rx_adu \in Submitted \cup {Nobody} /\ running \in Submitted \cup {Nobody}
  /\ g_resp.trans = NoTrans \/ \E s \in Submitted : g_resp.trans = TransOf(s)

WaitInv ==
  Waiting =>
    /\ rx_adu = req /\ req \notin Broadcast
    /\ running = req => ~queued
    /\ HasAnswer => g_resp.of = req /\ req \in executed /\ running = Nobody /\ ~queued
    /\ pc = "reply" => HasAnswer

AnswerInv == MbTypeOK /\ Serving /\ SeenInv /\ WaitInv /\ RightAnswer

(* A request that was not submitted is unknown to the server. *)
LEMMA Fresh ==
  ASSUME DistinctIds, AnswerInv, NEW r \in MbRequest, r \notin Submitted
  PROVE  rx_adu # r /\ running # r /\ g_resp.trans # TransOf(r)
<1>1. Submitted \subseteq MbRequest
  <2>1. {a[1] : a \in answers} \subseteq MbRequest
    BY DEF AnswerInv, MbTypeOK
  <2> QED
    BY <2>1, TransAssumption DEF AnswerInv, MbTypeOK, Serving, Submitted, Answered, Waiting
<1>2. g_resp.trans # TransOf(r)
  BY <1>1, TransTyped, TransAssumption DEF AnswerInv, SeenInv, DistinctIds
<1> QED
  BY <1>2, NobodyIsNone DEF AnswerInv, SeenInv

LEMMA SubmitInv ==
  ASSUME DistinctIds, AnswerInv, Submit
  PROVE  (SeenInv /\ WaitInv /\ RightAnswer)'
<1>1. /\ req \in MbRequest /\ req \notin Submitted /\ pc = "submit"
      /\ rx_adu' = req /\ queued' = TRUE
      /\ UNCHANGED <<answers, failures, req, g_resp, running, executed>>
  BY DEF Submit, AnswerInv, Serving, Submitted, Waiting
<1>2. Submitted' = Submitted \cup {req}
  BY <1>1 DEF Submit, Submitted, Waiting, Answered
<1>3. running # req /\ g_resp.trans # TransOf(req)
  BY <1>1, Fresh
<1>4. SeenInv'
  BY <1>1, <1>2 DEF AnswerInv, SeenInv, TransOf
<1>5. WaitInv'
  BY <1>1, <1>3 DEF Submit, WaitInv, Waiting, HasAnswer, TransOf
<1> QED
  BY <1>1, <1>4, <1>5 DEF AnswerInv, RightAnswer, OwnResponse, AnsweredIsExecuted

LEMMA ThreadInv ==
  ASSUME DistinctIds, AnswerInv, ThreadStep
  PROVE  (SeenInv /\ WaitInv /\ RightAnswer)'
<1>1. CASE Submit
  BY <1>1, SubmitInv
<1>2. CASE TakeResponse \/ WaitTimeout
  <2>1. UNCHANGED <<clientVars, req, g_resp, serverVars>> /\ pc = "wait" /\ pc' \in {"wait", "check"}
    BY <1>2 DEF TakeResponse, WaitTimeout
  <2>2. Submitted' = Submitted
    BY <2>1 DEF Submitted, Answered, Waiting, clientVars
  <2> QED
    BY <2>1, <2>2 DEF AnswerInv, SeenInv, WaitInv, RightAnswer, OwnResponse, AnsweredIsExecuted,
           Waiting, HasAnswer, TransOf, clientVars, serverVars
<1>3. CASE Check
  <2>1. /\ UNCHANGED <<answers, silent, req, g_resp, serverVars>> /\ pc = "check"
        /\ \/ HasAnswer /\ pc' = "reply" /\ UNCHANGED failures
           \/ pc' = "select" /\ failures' = failures \cup {req}
    BY <1>3 DEF Check, HasAnswer
  <2>2. Submitted' = Submitted
    BY <2>1 DEF Submitted, Answered, Waiting
  <2> QED
    BY <2>1, <2>2 DEF AnswerInv, SeenInv, WaitInv, RightAnswer, OwnResponse, AnsweredIsExecuted,
           Waiting, HasAnswer, TransOf, serverVars
<1>4. CASE ReplyAdu
  <2>1. /\ UNCHANGED <<failures, silent, req, g_resp, serverVars>> /\ pc = "reply" /\ pc' = "select"
        /\ answers' = answers \cup {<<req, g_resp.of>>}
    BY <1>4 DEF ReplyAdu
  <2>2. g_resp.of = req /\ req \in executed
    BY <2>1 DEF AnswerInv, WaitInv, Waiting
  <2>3. RightAnswer'
    BY <2>1, <2>2 DEF AnswerInv, RightAnswer, OwnResponse, AnsweredIsExecuted, serverVars
  <2>4. Submitted' = Submitted
    BY <1>4, <2>1, AnsweredGrows DEF Submitted, Waiting
  <2> QED
    BY <2>1, <2>3, <2>4 DEF AnswerInv, SeenInv, WaitInv, Waiting, TransOf, serverVars
<1> QED
  BY <1>1, <1>2, <1>3, <1>4 DEF ThreadStep

LEMMA ServerInv ==
  ASSUME DistinctIds, AnswerInv, ServerStep
  PROVE  (SeenInv /\ WaitInv /\ RightAnswer)'
<1>1. Submitted' = Submitted
  BY DEF ServerStep, ServerStart, ServerDone, Submitted, Answered, Waiting, clientVars
<1>2. CASE ServerStart
  <2>1. /\ queued /\ ~queued' /\ running' = rx_adu
        /\ UNCHANGED <<answers, pc, req, g_resp, rx_adu, executed>>
    BY <1>2 DEF ServerStart, clientVars
  <2> QED
    BY <1>1, <2>1 DEF AnswerInv, SeenInv, WaitInv, RightAnswer, OwnResponse, AnsweredIsExecuted,
           Waiting, HasAnswer, TransOf
<1>3. CASE ServerDone
  <2>1. PICK r \in {running, rx_adu} :
          /\ executed' = executed \cup {r}
          /\ IF running \in Broadcast THEN UNCHANGED <<g_resp, g_resp_sem>>
             ELSE g_resp' = [trans |-> TransOf(running), of |-> r] /\ g_resp_sem' = 1
    BY <1>3 DEF ServerDone
  <2>2. /\ running \in Submitted /\ running \in MbRequest /\ running' = Nobody
        /\ UNCHANGED <<answers, pc, req, rx_adu, queued>>
    BY <1>3 DEF ServerDone, clientVars, AnswerInv, SeenInv, MbTypeOK
  <2>3. SeenInv'
    BY <1>1, <2>1, <2>2 DEF AnswerInv, SeenInv, TransOf
  <2>4. RightAnswer'
    BY <2>1, <2>2 DEF AnswerInv, RightAnswer, OwnResponse, AnsweredIsExecuted
  <2>5. WaitInv'
    <3> SUFFICES ASSUME Waiting PROVE WaitInv'
      BY <2>2 DEF WaitInv, Waiting
    <3>1. /\ rx_adu = req /\ req \notin Broadcast /\ ~HasAnswer /\ req \in MbRequest
          /\ running = req => ~queued
      BY <2>2, NobodyIsNone DEF AnswerInv, WaitInv, Serving, Waiting
    <3>2. CASE running = req
      BY <2>1, <2>2, <3>1, <3>2 DEF WaitInv, HasAnswer, TransOf, AnswerInv, Waiting
    <3>3. CASE running # req
      <4>1. TransOf(running) # TransOf(req)
        BY <2>2, <3>1, <3>3 DEF DistinctIds
      <4>2. ~HasAnswer'
        BY <2>1, <2>2, <3>1, <4>1 DEF HasAnswer, TransOf
      <4>3. pc # "reply"
        BY <3>1 DEF AnswerInv, WaitInv, Waiting
      <4> QED
        BY <2>2, <3>1, <4>2, <4>3, NobodyIsNone DEF WaitInv
    <3> QED
      BY <3>2, <3>3
  <2> QED
    BY <2>3, <2>4, <2>5
<1> QED
  BY <1>2, <1>3 DEF ServerStep

LEMMA ClientInv ==
  ASSUME AnswerInv, NEW c \in Client, ClientSend(c) \/ Receive(c)
  PROVE  (SeenInv /\ WaitInv /\ RightAnswer)'
<1>1. /\ UNCHANGED <<answers, failures, silent, g_resp, serverVars>>
      /\ UNCHANGED <<pc, req>> \/ (pc = "select" /\ pc' = "submit")
  BY DEF ClientSend, Receive, clientVars
<1>2. Submitted' = Submitted
  BY <1>1 DEF Submitted, Answered, Waiting
<1> QED
  BY <1>1, <1>2 DEF AnswerInv, SeenInv, WaitInv, RightAnswer, OwnResponse, AnsweredIsExecuted,
         Waiting, HasAnswer, TransOf, serverVars

LEMMA AnswerStep ==
  ASSUME DistinctIds, AnswerInv, [MbNext]_mbVars
  PROVE  AnswerInv'
<1>1. MbTypeOK' /\ Serving'
  BY MbStepTyped, ServingStep DEF AnswerInv
<1>2. CASE UNCHANGED mbVars
  <2>1. Submitted' = Submitted
    BY <1>2 DEF mbVars, clientVars, Submitted, Answered, Waiting
  <2> QED
    BY <1>1, <1>2, <2>1 DEF mbVars, clientVars, serverVars, AnswerInv, SeenInv, WaitInv, RightAnswer,
           OwnResponse, AnsweredIsExecuted, Waiting, HasAnswer, TransOf
<1>3. CASE MbNext
  <2>1. (SeenInv /\ WaitInv /\ RightAnswer)'
    BY <1>3, ThreadInv, ServerInv, ClientInv DEF MbNext
  <2> QED
    BY <1>1, <2>1 DEF AnswerInv
<1> QED
  BY <1>2, <1>3

(* Clients whose transaction ids differ get the response to their own      *)
(* request, computed for it and executed to the end, or an exception: late *)
(* responses, timeouts and an overwritten receive ADU included (tcp.c:54,  *)
(* :213, :220).  With equal ids it is false.                               *)
THEOREM RightAnswerCorrect == ASSUME DistinctIds PROVE MbSpec => []RightAnswer
<1>1. MbInit => AnswerInv
  BY MbInitTyped DEF MbInit, AnswerInv, Serving, SeenInv, WaitInv, Waiting, RightAnswer, OwnResponse,
                   AnsweredIsExecuted
<1>2. AnswerInv /\ [MbNext]_mbVars => AnswerInv'
  BY AnswerStep
<1>3. AnswerInv => RightAnswer
  BY DEF AnswerInv
<1> QED
  BY <1>1, <1>2, <1>3, PTL DEF MbSpec

-----------------------------------------------------------------------------
(* MbClients *)

(* The unit that the thread reads after i more units, s being what waits   *)
(* and u what arrives next; and that these follow one another.             *)
NextOf(s, u, i) == IF i < Len(s) THEN s[i + 1] ELSE u
Ordered(s, u, f) ==
  \A i \in 1..Len(s) : s[i][1] \in DOMAIN f /\ NextOf(s, u, i) = After(s[i], f)

LEMMA OrderedRest ==
  ASSUME NEW f, NEW s \in Seq(Unit), NEW u \in Unit, Ordered(s, u, f), NEW n \in 0..Len(s)
  PROVE  LET t == SubSeq(s, n + 1, Len(s))
         IN t \in Seq(Unit) /\ Ordered(t, u, f) /\ NextOf(t, u, 0) = NextOf(s, u, n)
<1> DEFINE t == SubSeq(s, n + 1, Len(s))
<1>1. /\ t \in Seq(Unit) /\ Len(t) = Len(s) - n
      /\ \A i \in 1..(Len(s) - n) : t[i] = s[n + i]
  OBVIOUS
<1> HIDE DEF t
<1>2. ASSUME NEW i \in 0..Len(t)
      PROVE  NextOf(t, u, i) = NextOf(s, u, n + i)
  <2>1. Len(s) \in Nat /\ i \in Nat /\ n \in Nat /\ n + i <= Len(s)
    BY <1>1
  <2>2. CASE i < Len(t)
    <3>1. t[i + 1] = s[n + (i + 1)]
      BY <1>1, <2>1, <2>2
    <3> QED
      BY <1>1, <2>1, <2>2, <3>1 DEF NextOf
  <2>3. CASE i = Len(t)
    BY <1>1, <2>1, <2>3 DEF NextOf
  <2>4. i < Len(t) \/ i = Len(t)
    <3>1. Len(t) \in Nat /\ i \in Nat /\ i <= Len(t)
      BY <1>1, <2>1
    <3> QED
      BY <3>1
  <2> QED
    BY <2>2, <2>3, <2>4
<1>3. ASSUME NEW i \in 1..Len(t)
      PROVE  t[i][1] \in DOMAIN f /\ NextOf(t, u, i) = After(t[i], f)
  BY <1>1, <1>2 DEF Ordered
<1>4. NextOf(t, u, 0) = NextOf(s, u, n)
  BY <1>1, <1>2
<1> QED
  BY <1>1, <1>3, <1>4 DEF Ordered, t

LEMMA AfterTyped ==
  ASSUME NEW f \in Seq(FrameKind), NEW u \in Unit, u[1] \in DOMAIN f
  PROVE  After(u, f) \in Unit
BY DEF Unit, After

LEMMA OrderedMore ==
  ASSUME NEW f \in Seq(FrameKind), NEW s \in Seq(Unit), NEW u \in Unit,
         Ordered(s, u, f), u[1] \in DOMAIN f
  PROVE  LET t == Append(s, u)
         IN /\ t \in Seq(Unit) /\ Ordered(t, After(u, f), f)
            /\ NextOf(t, After(u, f), 0) = NextOf(s, u, 0)
<1> DEFINE t == Append(s, u)
<1>1. /\ t \in Seq(Unit) /\ Len(t) = Len(s) + 1 /\ t[Len(s) + 1] = u
      /\ \A i \in 1..Len(s) : t[i] = s[i]
  OBVIOUS
<1> HIDE DEF t
<1>2. ASSUME NEW i \in 0..Len(s)
      PROVE  NextOf(t, After(u, f), i) = NextOf(s, u, i)
  BY <1>1 DEF NextOf
<1>3. NextOf(t, After(u, f), Len(s) + 1) = After(u, f)
  BY <1>1 DEF NextOf
<1>4. ASSUME NEW i \in 1..Len(t)
      PROVE  t[i][1] \in DOMAIN f /\ NextOf(t, After(u, f), i) = After(t[i], f)
  <2>1. CASE i = Len(s) + 1
    BY <1>1, <1>3, <2>1
  <2>2. CASE i # Len(s) + 1
    BY <1>1, <1>2, <2>2 DEF Ordered
  <2> QED
    BY <2>1, <2>2
<1>5. NextOf(t, After(u, f), 0) = NextOf(s, u, 0)
  BY <1>2
<1> QED
  BY <1>1, <1>4, <1>5 DEF Ordered, t

(* As long as they belong to its frame, units of one frame are counted up. *)
LEMMA WithinFrame ==
  ASSUME NEW f \in Seq(FrameKind), NEW s \in Seq(Unit), NEW u \in Unit, Ordered(s, u, f),
         s # <<>>, NEW n \in 1..2, n <= Len(s),
         s[1][2] + n - 1 <= HeaderLen + f[s[1][1]].body
  PROVE  LET m == s[1][1]
             p == s[1][2]
         IN /\ m \in DOMAIN f /\ p \in Nat \ {0}
            /\ \A i \in 1..n : s[i] = <<m, p + i - 1>>
            /\ NextOf(s, u, n) =
                 IF p + n - 1 < HeaderLen + f[m].body THEN <<m, p + n>> ELSE <<m + 1, 1>>
<1> DEFINE m == s[1][1]
           p == s[1][2]
<1>0. p + n - 1 <= HeaderLen + f[m].body
  OBVIOUS
<1>1. Len(s) \in Nat /\ Len(s) >= 1 /\ s[1] \in Unit /\ s[1] = <<m, p>>
  BY DEF Unit
<1> SUFFICES /\ m \in DOMAIN f /\ p \in Nat \ {0}
             /\ \A i \in 1..n : s[i] = <<m, p + i - 1>>
             /\ NextOf(s, u, n) =
                  IF p + n - 1 < HeaderLen + f[m].body THEN <<m, p + n>> ELSE <<m + 1, 1>>
  OBVIOUS
<1> HIDE DEF m, p
<1>2. m \in DOMAIN f /\ p \in Nat \ {0} /\ f[m].body \in 0..2 /\ m \in Nat
  <2>1. m \in Nat \ {0} /\ p \in Nat \ {0}
    BY <1>1 DEF Unit
  <2>2. s[1][1] \in DOMAIN f /\ s[1][1] = m
    BY <1>1 DEF Ordered
  <2>3. f[m] \in FrameKind
    BY <2>1, <2>2
  <2> QED
    BY <2>1, <2>2, <2>3 DEF FrameKind
<1>3. NextOf(s, u, 1) = After(<<m, p>>, f)
  <2>1. 1 \in 1..Len(s)
    BY <1>1
  <2> QED
    BY <1>1, <2>1 DEF Ordered
<1>4. After(<<m, p>>, f) = IF p < HeaderLen + f[m].body THEN <<m, p + 1>> ELSE <<m + 1, 1>>
  BY <1>2 DEF After
<1>5. CASE n = 1
  BY <1>1, <1>2, <1>3, <1>4, <1>5
<1>6. CASE n = 2
  <2>1. s[2] = <<m, p + 1>>
    BY <1>1, <1>2, <1>3, <1>4, <1>6 DEF NextOf, HeaderLen
  <2>2. NextOf(s, u, 2) = After(<<m, p + 1>>, f)
    <3>1. 2 \in 1..Len(s)
      BY <1>1, <1>6
    <3> QED
      BY <2>1, <3>1 DEF Ordered
  <2>3. After(<<m, p + 1>>, f) = IF p + 1 < HeaderLen + f[m].body THEN <<m, p + 2>> ELSE <<m + 1, 1>>
    BY <1>2 DEF After
  <2> QED
    <3>1. \A i \in 1..n : s[i] = <<m, p + i - 1>>
      BY <1>1, <1>2, <1>6, <2>1
    <3>2. p + n = p + 2 /\ p + n - 1 = p + 1
      BY <1>2, <1>6
    <3> QED
      BY <1>2, <1>6, <2>2, <2>3, <3>1, <3>2
<1> QED
  BY <1>5, <1>6
-----------------------------------------------------------------------------
(* The list of clients *)

LEMMA RemovedFromList ==
  ASSUME NEW l \in Seq(Conn), IsInjective(l), NEW i \in DOMAIN l
  PROVE  LET r == RemoveAt(l, i)
         IN r \in Seq(Conn) /\ ToSet(r) = ToSet(l) \ {l[i]} /\ IsInjective(r)
<1> DEFINE n == Len(l)
           r == RemoveAt(l, i)
           a == SubSeq(l, 1, i - 1)
           b == SubSeq(l, i + 1, Len(l))
<1>1. n \in Nat /\ i \in 1..n /\ DOMAIN l = 1..n
  OBVIOUS
<1>2. /\ a \in Seq(Conn) /\ Len(a) = i - 1 /\ \A j \in 1..(i - 1) : a[j] = l[j]
      /\ b \in Seq(Conn) /\ Len(b) = n - i /\ \A j \in 1..(n - i) : b[j] = l[i + j]
  BY <1>1, SMTT(30)
<1>3. r = a \o b
  BY DEF RemoveAt
<1> HIDE DEF r, a, b
<1>4. /\ r \in Seq(Conn) /\ Len(r) = n - 1
      /\ \A j \in 1..(n - 1) : r[j] = IF j < i THEN l[j] ELSE l[j + 1]
  <2>1. /\ r \in Seq(Conn) /\ Len(r) = (i - 1) + (n - i)
        /\ \A j \in 1..((i - 1) + (n - i)) : r[j] = IF j <= i - 1 THEN a[j] ELSE b[j - (i - 1)]
    BY <1>2, <1>3, ConcatProperties
  <2>2. ASSUME NEW j \in 1..(n - 1)
        PROVE  r[j] = IF j < i THEN l[j] ELSE l[j + 1]
    <3>1. CASE j < i
      BY <1>1, <1>2, <2>1, <3>1
    <3>2. CASE ~(j < i)
      <4>1. j - (i - 1) \in 1..(n - i) /\ i + (j - (i - 1)) = j + 1
        BY <1>1, <3>2
      <4>2. b[j - (i - 1)] = l[i + (j - (i - 1))]
        BY <1>2, <4>1
      <4> QED
        BY <1>1, <2>1, <3>2, <4>1, <4>2
    <3> QED
      BY <3>1, <3>2
  <2> QED
    BY <1>1, <2>1, <2>2
<1>5. DOMAIN r = 1..(n - 1)
  BY <1>4
<1>6. \A j, k \in DOMAIN l : l[j] = l[k] => j = k
  BY DEF IsInjective
<1>7. ToSet(r) \subseteq ToSet(l) \ {l[i]}
  <2> SUFFICES ASSUME NEW j \in 1..(n - 1)
               PROVE  r[j] \in ToSet(l) \ {l[i]}
    BY <1>5 DEF ToSet
  <2>1. PICK k \in DOMAIN l : r[j] = l[k] /\ k # i
    BY <1>1, <1>4, SMTT(30)
  <2> QED
    BY <1>6, <2>1 DEF ToSet
<1>8. ToSet(l) \ {l[i]} \subseteq ToSet(r)
  <2> SUFFICES ASSUME NEW k \in 1..n, l[k] # l[i]
               PROVE  \E j \in 1..(n - 1) : l[k] = r[j]
    BY <1>1, <1>5 DEF ToSet
  <2>1. CASE k < i
    BY <1>1, <1>4, <2>1
  <2>2. CASE k > i
    <3>1. k - 1 \in 1..(n - 1) /\ r[k - 1] = l[k]
      BY <1>1, <1>4, <2>2
    <3> QED
      BY <3>1
  <2> QED
    BY <1>1, <2>1, <2>2
<1>9. IsInjective(r)
  <2> SUFFICES ASSUME NEW j \in 1..(n - 1), NEW k \in 1..(n - 1), r[j] = r[k]
               PROVE  j = k
    BY <1>5 DEF IsInjective
  <2>1. /\ r[j] = l[IF j < i THEN j ELSE j + 1] /\ (IF j < i THEN j ELSE j + 1) \in DOMAIN l
        /\ r[k] = l[IF k < i THEN k ELSE k + 1] /\ (IF k < i THEN k ELSE k + 1) \in DOMAIN l
    BY <1>1, <1>4
  <2>2. (IF j < i THEN j ELSE j + 1) = (IF k < i THEN k ELSE k + 1)
    BY <1>6, <2>1
  <2> QED
    BY <1>1, <2>2
<1> QED
  BY <1>4, <1>7, <1>8, <1>9 DEF r

LEMMA AddedToList ==
  ASSUME NEW l \in Seq(Conn), IsInjective(l), NEW c \in Conn \ ToSet(l)
  PROVE  LET r == <<c>> \o l
         IN r \in Seq(Conn) /\ ToSet(r) = ToSet(l) \cup {c} /\ IsInjective(r)
<1> DEFINE n == Len(l)
           r == <<c>> \o l
<1>1. /\ n \in Nat /\ DOMAIN l = 1..n
      /\ r \in Seq(Conn) /\ Len(r) = n + 1
      /\ r[1] = c /\ \A j \in 2..(n + 1) : r[j] = l[j - 1]
  OBVIOUS
<1> HIDE DEF r
<1>2. DOMAIN r = 1..(n + 1)
  BY <1>1
<1>3. ToSet(r) \subseteq ToSet(l) \cup {c}
  <2> SUFFICES ASSUME NEW j \in 1..(n + 1)
               PROVE  r[j] \in ToSet(l) \cup {c}
    BY <1>2 DEF ToSet
  <2>1. j = 1 \/ (j - 1 \in 1..n /\ r[j] = l[j - 1])
    BY <1>1
  <2> QED
    BY <1>1, <2>1 DEF ToSet
<1>4. ToSet(l) \cup {c} \subseteq ToSet(r)
  <2>1. c \in ToSet(r)
    BY <1>1, <1>2 DEF ToSet
  <2>2. ASSUME NEW k \in 1..n
        PROVE  l[k] \in ToSet(r)
    <3>1. k + 1 \in 1..(n + 1) /\ r[k + 1] = l[k]
      BY <1>1
    <3> QED
      BY <1>2, <3>1 DEF ToSet
  <2> QED
    BY <1>1, <2>1, <2>2 DEF ToSet
<1>5. IsInjective(r)
  <2> SUFFICES ASSUME NEW j \in 1..(n + 1), NEW k \in 1..(n + 1), r[j] = r[k]
               PROVE  j = k
    BY <1>2 DEF IsInjective
  <2>1. \A k1 \in 1..n : l[k1] # c
    BY <1>1 DEF ToSet
  <2>2. \A j1, k1 \in 1..n : l[j1] = l[k1] => j1 = k1
    BY <1>1 DEF IsInjective
  <2>3. \A j1 \in 1..(n + 1) : j1 = 1 \/ (j1 - 1 \in 1..n /\ r[j1] = l[j1 - 1])
    BY <1>1
  <2> QED
    BY <1>1, <2>1, <2>2, <2>3
<1> QED
  BY <1>1, <1>3, <1>4, <1>5 DEF r
-----------------------------------------------------------------------------
(* The invariant *)

(* What the thread makes of the units of c: a header whose frame goes on    *)
(* with the next unit, or the body of the frame that the next unit is of.   *)
Midway(c) ==
  LET u == NextOf(stream[c], coming[c], 0)
  IN IF turn.header
     THEN /\ turn.want = HeaderLen /\ Len(turn.got) < HeaderLen /\ u[2] = Len(turn.got) + 1
          /\ \A k \in 1..Len(turn.got) : turn.got[k] = <<u[1], k>>
     ELSE /\ u[1] \in DOMAIN peer[c].frames /\ turn.want = peer[c].frames[u[1]].body
          /\ Len(turn.got) < turn.want /\ u[2] = HeaderLen + Len(turn.got) + 1

Between(c) == NextOf(stream[c], coming[c], 0)[2] = 1

ServingClient(c) == turn.at = "serve" /\ turn.of = c

(* A connection that was not refused and that the thread has, or will have. *)
Followed(c) == c \notin refused /\ (peer[c].is = "new" \/ c \in backlog \cup sockets)

Known(s, f) == \A k \in 1..Len(s) : s[k][1] \in DOMAIN f

InStep(c) ==
  /\ Ordered(stream[c], coming[c], peer[c].frames)
  /\ ServingClient(c) => Known(turn.got, peer[c].frames)
  /\ Followed(c) => IF ServingClient(c) THEN Midway(c) ELSE Between(c)

ClientsKnown ==
  /\ backlog \cap sockets = {}
  /\ \A c \in backlog \cup sockets : peer[c].is # "new"
  /\ turn.at = "serve" => turn.ready \subseteq sockets /\ turn.of \in sockets \ turn.ready

MbcInv ==
  /\ MbcTypeOK /\ FramesInStep /\ WatchesItsSockets /\ ClientsKnown
  /\ \A c \in Conn : InStep(c)

LEMMA MbcInitInv == MbcInit => MbcInv
<1> SUFFICES ASSUME MbcInit
             PROVE  MbcInv
  OBVIOUS
<1>1. PICK f \in Frames : peer = [c \in Conn |-> [frames |-> f, is |-> "new"]]
  BY DEF MbcInit
<1>2. \A s : s = <<>> => Len(s) = 0 /\ (\A S : s \in Seq(S)) /\ ToSet(s) = {} /\ IsInjective(s)
  BY DEF ToSet, IsInjective
<1>3. MbcTypeOK
  BY <1>1, <1>2 DEF MbcInit, MbcTypeOK, Unit
<1>4. FramesInStep /\ WatchesItsSockets /\ ClientsKnown
  BY <1>2 DEF MbcInit, FramesInStep, WatchesItsSockets, ClientsKnown, Selecting
<1>5. ASSUME NEW c \in Conn
      PROVE  InStep(c)
  <2>1. stream[c] = <<>> /\ coming[c] = <<1, 1>> /\ turn.at = "select"
    BY DEF MbcInit, Selecting
  <2> QED
    BY <1>2, <2>1 DEF InStep, ServingClient, Between, NextOf, Ordered
<1> QED
  BY <1>3, <1>4, <1>5 DEF MbcInv
-----------------------------------------------------------------------------
(* Steps *)

LEMMA FramesTyped ==
  ASSUME MbcTypeOK, NEW c \in Conn
  PROVE  /\ peer[c].frames \in Seq(FrameKind) /\ peer[c] \in [frames : Frames, is : {"new", "made", "closed"}]
         /\ coming[c] \in Unit /\ stream[c] \in Seq(Unit)
BY FramesAssumption DEF MbcTypeOK

LEMMA ConnectStep ==
  ASSUME MbcInv, NEW c \in Conn, Connect(c)
  PROVE  MbcInv'
<1>1. /\ c \notin backlog \cup sockets /\ peer[c].is = "new"
      /\ peer' = [peer EXCEPT ![c].is = "made"] /\ backlog' = backlog \cup {c}
      /\ UNCHANGED <<mbLink, coming, stream, sockets, client_list, turn, misread, refused>>
  BY DEF Connect, MbcInv, ClientsKnown
<1>2. \A d \in Conn : peer'[d].frames = peer[d].frames /\ (peer'[d].is = IF d = c THEN "made" ELSE peer[d].is)
  BY <1>1, FramesTyped DEF MbcInv, MbcTypeOK
<1>3. MbcTypeOK'
  BY <1>1, FramesTyped DEF MbcInv, MbcTypeOK
<1>4. ClientsKnown'
  BY <1>1, <1>2 DEF MbcInv, ClientsKnown, MbcTypeOK
<1>5. ASSUME NEW d \in Conn
      PROVE  InStep(d)'
  <2>1. Followed(d)' => Followed(d)
    BY <1>1, <1>2 DEF Followed
  <2>2. ServingClient(d)' = ServingClient(d) /\ Midway(d)' = Midway(d) /\ Between(d)' = Between(d)
    BY <1>1, <1>2 DEF ServingClient, Midway, Between
  <2>3. InStep(d)
    BY DEF MbcInv
  <2> QED
    BY <1>1, <1>2, <2>1, <2>2, <2>3 DEF InStep
<1> QED
  BY <1>1, <1>3, <1>4, <1>5 DEF MbcInv, FramesInStep, WatchesItsSockets

LEMMA ArrivesStep ==
  ASSUME MbcInv, NEW c \in Conn, Arrives(c)
  PROVE  MbcInv'
<1> DEFINE f == peer[c].frames
<1>1. /\ coming[c][1] <= Len(f)
      /\ stream' = [stream EXCEPT ![c] = Append(stream[c], coming[c])]
      /\ coming' = [coming EXCEPT ![c] = After(coming[c], f)]
      /\ UNCHANGED <<mbLink, peer, backlog, sockets, client_list, turn, misread, refused>>
  BY DEF Arrives
<1>2. f \in Seq(FrameKind) /\ coming[c] \in Unit /\ stream[c] \in Seq(Unit)
  BY FramesTyped DEF MbcInv
<1>3. coming[c][1] \in DOMAIN f
  BY <1>1, <1>2 DEF Unit
<1>4. stream'[c] = Append(stream[c], coming[c]) /\ coming'[c] = After(coming[c], f)
  BY <1>1 DEF MbcInv, MbcTypeOK
<1>5. \A d \in Conn \ {c} : stream'[d] = stream[d] /\ coming'[d] = coming[d]
  BY <1>1 DEF MbcInv, MbcTypeOK
<1> HIDE DEF f
<1>6. /\ stream'[c] \in Seq(Unit) /\ Ordered(stream'[c], coming'[c], f) /\ coming'[c] \in Unit
      /\ NextOf(stream'[c], coming'[c], 0) = NextOf(stream[c], coming[c], 0)
  <2>1. Ordered(stream[c], coming[c], f)
    BY DEF MbcInv, InStep, f
  <2> QED
    BY <1>2, <1>3, <1>4, <2>1, AfterTyped, OrderedMore
<1>7. MbcTypeOK'
  BY <1>1, <1>4, <1>6 DEF MbcInv, MbcTypeOK
<1>8. ASSUME NEW d \in Conn
      PROVE  InStep(d)'
  <2>1. InStep(d)
    BY DEF MbcInv
  <2>2. NextOf(stream'[d], coming'[d], 0) = NextOf(stream[d], coming[d], 0)
    BY <1>5, <1>6
  <2>3. /\ Followed(d)' = Followed(d) /\ ServingClient(d)' = ServingClient(d)
        /\ Midway(d)' = Midway(d) /\ Between(d)' = Between(d)
    BY <1>1, <2>2 DEF Followed, ServingClient, Midway, Between
  <2>4. Ordered(stream'[d], coming'[d], peer'[d].frames)
    BY <1>1, <1>5, <1>6, <2>1 DEF InStep, f
  <2> QED
    BY <1>1, <2>1, <2>3, <2>4 DEF InStep
<1> QED
  BY <1>1, <1>7, <1>8 DEF MbcInv, FramesInStep, WatchesItsSockets, ClientsKnown

LEMMA PeerClosesStep ==
  ASSUME MbcInv, NEW c \in Conn, PeerCloses(c)
  PROVE  MbcInv'
<1>1. /\ peer[c].is = "made" /\ peer' = [peer EXCEPT ![c].is = "closed"]
      /\ UNCHANGED <<mbLink, coming, stream, backlog, sockets, client_list, turn, misread, refused>>
  BY DEF PeerCloses
<1>2. \A d \in Conn : peer'[d].frames = peer[d].frames /\ (peer'[d].is = IF d = c THEN "closed" ELSE peer[d].is)
  BY <1>1, FramesTyped DEF MbcInv, MbcTypeOK
<1>3. MbcTypeOK'
  BY <1>1, FramesTyped DEF MbcInv, MbcTypeOK
<1>4. ClientsKnown'
  BY <1>1, <1>2 DEF MbcInv, ClientsKnown, MbcTypeOK
<1>5. ASSUME NEW d \in Conn
      PROVE  InStep(d)'
  <2>1. Followed(d)' => Followed(d)
    BY <1>1, <1>2 DEF Followed
  <2>2. ServingClient(d)' = ServingClient(d) /\ Midway(d)' = Midway(d) /\ Between(d)' = Between(d)
    BY <1>1, <1>2 DEF ServingClient, Midway, Between
  <2>3. InStep(d)
    BY DEF MbcInv
  <2> QED
    BY <1>1, <1>2, <2>1, <2>2, <2>3 DEF InStep
<1> QED
  BY <1>1, <1>3, <1>4, <1>5 DEF MbcInv, FramesInStep, WatchesItsSockets

LEMMA ServeStep ==
  ASSUME NEW ready, ready \subseteq Conn, Serve(ready)
  PROVE  /\ turn' \in Turn \cup {Selecting}
         /\ turn'.at = "serve" =>
              /\ turn'.of \in ready /\ turn'.ready = ready \ {turn'.of}
              /\ turn'.header /\ turn'.want = HeaderLen /\ Len(turn'.got) = 0
<1>1. \A s : s = <<>> => s \in Seq(Unit) /\ Len(s) = 0
  OBVIOUS
<1>2. CASE ready = {}
  BY <1>2 DEF Serve, Selecting
<1>3. CASE ready # {}
  <2>1. PICK c \in ready : turn' = [at |-> "serve", of |-> c, ready |-> ready \ {c},
                                    got |-> <<>>, want |-> HeaderLen, header |-> TRUE]
    BY <1>3 DEF Serve, First
  <2> QED
    BY <1>1, <2>1 DEF Turn, HeaderLen
<1> QED
  BY <1>2, <1>3

LEMMA RemoveStep ==
  ASSUME MbcTypeOK, WatchesItsSockets, NEW c \in Conn, client_remove(c)
  PROVE  client_list' \in Seq(Conn) /\ sockets' = sockets \ {c} /\ WatchesItsSockets'
<1>1. PICK i \in DOMAIN client_list : client_list[i] = c /\ client_list' = RemoveAt(client_list, i)
  BY DEF client_remove
<1> QED
  BY <1>1, RemovedFromList DEF client_remove, MbcTypeOK, WatchesItsSockets

(* Who is between two frames may be served next. *)
LEMMA ServedInStep ==
  ASSUME NEW ready, ready \subseteq Conn, Serve(ready), NEW c \in Conn, Between(c)'
  PROVE  IF ServingClient(c)' THEN Midway(c)' ELSE Between(c)'
<1>1. CASE ServingClient(c)'
  <2>1. turn'.header /\ turn'.want = HeaderLen /\ Len(turn'.got) = 0
    BY <1>1, ServeStep DEF ServingClient
  <2> QED
    BY <1>1, <2>1 DEF Midway, Between, HeaderLen
<1> QED
  BY <1>1

LEMMA NothingRead ==
  ASSUME NEW ready, ready \subseteq Conn, Serve(ready), turn'.at = "serve", NEW f
  PROVE  Known(turn'.got, f)
BY ServeStep DEF Known

LEMMA SelectStep ==
  ASSUME MbcInv, Select
  PROVE  MbcInv'
<1> DEFINE ready == {c \in ToSet(client_list) : Readable(c)}
<1>1. turn = Selecting /\ Serve(ready) /\ UNCHANGED <<mbLink, peer, coming, stream, misread, refused>>
  BY DEF Select
<1>2. ready \subseteq sockets /\ sockets \subseteq Conn /\ turn.at = "select"
  BY <1>1 DEF MbcInv, WatchesItsSockets, MbcTypeOK, Selecting
<1> HIDE DEF ready
<1>3. /\ client_list' \in Seq(Conn) /\ WatchesItsSockets' /\ sockets \subseteq sockets'
      /\ sockets' \cup backlog' \subseteq sockets \cup backlog /\ backlog' \cap sockets' = {}
  <2>1. CASE UNCHANGED <<backlog, client_list, sockets>>
    BY <2>1 DEF MbcInv, MbcTypeOK, WatchesItsSockets, ClientsKnown
  <2>2. CASE \E c \in backlog : backlog' = backlog \ {c} /\ Accepted(c)
    <3>1. PICK c \in backlog : backlog' = backlog \ {c} /\ Accepted(c)
      BY <2>2
    <3>2. c \in Conn \ ToSet(client_list)
      BY DEF MbcInv, MbcTypeOK, ClientsKnown, WatchesItsSockets
    <3>3. CASE client_list' = <<c>> \o client_list /\ sockets' = sockets \cup {c}
      BY <3>1, <3>2, <3>3, AddedToList DEF MbcInv, MbcTypeOK, ClientsKnown, WatchesItsSockets
    <3>4. CASE UNCHANGED <<client_list, sockets>>
      BY <3>1, <3>4 DEF MbcInv, MbcTypeOK, ClientsKnown, WatchesItsSockets
    <3> QED
      BY <3>1, <3>3, <3>4 DEF Accepted
  <2> QED
    BY <2>1, <2>2 DEF Select
<1>4. /\ turn' \in Turn \cup {Selecting}
      /\ turn'.at = "serve" => turn'.of \in ready /\ turn'.ready = ready \ {turn'.of}
  BY <1>1, <1>2, ServeStep
<1>5. MbcTypeOK'
  BY <1>1, <1>3, <1>4 DEF MbcInv, MbcTypeOK
<1>6. ClientsKnown'
  BY <1>1, <1>2, <1>3, <1>4 DEF MbcInv, ClientsKnown
<1>7. ASSUME NEW c \in Conn
      PROVE  InStep(c)'
  <2>1. InStep(c) /\ ~ServingClient(c)
    BY <1>2 DEF MbcInv, ServingClient
  <2>2. Followed(c)' => Followed(c)
    BY <1>1, <1>3 DEF Followed
  <2>3. Between(c)' = Between(c)
    BY <1>1 DEF Between
  <2>4. Followed(c)' => IF ServingClient(c)' THEN Midway(c)' ELSE Between(c)'
    BY <1>1, <1>2, <2>1, <2>2, <2>3, ServedInStep DEF InStep
  <2>5. ServingClient(c)' => Known(turn'.got, peer'[c].frames)
    BY <1>1, <1>2, NothingRead DEF ServingClient
  <2> QED
    BY <1>1, <2>1, <2>4, <2>5 DEF InStep
<1> QED
  BY <1>1, <1>3, <1>5, <1>6, <1>7 DEF MbcInv, FramesInStep

LEMMA SessionTimeoutStep ==
  ASSUME MbcInv, SessionTimeout
  PROVE  MbcInv'
<1>1. PICK c \in ToSet(client_list) : client_remove(c)
  BY DEF SessionTimeout
<1>2. turn = Selecting /\ UNCHANGED <<network, turn, misread, refused>>
  BY DEF SessionTimeout
<1>3. c \in Conn
  BY DEF MbcInv, WatchesItsSockets, MbcTypeOK
<1>4. client_list' \in Seq(Conn) /\ sockets' = sockets \ {c} /\ WatchesItsSockets'
  BY <1>1, <1>3, RemoveStep DEF MbcInv
<1>5. MbcTypeOK'
  BY <1>2, <1>4 DEF MbcInv, MbcTypeOK, network
<1>6. ClientsKnown'
  BY <1>2, <1>4 DEF MbcInv, ClientsKnown, network, Selecting
<1>7. ASSUME NEW d \in Conn
      PROVE  InStep(d)'
  <2>1. InStep(d)
    BY DEF MbcInv
  <2>2. /\ Followed(d)' => Followed(d)
        /\ ServingClient(d)' = ServingClient(d) /\ Midway(d)' = Midway(d) /\ Between(d)' = Between(d)
    BY <1>2, <1>4 DEF Followed, ServingClient, Midway, Between, network
  <2> QED
    BY <1>2, <2>1, <2>2 DEF InStep, network
<1> QED
  BY <1>2, <1>4, <1>5, <1>6, <1>7 DEF MbcInv, FramesInStep, network

(* What is left of the stream of the client that is served, whose frame ends *)
(* here if it stays.                                                         *)
LEMMA FrameEnds ==
  ASSUME MbcInv, NEW c \in Conn, turn.at = "serve", turn.of = c, NextClient,
         client_remove(c) \/ UNCHANGED <<client_list, sockets>>,
         UNCHANGED <<mbLink, peer, coming, backlog>>, NEW n \in 0..Len(stream[c]),
         stream' = [stream EXCEPT ![c] = SubSeq(stream[c], n + 1, Len(stream[c]))],
         refused \subseteq refused', refused' \subseteq Conn, misread' \subseteq refused',
         Followed(c)' => NextOf(stream[c], coming[c], n)[2] = 1
  PROVE  MbcInv'
<1>1. c \in Conn /\ c \in sockets \ turn.ready /\ turn.ready \subseteq sockets /\ sockets \subseteq Conn
  BY DEF MbcInv, ClientsKnown, MbcTypeOK
<1>2. stream[c] \in Seq(Unit) /\ coming[c] \in Unit /\ Ordered(stream[c], coming[c], peer[c].frames)
  BY <1>1, FramesTyped DEF MbcInv, InStep
<1>3. stream'[c] = SubSeq(stream[c], n + 1, Len(stream[c])) /\ \A d \in Conn \ {c} : stream'[d] = stream[d]
  BY <1>1 DEF MbcInv, MbcTypeOK
<1>4. /\ stream'[c] \in Seq(Unit) /\ Ordered(stream'[c], coming[c], peer[c].frames)
      /\ NextOf(stream'[c], coming[c], 0) = NextOf(stream[c], coming[c], n)
  BY <1>2, <1>3, OrderedRest
<1>5. /\ client_list' \in Seq(Conn) /\ WatchesItsSockets' /\ sockets' \subseteq sockets
      /\ sockets \ {c} \subseteq sockets'
  BY <1>1, RemoveStep DEF MbcInv, MbcTypeOK, WatchesItsSockets
<1>6. /\ turn' \in Turn \cup {Selecting}
      /\ turn'.at = "serve" => turn'.of \in turn.ready /\ turn'.ready = turn.ready \ {turn'.of}
  BY <1>1, ServeStep DEF NextClient
<1>7. MbcTypeOK'
  BY <1>1, <1>3, <1>4, <1>5, <1>6 DEF MbcInv, MbcTypeOK
<1>8. ClientsKnown'
  BY <1>1, <1>5, <1>6 DEF MbcInv, ClientsKnown
<1>9. ASSUME NEW d \in Conn
      PROVE  InStep(d)'
  <2>1. InStep(d)
    BY DEF MbcInv
  <2>2. Ordered(stream'[d], coming'[d], peer'[d].frames)
    BY <1>3, <1>4, <2>1 DEF InStep
  <2>3. Followed(d)' => Between(d)'
    <3>1. CASE d = c
      BY <1>4, <3>1 DEF Between
    <3>2. CASE d # c
      <4>1. Followed(d)' => Followed(d)
        BY <1>5 DEF Followed
      <4>2. ~ServingClient(d) /\ Between(d)' = Between(d)
        BY <1>3, <3>2 DEF ServingClient, Between
      <4> QED
        BY <2>1, <4>1, <4>2 DEF InStep
    <3> QED
      BY <3>1, <3>2
  <2>4. ServingClient(d)' => Known(turn'.got, peer'[d].frames)
    BY <1>1, NothingRead DEF ServingClient, NextClient
  <2> QED
    BY <1>1, <2>2, <2>3, <2>4, ServedInStep DEF InStep, NextClient
<1> QED
  BY <1>5, <1>7, <1>8, <1>9 DEF MbcInv, FramesInStep

(* n more units of the client that is served, if it was not refused: those  *)
(* of the header, or of the body that the thread waits for.                 *)
(* What n more units of a client in step give: the read so far and the next *)
(* unit of the stream are those of one frame.                               *)
ReadsOn(c, n) ==
  LET got == turn.got \o SubSeq(stream[c], 1, n)
      m == stream[c][1][1]
      f == peer[c].frames
      u == NextOf(stream[c], coming[c], n)
  IN /\ m \in DOMAIN f /\ got \in Seq(Unit) /\ Len(got) = Len(turn.got) + n
     /\ turn.header =>
          /\ turn.want = HeaderLen /\ \A k \in 1..Len(got) : got[k] = <<m, k>>
          /\ Len(got) < HeaderLen => u = <<m, Len(got) + 1>>
          /\ Len(got) = HeaderLen =>
               u = IF f[m].body > 0 THEN <<m, HeaderLen + 1>> ELSE <<m + 1, 1>>
     /\ ~turn.header =>
          /\ turn.want = f[m].body
          /\ Len(got) < turn.want => u = <<m, HeaderLen + Len(got) + 1>>
          /\ Len(got) = turn.want => u[2] = 1

LEMMA ReadInStep ==
  ASSUME MbcInv, NEW c \in Conn, turn.at = "serve", turn.of = c, c \notin refused,
         NEW n \in 1..(turn.want - Len(turn.got)), n <= Len(stream[c])
  PROVE  ReadsOn(c, n)
<1> DEFINE s == stream[c]
           f == peer[c].frames
           m == s[1][1]
           p == s[1][2]
           g == Len(turn.got)
           part == SubSeq(s, 1, n)
           got == turn.got \o part
           u == NextOf(s, coming[c], n)
<1>1. turn \in Turn /\ turn.got \in Seq(Unit) /\ turn.want \in 1..2 /\ g \in Nat /\ n \in 1..2
  <2>1. turn \in Turn
    BY DEF MbcInv, MbcTypeOK, Selecting
  <2>2. turn.got \in Seq(Unit) /\ turn.want \in 1..2
    BY <2>1 DEF Turn, HeaderLen
  <2> QED
    BY <2>1, <2>2
<1>2. /\ f \in Seq(FrameKind) /\ s \in Seq(Unit) /\ coming[c] \in Unit
      /\ Ordered(s, coming[c], f) /\ s # <<>> /\ Len(s) \in Nat /\ Len(s) >= 1
  BY FramesTyped DEF MbcInv, InStep
<1>3. s[1] \in Unit /\ s[1] = <<m, p>> /\ m \in DOMAIN f /\ NextOf(s, coming[c], 0) = s[1]
  <2>1. s[1] \in Unit /\ s[1] = <<m, p>>
    BY <1>2 DEF Unit
  <2>2. NextOf(s, coming[c], 0) = s[1]
    BY <1>2 DEF NextOf
  <2>3. m \in DOMAIN f
    BY <1>2 DEF Ordered
  <2> QED
    BY <2>1, <2>2, <2>3
<1>4. f[m] \in FrameKind /\ f[m].body \in 0..2
  <2>1. f[m] \in FrameKind
    BY <1>2, <1>3
  <2> QED
    BY <2>1 DEF FrameKind
<1>5. /\ turn.header =>
           turn.want = 2 /\ g < 2 /\ p = g + 1 /\ \A k \in 1..g : turn.got[k] = <<m, k>>
      /\ ~turn.header => turn.want = f[m].body /\ g < turn.want /\ p = 2 + g + 1
  <2>1. c \in sockets /\ ServingClient(c) /\ InStep(c)
    BY DEF MbcInv, ClientsKnown, ServingClient
  <2>2. Midway(c)
    BY <2>1 DEF InStep, Followed
  <2> QED
    BY <1>3, <2>2 DEF Midway, HeaderLen
<1>6. /\ part \in Seq(Unit) /\ Len(part) = n /\ \A k \in 1..n : part[k] = s[k]
  BY <1>1, <1>2
<1> HIDE DEF part
<1>7. /\ got \in Seq(Unit) /\ Len(got) = g + n
      /\ \A k \in 1..(g + n) : got[k] = IF k <= g THEN turn.got[k] ELSE part[k - g]
  BY <1>1, <1>6, ConcatProperties
<1> HIDE DEF got, g, m, p, f, s, u
<1>8. p + n - 1 <= HeaderLen + f[m].body
  <2>1. n <= turn.want - g
    BY DEF g
  <2>2. turn.header => p + n - 1 <= 2
    BY <1>1, <1>5, <2>1
  <2>3. ~turn.header => p + n - 1 <= 2 + f[m].body
    BY <1>1, <1>4, <1>5, <2>1
  <2>4. f[m].body \in Nat /\ p \in Nat
    BY <1>1, <1>4, <1>5
  <2>5. PICK b \in Nat : b = f[m].body
    BY <2>4
  <2>6. PICK x \in Int : x = p + n - 1
    BY <1>1, <2>4
  <2>7. x <= 2 \/ x <= 2 + b
    BY <2>2, <2>3, <2>5, <2>6
  <2>8. x <= 2 + b
    BY <2>5, <2>6, <2>7
  <2> QED
    BY <2>5, <2>6, <2>8 DEF HeaderLen
<1>9. /\ p \in Nat \ {0} /\ \A i \in 1..n : s[i] = <<m, p + i - 1>>
      /\ u = IF p + n - 1 < HeaderLen + f[m].body THEN <<m, p + n>> ELSE <<m + 1, 1>>
  <2>1. n <= Len(s) /\ u = NextOf(s, coming[c], n)
    BY DEF s, u
  <2> QED
    <3>1. s \in Seq(Unit) /\ coming[c] \in Unit /\ f \in Seq(FrameKind) /\ Ordered(s, coming[c], f) /\ s # <<>>
      BY <1>2
    <3>2. n \in 1..2 /\ s[1] = <<m, p>> /\ p + n - 1 <= HeaderLen + f[m].body /\ n <= Len(s)
      BY <1>1, <1>3, <1>8, <2>1
    <3>a. s[1][2] + n - 1 <= HeaderLen + f[s[1][1]].body
      BY <3>2
    <3>3. /\ m \in DOMAIN f /\ p \in Nat \ {0}
          /\ \A i \in 1..n : s[i] = <<m, p + i - 1>>
          /\ NextOf(s, coming[c], n) = IF p + n - 1 < HeaderLen + f[m].body THEN <<m, p + n>> ELSE <<m + 1, 1>>
      BY <3>1, <3>2, <3>a, WithinFrame DEF m, p
    <3> QED
      BY <3>3, <2>1
<1>10. turn.header => \A k \in 1..(g + n) : got[k] = <<m, k>>
  <2> SUFFICES ASSUME turn.header, NEW k \in 1..(g + n)
               PROVE  got[k] = <<m, k>>
    OBVIOUS
  <2>1. CASE k <= g
    <3>1. k \in 1..g
      BY <1>1, <2>1
    <3>2. got[k] = turn.got[k]
      BY <1>7, <2>1
    <3>3. turn.got[k] = <<m, k>>
      BY <1>5, <3>1
    <3> QED
      BY <3>2, <3>3
  <2>2. CASE k > g
    <3>1. k - g \in 1..n /\ p = g + 1
      BY <1>1, <1>5, <2>2
    <3>2. ~(k <= g)
      BY <1>1, <2>2
    <3>3. got[k] = part[k - g]
      BY <1>7, <3>2
    <3>4. part[k - g] = s[k - g]
      BY <1>6, <3>1
    <3>5. s[k - g] = <<m, p + (k - g) - 1>>
      BY <1>9, <3>1
    <3>6. p + (k - g) - 1 = k
      BY <1>1, <3>1
    <3> QED
      BY <3>3, <3>4, <3>5, <3>6
  <2> QED
    BY <1>1, <2>1, <2>2
<1>11. turn.header =>
         /\ g + n < 2 => u = <<m, g + n + 1>>
         /\ g + n = 2 => u = IF f[m].body > 0 THEN <<m, 3>> ELSE <<m + 1, 1>>
  <2>1. turn.header => p = g + 1
    BY <1>5
  <2>2. g \in Nat /\ n \in Nat /\ f[m].body \in 0..2
    BY <1>1, <1>4
  <2>3. turn.header /\ g + n < 2 => u = <<m, g + n + 1>>
    BY <1>9, <2>1, <2>2 DEF HeaderLen
  <2>4. turn.header /\ g + n = 2 => p + n - 1 = 2 /\ p + n = 3
    BY <2>1, <2>2
  <2>5. turn.header /\ g + n = 2 => u = IF f[m].body > 0 THEN <<m, 3>> ELSE <<m + 1, 1>>
    <3>1. u = IF p + n - 1 < 2 + f[m].body THEN <<m, p + n>> ELSE <<m + 1, 1>>
      BY <1>9 DEF HeaderLen
    <3>2. 2 < 2 + f[m].body <=> f[m].body > 0
      BY <2>2
    <3> QED
      BY <2>4, <3>1, <3>2
  <2> QED
    BY <2>3, <2>5
<1>12. ~turn.header =>
         /\ g + n < turn.want => u = <<m, 2 + (g + n) + 1>>
         /\ g + n = turn.want => u = <<m + 1, 1>>
  BY <1>1, <1>4, <1>5, <1>9 DEF HeaderLen
<1>13. /\ m \in DOMAIN f /\ got \in Seq(Unit) /\ Len(got) = g + n
       /\ turn.header =>
            /\ turn.want = HeaderLen /\ \A k \in 1..Len(got) : got[k] = <<m, k>>
            /\ Len(got) < HeaderLen => u = <<m, Len(got) + 1>>
            /\ Len(got) = HeaderLen =>
                 u = IF f[m].body > 0 THEN <<m, HeaderLen + 1>> ELSE <<m + 1, 1>>
       /\ ~turn.header =>
            /\ turn.want = f[m].body
            /\ Len(got) < turn.want => u = <<m, HeaderLen + Len(got) + 1>>
            /\ Len(got) = turn.want => u[2] = 1
  BY <1>3, <1>5, <1>7, <1>10, <1>11, <1>12 DEF HeaderLen
<1> QED
  BY <1>13 DEF ReadsOn, got, part, g, m, f, s, u

LEMMA TurnTyped ==
  ASSUME MbcInv, turn.at = "serve"
  PROVE  /\ turn \in Turn /\ turn.of \in Conn /\ turn.of \in sockets /\ turn.got \in Seq(Unit)
         /\ turn.want \in 1..2 /\ turn.header \in BOOLEAN
<1>1. turn \in Turn
  BY DEF MbcInv, MbcTypeOK, Selecting
<1> QED
  BY <1>1 DEF Turn, HeaderLen, MbcInv, ClientsKnown

LEMMA RecvFailsStep ==
  ASSUME MbcInv, RecvFails
  PROVE  MbcInv'
<1>1. /\ turn.at = "serve" /\ client_remove(turn.of) /\ NextClient /\ stream[turn.of] = <<>>
      /\ UNCHANGED <<mbLink, peer, coming, stream, backlog, misread, refused>>
  BY DEF RecvFails, NoMore, Served, network
<1>2. PICK c \in Conn : c = turn.of
  BY <1>1, TurnTyped
<1>3. c \in sockets /\ c \notin sockets' /\ c \notin backlog /\ peer[c].is # "new"
  BY <1>1, <1>2, TurnTyped DEF client_remove, MbcInv, ClientsKnown
<1>4. ~Followed(c)'
  BY <1>1, <1>3 DEF Followed
<1>5. stream' = [stream EXCEPT ![c] = SubSeq(stream[c], 0 + 1, Len(stream[c]))] /\ 0 \in 0..Len(stream[c])
  <2>1. \A s : s = <<>> => SubSeq(s, 0 + 1, Len(s)) = s /\ Len(s) = 0
    OBVIOUS
  <2> QED
    BY <1>1, <1>2, <2>1 DEF MbcInv, MbcTypeOK
<1>6. refused \subseteq Conn /\ misread \subseteq refused
  BY DEF MbcInv, MbcTypeOK, FramesInStep
<1> QED
  BY <1>1, <1>2, <1>4, <1>5, <1>6, FrameEnds

(* More units, and still not all that are waited for. *)
LEMMA MoreStep ==
  ASSUME MbcInv, NEW c \in Conn, turn.at = "serve", turn.of = c,
         NEW w \in 1..2, NEW h \in BOOLEAN, NEW got \in Seq(Unit), NEW n \in 0..Len(stream[c]),
         turn' = [turn EXCEPT !.got = got, !.want = w, !.header = h],
         stream' = [stream EXCEPT ![c] = SubSeq(stream[c], n + 1, Len(stream[c]))],
         UNCHANGED <<mbLink, peer, coming, backlog, client_list, sockets, refused>>,
         misread' \subseteq refused, Known(got, peer[c].frames),
         c \notin refused => Midway(c)'
  PROVE  MbcInv'
<1>1. /\ turn \in Turn /\ turn' \in Turn /\ turn'.at = "serve" /\ turn'.of = c
      /\ turn'.ready = turn.ready /\ turn'.got = got
  BY TurnTyped DEF Turn, HeaderLen
<1>2. stream[c] \in Seq(Unit) /\ coming[c] \in Unit /\ Ordered(stream[c], coming[c], peer[c].frames)
  BY FramesTyped DEF MbcInv, InStep
<1>3. stream'[c] = SubSeq(stream[c], n + 1, Len(stream[c])) /\ \A d \in Conn \ {c} : stream'[d] = stream[d]
  BY DEF MbcInv, MbcTypeOK
<1>4. stream'[c] \in Seq(Unit) /\ Ordered(stream'[c], coming[c], peer[c].frames)
  <2> DEFINE t == SubSeq(stream[c], n + 1, Len(stream[c]))
  <2>1. t \in Seq(Unit) /\ Ordered(t, coming[c], peer[c].frames)
    BY <1>2, OrderedRest
  <2> HIDE DEF t
  <2>2. stream'[c] = t
    BY <1>3 DEF t
  <2> QED
    BY <2>1, <2>2
<1>5. MbcTypeOK'
  BY <1>1, <1>3, <1>4 DEF MbcInv, MbcTypeOK
<1>6. ASSUME NEW d \in Conn
      PROVE  InStep(d)'
  <2>1. InStep(d)
    BY DEF MbcInv
  <2>2. Ordered(stream'[d], coming'[d], peer'[d].frames)
    BY <1>3, <1>4, <2>1 DEF InStep
  <2>3. CASE d = c
    BY <1>1, <2>2, <2>3 DEF InStep, Followed, ServingClient
  <2>4. CASE d # c
    <3>1. Followed(d)' = Followed(d) /\ ~ServingClient(d)' /\ ~ServingClient(d) /\ Between(d)' = Between(d)
      BY <1>1, <1>3, <2>4 DEF Followed, ServingClient, Between
    <3> QED
      BY <2>1, <2>2, <3>1 DEF InStep
  <2> QED
    BY <2>3, <2>4
<1>7. FramesInStep' /\ WatchesItsSockets' /\ ClientsKnown'
  BY <1>1 DEF MbcInv, FramesInStep, WatchesItsSockets, ClientsKnown
<1> QED
  BY <1>5, <1>6, <1>7 DEF MbcInv

LEMMA RecvStep ==
  ASSUME MbcInv, Recv
  PROVE  MbcInv'
<1>1. turn.at = "serve"
  BY DEF Recv
<1>2. PICK c \in Conn : c = turn.of
  BY <1>1, TurnTyped
<1>3. PICK n \in 1..(turn.want - Len(turn.got)) :
        /\ n <= Len(stream[c])
        /\ stream' = [stream EXCEPT ![c] = SubSeq(stream[c], n + 1, Len(stream[c]))]
        /\ LET got == turn.got \o SubSeq(stream[c], 1, n)
           IN IF Len(got) = turn.want
              THEN IF turn.header THEN AfterHeader(got) ELSE Handled /\ UNCHANGED <<misread, refused>>
              ELSE turn' = [turn EXCEPT !.got = got] /\ UNCHANGED <<client_list, sockets, misread, refused>>
        /\ UNCHANGED <<mbLink, peer, coming, backlog>>
  BY <1>2 DEF Recv, Served, Enough
<1> DEFINE got == turn.got \o SubSeq(stream[c], 1, n)
           m == stream[c][1][1]
           f == peer[c].frames
           u == NextOf(stream[c], coming[c], n)
<1>4. /\ turn \in Turn /\ turn.got \in Seq(Unit) /\ turn.want \in 1..2 /\ turn.header \in BOOLEAN
      /\ c \in sockets /\ stream[c] \in Seq(Unit) /\ coming[c] \in Unit /\ f \in Seq(FrameKind)
      /\ refused \subseteq Conn /\ misread \subseteq refused
  BY <1>1, <1>2, TurnTyped, FramesTyped DEF MbcInv, MbcTypeOK, FramesInStep
<1>5. n \in 1..2 /\ n \in 0..Len(stream[c])
  BY <1>3, <1>4
<1>6. got \in Seq(Unit) /\ Len(got) = Len(turn.got) + n
  <2>1. SubSeq(stream[c], 1, n) \in Seq(Unit) /\ Len(SubSeq(stream[c], 1, n)) = n
    BY <1>4, <1>5
  <2> QED
    BY <1>4, <2>1, ConcatProperties
<1>a. Known(got, f)
  <2>1. Known(turn.got, f) /\ Ordered(stream[c], coming[c], f)
    BY <1>1, <1>2 DEF MbcInv, InStep, ServingClient
  <2>2. /\ SubSeq(stream[c], 1, n) \in Seq(Unit) /\ Len(SubSeq(stream[c], 1, n)) = n
        /\ \A k \in 1..n : SubSeq(stream[c], 1, n)[k] = stream[c][k]
    BY <1>4, <1>5
  <2>3. \A k \in 1..(Len(turn.got) + n) :
          got[k] = IF k <= Len(turn.got) THEN turn.got[k] ELSE SubSeq(stream[c], 1, n)[k - Len(turn.got)]
    BY <1>4, <2>2, ConcatProperties
  <2> HIDE DEF got, f
  <2> SUFFICES ASSUME NEW k \in 1..(Len(turn.got) + n)
               PROVE  got[k][1] \in DOMAIN f
    BY <1>6 DEF Known
  <2>4. Len(turn.got) \in Nat
    BY <1>4
  <2>5. CASE k <= Len(turn.got)
    BY <2>1, <2>3, <2>4, <2>5 DEF Known
  <2>6. CASE k > Len(turn.got)
    <3>1. k - Len(turn.got) \in 1..n /\ k - Len(turn.got) \in 1..Len(stream[c])
      BY <1>4, <1>5, <2>4, <2>6, SMTT(30)
    <3>2. got[k] = stream[c][k - Len(turn.got)]
      BY <2>2, <2>3, <2>4, <2>6, <3>1
    <3> QED
      BY <2>1, <3>1, <3>2 DEF Ordered
  <2> QED
    BY <2>4, <2>5, <2>6
<1>7. c \notin refused =>
        /\ m \in DOMAIN f
        /\ turn.header =>
             /\ turn.want = HeaderLen /\ \A k \in 1..Len(got) : got[k] = <<m, k>>
             /\ Len(got) < HeaderLen => u = <<m, Len(got) + 1>>
             /\ Len(got) = HeaderLen =>
                  u = IF f[m].body > 0 THEN <<m, HeaderLen + 1>> ELSE <<m + 1, 1>>
        /\ ~turn.header =>
             /\ turn.want = f[m].body
             /\ Len(got) < turn.want => u = <<m, HeaderLen + Len(got) + 1>>
             /\ Len(got) = turn.want => u[2] = 1
  <2>1. c \notin refused => ReadsOn(c, n)
    BY <1>1, <1>2, <1>3, ReadInStep
  <2> QED
    BY <2>1 DEF ReadsOn
<1>8. stream'[c] = SubSeq(stream[c], n + 1, Len(stream[c])) /\ NextOf(stream'[c], coming[c], 0) = u
  <2>1. stream'[c] = SubSeq(stream[c], n + 1, Len(stream[c]))
    BY <1>3 DEF MbcInv, MbcTypeOK
  <2>2. Ordered(stream[c], coming[c], f)
    BY DEF MbcInv, InStep
  <2> QED
    BY <1>4, <1>5, <2>1, <2>2, OrderedRest
<1>9. /\ IF Len(got) = turn.want
         THEN IF turn.header THEN AfterHeader(got) ELSE Handled /\ UNCHANGED <<misread, refused>>
         ELSE turn' = [turn EXCEPT !.got = got] /\ UNCHANGED <<client_list, sockets, misread, refused>>
      /\ UNCHANGED <<mbLink, peer, coming, backlog>>
  BY <1>3
<1> HIDE DEF got, m, f, u
<1>10. CASE Len(got) # turn.want
  <2>1. turn' = [turn EXCEPT !.got = got] /\ UNCHANGED <<client_list, sockets, misread, refused>>
    BY <1>9, <1>10
  <2>2. turn' = [turn EXCEPT !.got = got, !.want = turn.want, !.header = turn.header]
    BY <1>4, <2>1 DEF Turn
  <2>3. turn'.got = got /\ turn'.want = turn.want /\ turn'.header = turn.header
    BY <1>4, <2>1 DEF Turn
  <2>4. Len(got) < turn.want /\ Len(got) \in Nat
    BY <1>3, <1>4, <1>6, <1>10
  <2>5. c \notin refused => Midway(c)'
    <3> SUFFICES ASSUME c \notin refused
                 PROVE  Midway(c)'
      OBVIOUS
    <3>1. NextOf(stream', coming', 0) = NextOf(stream', coming', 0)
      OBVIOUS
    <3>2. CASE turn.header
      <4>1. turn.want = HeaderLen /\ u = <<m, Len(got) + 1>> /\ \A k \in 1..Len(got) : got[k] = <<m, k>>
        BY <1>7, <2>4, <3>2
      <4> QED
        BY <1>8, <1>9, <2>3, <2>4, <3>2, <4>1 DEF Midway
    <3>3. CASE ~turn.header
      <4>1. turn.want = f[m].body /\ u = <<m, HeaderLen + Len(got) + 1>> /\ m \in DOMAIN f
        BY <1>7, <2>4, <3>3
      <4>2. peer'[c].frames = f
        BY <1>9 DEF f
      <4> QED
        BY <1>8, <1>9, <2>3, <2>4, <3>3, <4>1, <4>2 DEF Midway
    <3> QED
      BY <3>2, <3>3
  <2>6. misread' \subseteq refused /\ Known(got, peer[c].frames)
    BY <1>4, <1>a, <2>1 DEF f
  <2>7. stream' = [stream EXCEPT ![c] = SubSeq(stream[c], n + 1, Len(stream[c]))]
    BY <1>3
  <2> QED
    BY <1>1, <1>2, <1>4, <1>5, <1>6, <1>9, <2>1, <2>2, <2>5, <2>6, <2>7, MoreStep
<1>11. CASE Len(got) = turn.want /\ ~turn.header
  <2>1. Handled /\ UNCHANGED <<misread, refused>>
    BY <1>9, <1>11
  <2>2. Followed(c)' => u[2] = 1
    BY <1>7, <1>11, <2>1 DEF Followed
  <2> QED
    BY <1>1, <1>2, <1>3, <1>4, <1>5, <1>9, <2>1, <2>2, FrameEnds DEF Handled, Served, u
<1>12. CASE Len(got) = turn.want /\ turn.header
  <2>1. PICK x \in Meanings(got) :
          /\ IF x.kind = "refused" \/ x.body = 0 THEN Handled
             ELSE /\ turn' = [turn EXCEPT !.got = <<>>, !.want = x.body, !.header = FALSE]
                  /\ UNCHANGED <<client_list, sockets>>
          /\ refused' = IF x.kind = "refused" THEN refused \cup {c} ELSE refused
          /\ misread' = IF got[1][2] = 1 THEN misread ELSE misread \cup {c}
    BY <1>2, <1>9, <1>12 DEF AfterHeader, Served
  <2>2. c \notin refused => /\ got = <<<<m, 1>>, <<m, 2>>>> /\ got[1] = <<m, 1>> /\ x = f[m]
                            /\ u = IF x.body > 0 THEN <<m, HeaderLen + 1>> ELSE <<m + 1, 1>>
    <3> SUFFICES ASSUME c \notin refused
                 PROVE  /\ got = <<<<m, 1>>, <<m, 2>>>> /\ got[1] = <<m, 1>> /\ x = f[m]
                        /\ u = IF x.body > 0 THEN <<m, HeaderLen + 1>> ELSE <<m + 1, 1>>
      OBVIOUS
    <3>1. /\ Len(got) = 2 /\ \A k \in 1..2 : got[k] = <<m, k>>
          /\ u = IF f[m].body > 0 THEN <<m, HeaderLen + 1>> ELSE <<m + 1, 1>>
      BY <1>7, <1>12 DEF HeaderLen
    <3>2. got[1] = <<m, 1>> /\ got[2] = <<m, 2>>
      BY <3>1
    <3>3. got = <<<<m, 1>>, <<m, 2>>>>
      BY <1>6, <3>1, <3>2
    <3>4. Meanings(got) = {f[m]}
      BY <1>2, <3>2, <3>3 DEF Meanings, Served, f
    <3> QED
      BY <2>1, <3>1, <3>2, <3>3, <3>4
  <2>3. x \in FrameKind
    <3>1. got[1][1] \in DOMAIN f
      BY <1>4, <1>6, <1>12, <1>a DEF Known
    <3>2. peer[c].frames[got[1][1]] \in FrameKind
      BY <1>4, <3>1 DEF f
    <3> QED
      BY <1>2, <2>1, <3>2 DEF Meanings, Served
  <2>4. refused \subseteq refused' /\ refused' \subseteq Conn /\ misread' \subseteq refused'
    <3>1. CASE c \in refused
      BY <1>4, <2>1, <3>1
    <3>2. CASE c \notin refused
      BY <1>4, <2>1, <2>2, <3>2
    <3> QED
      BY <3>1, <3>2
  <2>5. CASE x.kind = "refused" \/ x.body = 0
    <3>1. Handled
      BY <2>1, <2>5
    <3>2. Followed(c)' => u[2] = 1
      BY <2>1, <2>2, <2>4, <2>5 DEF Followed
    <3> QED
      BY <1>1, <1>2, <1>3, <1>4, <1>5, <1>9, <2>4, <3>1, <3>2, FrameEnds DEF Handled, Served, u
  <2>6. CASE ~(x.kind = "refused" \/ x.body = 0)
    <3>1. /\ turn' = [turn EXCEPT !.got = <<>>, !.want = x.body, !.header = FALSE]
          /\ UNCHANGED <<client_list, sockets, refused>>
      BY <2>1, <2>6
    <3>2. x.body \in 1..2
      BY <2>3, <2>6 DEF FrameKind
    <3>3. \A s : s = <<>> => s \in Seq(Unit) /\ Len(s) = 0 /\ Known(s, f)
      BY DEF Known
    <3>4. /\ turn'.got = <<>> /\ turn'.want = x.body /\ ~turn'.header
      BY <1>4, <3>1 DEF Turn
    <3>5. c \notin refused => Midway(c)'
      <4> SUFFICES ASSUME c \notin refused
                   PROVE  Midway(c)'
        OBVIOUS
      <4>1. u = <<m, HeaderLen + 1>> /\ x = f[m] /\ m \in DOMAIN f
        BY <1>7, <2>2, <3>2
      <4>2. peer'[c].frames = f /\ HeaderLen + Len(turn'.got) + 1 = HeaderLen + 1 /\ Len(turn'.got) < x.body
        BY <1>9, <3>2, <3>3, <3>4 DEF f, HeaderLen
      <4> QED
        BY <1>8, <1>9, <3>4, <4>1, <4>2 DEF Midway
    <3>6. stream' = [stream EXCEPT ![c] = SubSeq(stream[c], n + 1, Len(stream[c]))]
      BY <1>3
    <3>7. misread' \subseteq refused /\ Known(<<>>, peer[c].frames) /\ <<>> \in Seq(Unit) /\ FALSE \in BOOLEAN
      BY <2>4, <3>1, <3>3 DEF f
    <3> QED
      BY <1>1, <1>2, <1>5, <1>9, <3>1, <3>2, <3>5, <3>6, <3>7, MoreStep
  <2> QED
    BY <2>5, <2>6
<1> QED
  BY <1>4, <1>10, <1>11, <1>12
-----------------------------------------------------------------------------
(* The theorems *)

LEMMA MbcInvStep == MbcInv /\ [MbcNext]_mbcVars => MbcInv'
<1> SUFFICES ASSUME MbcInv, [MbcNext]_mbcVars
             PROVE  MbcInv'
  OBVIOUS
<1>1. CASE LinkChanges
  <2>1. UNCHANGED <<peer, coming, stream, backlog, sockets, client_list, turn, misread, refused>> /\ mbLink' \in BOOLEAN
    BY <1>1 DEF LinkChanges, MbcInv, MbcTypeOK
  <2> QED
    BY <2>1 DEF MbcInv, MbcTypeOK, FramesInStep, WatchesItsSockets, ClientsKnown, InStep, Followed,
                ServingClient, Midway, Between
<1>2. CASE UNCHANGED mbcVars
  BY <1>2 DEF MbcInv, MbcTypeOK, FramesInStep, WatchesItsSockets, ClientsKnown, InStep, Followed,
              ServingClient, Midway, Between, mbcVars
<1> QED
  BY <1>1, <1>2, ConnectStep, ArrivesStep, PeerClosesStep, SelectStep, SessionTimeoutStep, RecvStep,
     RecvFailsStep DEF MbcNext, mb_tcp_thread

(* Whatever recv returns at a time, a frame is read from its first byte to *)
(* its last, unless the client sent one whose header the thread refuses    *)
(* (tcp.c:112, :162).                                                      *)
THEOREM FramesInStepCorrect == MbcSpec => []FramesInStep
<1>1. MbcInv => FramesInStep
  BY DEF MbcInv
<1> QED
  BY MbcInitInv, MbcInvStep, <1>1, PTL DEF MbcSpec

(* The thread closes every socket it does not watch, and watches none      *)
(* twice, however a client goes away (client_add, client_remove).          *)
THEOREM WatchesCorrect == MbcSpec => []WatchesItsSockets
<1>1. MbcInv => WatchesItsSockets
  BY DEF MbcInv
<1> QED
  BY MbcInitInv, MbcInvStep, <1>1, PTL DEF MbcSpec
=============================================================================
