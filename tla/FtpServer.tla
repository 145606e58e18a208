----------------------------- MODULE FtpServer -----------------------------
(***************************************************************************)
(* The FTP server of io-edge-hub, ftpd.c: one thread that selects among    *)
(* the control connections, executes one command at a time and stays with  *)
(* it until its transfer ends.                                             *)
(*                                                                         *)
(* A path is the sequence of its names; there are no subdirectories to be  *)
(* made.  Passwords, replies and listings are left out.                    *)
(***************************************************************************)
EXTENDS Naturals, Sequences, FiniteSets

CONSTANTS
  Session,     \* sessions[FTP_MAX_CLIENTS]
  Socket,      \* the sockets Zephyr has for listening
  Text,        \* what clients store, and what files hold at first
  Block,       \* FTP_BUF_SIZE, what a transfer moves at once
  FtpName,     \* names in paths
  MaxParts,    \* parts[] of norm_path
  MaxFile,     \* bound: how long a stored file gets
  Habits,      \* bound: the sets of commands and faults that occur together
  CR, LF, NoSocket, Gone

FtpSession ==
  [authed : BOOLEAN, anon : BOOLEAN, data_listen : Socket \cup {NoSocket}, data_is_port : BOOLEAN,
   type_ascii : BOOLEAN, rest : 0..Block, rename_from : Seq(FtpName) \cup {Gone}, cwd : Seq(FtpName)]

ASSUME FtpAssumption ==
  /\ {Block, MaxParts, MaxFile} \subseteq Nat \ {0}
  /\ CR # LF /\ NoSocket \notin Socket /\ ".." \notin FtpName /\ Gone \notin FtpSession

VARIABLES
  habit,       \* commands and faults that occur, "alone", "idle"; never changes
  sessions,    \* the sessions, or Gone
  listening,   \* sockets open for listening, the kernel's view
  aged,        \* sessions whose last_activity is over 120 s old
  files,       \* path -> contents
  xfer         \* the transfer under way, or Gone

ftpVars == <<habit, sessions, listening, aged, files, xfer>>

Min2(a, b) == IF a < b THEN a ELSE b
NewSession == [authed |-> FALSE, anon |-> FALSE, data_listen |-> NoSocket, data_is_port |-> FALSE,
               type_ascii |-> FALSE, rest |-> 0, rename_from |-> Gone, cwd |-> <<>>]

FtpTypeOK ==
  /\ habit \in Habits
  /\ sessions \in [Session -> FtpSession \cup {Gone}]
  /\ \A i \in Session : sessions[i] # Gone => Len(sessions[i].cwd) <= MaxParts
  /\ listening \subseteq Socket /\ aged \subseteq Session
  /\ xfer = Gone \/ (xfer.at \in {"connect", "data"} /\ xfer.of \in Session /\ sessions[xfer.of] # Gone)

FtpDisk == {[p \in {<<n>>} |-> t] : n \in FtpName, t \in Text}

FtpInit ==
  /\ habit \in Habits
  /\ sessions = [i \in Session |-> Gone]
  /\ listening = {} /\ aged = {} /\ xfer = Gone
  /\ files \in FtpDisk

FtpIdle(i) == xfer = Gone /\ sessions[i] # Gone
Set(i, s) == sessions' = [sessions EXCEPT ![i] = s]

(* norm_path: an absolute path starts at the root, ".." at the root stays   *)
(* there, and what is deeper than MaxParts is left out.                     *)
Step(path, name) ==
  IF name = ".." THEN SubSeq(path, 1, Len(path) - 1)
  ELSE IF Len(path) < MaxParts THEN Append(path, name) ELSE path
norm_path(cwd, input) ==
  LET walk[n \in 0..Len(input)] == IF n = 0 THEN cwd ELSE Step(walk[n - 1], input[n])
  IN walk[Len(input)]

Input == {<<n>> : n \in FtpName \cup {".."}}

-----------------------------------------------------------------------------
(* Connections *)

(* The first free session; without one the client is sent away. *)
Accept ==
  /\ xfer = Gone
  /\ \E i \in Session :
       /\ sessions[i] = Gone /\ \A j \in Session : j < i => sessions[j] # Gone
       /\ "alone" \in habit => \A j \in Session : sessions[j] = Gone
       /\ Set(i, NewSession) /\ aged' = aged \ {i}
  /\ UNCHANGED <<habit, listening, files, xfer>>

(* close_session: the client is gone, or idle for more than 120 s. *)
Close(i) ==
  /\ FtpIdle(i)
  /\ Set(i, Gone)
  /\ listening' = listening \ {sessions[i].data_listen}
  /\ aged' = aged \ {i}
  /\ UNCHANGED <<habit, files, xfer>>

ClientGone(i) == Close(i)
IdleTimeout(i) == i \in aged /\ Close(i)

(* A listening socket that a session has is not closed. *)
Quit(i) ==
  /\ FtpIdle(i) /\ "QUIT" \in habit
  /\ Set(i, Gone) /\ aged' = aged \ {i}
  /\ UNCHANGED <<habit, listening, files, xfer>>

TimePasses == /\ "idle" \in habit /\ aged' = Session
              /\ UNCHANGED <<habit, sessions, listening, files, xfer>>

-----------------------------------------------------------------------------
(* Commands without a transfer *)

FtpDo(i, name) == FtpIdle(i) /\ name \in habit /\ aged' = aged \ {i} /\ UNCHANGED <<habit, xfer>>
Quiet(i, name, s) == FtpDo(i, name) /\ Set(i, s) /\ UNCHANGED <<listening, files>>
MayWrite(i) == sessions[i].authed /\ ~sessions[i].anon

User(i) == \E a \in BOOLEAN : Quiet(i, "USER", [sessions[i] EXCEPT !.anon = a, !.rename_from = Gone])
Pass(i) == \E right \in BOOLEAN :
  Quiet(i, "PASS", [sessions[i] EXCEPT !.authed = sessions[i].anon \/ right])
Type(i) == \E a \in BOOLEAN : Quiet(i, "TYPE", [sessions[i] EXCEPT !.type_ascii = a])
Rest(i) == \E n \in 1..Block : Quiet(i, "REST", [sessions[i] EXCEPT !.rest = n])
Cwd(i) == \E p \in Input : Quiet(i, "CWD", [sessions[i] EXCEPT !.cwd = norm_path(@, p)])
Size(i) == Quiet(i, "SIZE", sessions[i])
Noop(i) == Quiet(i, "NOOP", sessions[i])

(* Mutant: the socket of an earlier PASV is forgotten. *)
ListenForgets(i, name) ==
  /\ FtpDo(i, name)
  /\ \E d \in Socket \ listening :
       /\ listening' = listening \cup {d}
       /\ Set(i, [sessions[i] EXCEPT !.data_is_port = FALSE, !.data_listen = d])
  /\ UNCHANGED files

(* The earlier socket goes, the new one may not be had. *)
Listen(i, name) == LET rest == listening \ {sessions[i].data_listen} IN
  /\ FtpDo(i, name)
  /\ \/ /\ listening' = rest
        /\ Set(i, [sessions[i] EXCEPT !.data_is_port = FALSE, !.data_listen = NoSocket])
     \/ \E d \in Socket \ rest :
          /\ listening' = rest \cup {d}
          /\ Set(i, [sessions[i] EXCEPT !.data_is_port = FALSE, !.data_listen = d])
  /\ UNCHANGED files

Pasv(i) == Listen(i, "PASV")
Epsv(i) == Listen(i, "EPSV")

Active(i, name) ==
  /\ FtpDo(i, name)
  /\ listening' = listening \ {sessions[i].data_listen}
  /\ Set(i, [sessions[i] EXCEPT !.data_is_port = TRUE, !.data_listen = NoSocket])
  /\ UNCHANGED files

Port(i) == Active(i, "PORT")
Eprt(i) == Active(i, "EPRT")

Without(p) == [q \in DOMAIN files \ {p} |-> files[q]]

Dele(i) == \E p \in Input : LET path == norm_path(sessions[i].cwd, p) IN
  /\ FtpDo(i, "DELE")
  /\ files' = IF MayWrite(i) THEN Without(path) ELSE files
  /\ UNCHANGED <<sessions, listening>>

Rnfr(i) == \E p \in Input : LET path == norm_path(sessions[i].cwd, p) IN
  Quiet(i, "RNFR", IF MayWrite(i) /\ path \in DOMAIN files
                   THEN [sessions[i] EXCEPT !.rename_from = path] ELSE sessions[i])

Rnto(i) == \E p \in Input :
  LET from == sessions[i].rename_from
      to == norm_path(sessions[i].cwd, p)
  IN /\ FtpDo(i, "RNTO")
     /\ files' = IF MayWrite(i) /\ from \in DOMAIN files /\ from # to /\ to # <<>>
                 THEN [q \in DOMAIN Without(from) \cup {to} |-> IF q = to THEN files[from] ELSE files[q]]
                 ELSE files
     /\ Set(i, [sessions[i] EXCEPT !.rename_from = Gone])
     /\ UNCHANGED listening

-----------------------------------------------------------------------------
(* Transfers *)

(* A refused transfer drops the data connection that was prepared. *)
Refuse(i, rest) ==
  /\ Set(i, [sessions[i] EXCEPT !.data_listen = NoSocket, !.data_is_port = FALSE, !.rest = rest])
  /\ listening' = listening \ {sessions[i].data_listen}
  /\ UNCHANGED <<files, xfer>>

(* base, start, data and torn are history: the file at the start, the offset, *)
(* what the client sends, whether a block ended within CR LF.                 *)
Transfer(i, kind, path, pos, data, base) ==
  /\ xfer' = [of |-> i, kind |-> kind, at |-> "connect", path |-> path, pos |-> pos, in |-> data,
              out |-> <<>>, cr |-> FALSE, base |-> base, start |-> pos, data |-> data,
              torn |-> FALSE]
  /\ UNCHANGED <<sessions, listening>>

Beginning(i, name) ==
  FtpIdle(i) /\ name \in habit /\ aged' = aged \ {i} /\ UNCHANGED habit

(* LIST and NLST: a path that is not there drops the socket, but not PORT. *)
List(i) ==
  /\ Beginning(i, "LIST")
  /\ \/ /\ Set(i, [sessions[i] EXCEPT !.data_listen = NoSocket])
        /\ listening' = listening \ {sessions[i].data_listen}
        /\ UNCHANGED <<files, xfer>>
     \/ Transfer(i, "list", <<>>, 0, <<>>, <<>>) /\ UNCHANGED files

Retr(i) == \E p \in Input : LET path == norm_path(sessions[i].cwd, p) IN
  /\ Beginning(i, "RETR")
  /\ IF sessions[i].authed /\ path \in DOMAIN files
     THEN \/ Transfer(i, "retr", path, sessions[i].rest, <<>>, files[path]) /\ UNCHANGED files
          \/ "fault" \in habit /\ Refuse(i, 0)     \* fs_seek fails
     ELSE Refuse(i, sessions[i].rest)

(* The file is truncated, or goes on at the offset of REST or at its end. *)
Stor(i) == \E p \in Input, append \in BOOLEAN, data \in Text :
  LET path == norm_path(sessions[i].cwd, p)
      old == IF path \in DOMAIN files THEN files[path] ELSE <<>>
      kept == IF append \/ sessions[i].rest > 0 THEN old ELSE <<>>
  IN /\ Beginning(i, "STOR")
     /\ Len(kept) + Len(data) <= MaxFile
     /\ IF MayWrite(i) /\ path # <<>>
        THEN /\ Transfer(i, "stor", path, IF append THEN Len(old) ELSE sessions[i].rest, data, kept)
             /\ files' = [q \in DOMAIN files \cup {path} |-> IF q = path THEN kept ELSE files[q]]
        ELSE Refuse(i, sessions[i].rest)

(* open_data has the socket of PASV closed whether the client connects or *)
(* not; it does not wait longer than 15 s.                                *)
DataOpened(ok) == LET i == xfer.of IN
  /\ Set(i, [sessions[i] EXCEPT !.data_is_port = FALSE,
             !.data_listen = IF sessions[i].data_is_port THEN @ ELSE NoSocket,
             !.rest = IF ok \/ xfer.kind = "list" THEN @ ELSE 0])
  /\ listening' = IF sessions[i].data_is_port THEN listening
                  ELSE listening \ {sessions[i].data_listen}
  /\ xfer' = IF ok THEN [xfer EXCEPT !.at = "data"] ELSE Gone
  /\ UNCHANGED <<habit, aged, files>>

AtConnect == xfer # Gone /\ xfer.at = "connect"
Prepared(i) == sessions[i].data_is_port \/ sessions[i].data_listen # NoSocket

DataConnected == AtConnect /\ Prepared(xfer.of) /\ DataOpened(TRUE)

(* Mutant: accept waits for the client. *)
NotConnectedBlocks == AtConnect /\ ~Prepared(xfer.of) /\ DataOpened(FALSE)

NotConnected == AtConnect /\ DataOpened(FALSE)

(* ascii_crlf *)
Doubled(b) ==
  LET out[n \in 0..Len(b)] ==
        IF n = 0 THEN <<>> ELSE IF b[n] = LF THEN out[n - 1] \o <<CR, LF>> ELSE Append(out[n - 1], b[n])
  IN out[Len(b)]

(* Mutant: a block is no longer for the CRs it gets. *)
ToNetCut(b) == SubSeq(Doubled(b), 1, Min2(Block, Len(Doubled(b))))

ToNet(b) == Doubled(b)

(* b without each CR that LF follows; "last" stands behind its end. *)
WithoutCR(b, last) ==
  LET pair == [n \in DOMAIN b |-> <<b[n], IF n < Len(b) THEN b[n + 1] ELSE last>>]
      kept == SelectSeq(pair, LAMBDA p : p # <<CR, LF>>)
  IN [n \in DOMAIN kept |-> kept[n][1]]

(* A CR at the end of a block is held back, and an LF that follows it is *)
(* taken out with it.                                                    *)
ascii_strip_cr(b, cr) == WithoutCR(IF cr /\ b[1] = LF THEN Tail(b) ELSE b, LF)

(* Overwritten from pos on; a gap is filled. *)
Written(f, pos, b) ==
  [n \in 1..(IF Len(f) > pos + Len(b) THEN Len(f) ELSE pos + Len(b)) |->
     IF n > pos /\ n <= pos + Len(b) THEN b[n - pos] ELSE IF n <= Len(f) THEN f[n] ELSE 0]

Moving(kind) == xfer # Gone /\ xfer.at = "data" /\ xfer.kind = kind
Fault == IF "fault" \in habit THEN BOOLEAN ELSE {FALSE}
Ascii == sessions[xfer.of].type_ascii

(* A block of the file; that send_all failed is not looked at. *)
Send == /\ Moving("retr") /\ xfer.pos < Len(files[xfer.path])
        /\ LET f == files[xfer.path]
               b == SubSeq(f, xfer.pos + 1, Min2(Len(f), xfer.pos + Block))
           IN \E lost \in Fault :
                xfer' = [xfer EXCEPT !.pos = @ + Len(b),
                         !.out = IF lost THEN @ ELSE @ \o (IF Ascii THEN ToNet(b) ELSE b)]
        /\ UNCHANGED <<habit, sessions, listening, aged, files>>

(* What recv has got, up to a buffer full. *)
Store == \E n \in 1..Block :
  /\ Moving("stor") /\ n <= Len(xfer.in)
  /\ LET b == SubSeq(xfer.in, 1, n)
         w == IF Ascii THEN ascii_strip_cr(b, xfer.cr) ELSE b
     IN /\ files' = [files EXCEPT ![xfer.path] = Written(@, xfer.pos, w)]
        /\ xfer' = [xfer EXCEPT !.in = SubSeq(@, n + 1, Len(@)), !.pos = @ + Len(w),
                    !.cr = b[n] = CR, !.torn = @ \/ b[n] = CR]
  /\ UNCHANGED <<habit, sessions, listening, aged>>

Ended(i) == [sessions[i] EXCEPT !.rest = IF xfer.kind = "list" THEN @ ELSE 0]

(* 226: at the end of the data, and after a failed recv or fs_write. *)
Ends ==
  /\ \/ Moving("list")
     \/ Moving("retr") /\ xfer.pos >= Len(files[xfer.path])
     \/ Moving("stor") /\ (xfer.in = <<>> \/ TRUE \in Fault)
  /\ Set(xfer.of, Ended(xfer.of))
  /\ xfer' = Gone
  /\ UNCHANGED <<habit, listening, aged, files>>

FtpCommand(i) ==
  \/ User(i) \/ Pass(i) \/ Type(i) \/ Rest(i) \/ Cwd(i) \/ Size(i) \/ Noop(i)
  \/ Pasv(i) \/ Epsv(i) \/ Port(i) \/ Eprt(i) \/ Dele(i) \/ Rnfr(i) \/ Rnto(i)
  \/ List(i) \/ Retr(i) \/ Stor(i) \/ Quit(i)

FtpTransfer == DataConnected \/ NotConnected \/ Send \/ Store \/ Ends

FtpNext ==
  \/ Accept \/ TimePasses \/ FtpTransfer
  \/ \E i \in Session : ClientGone(i) \/ IdleTimeout(i) \/ FtpCommand(i)

(* The thread runs; the client owes it nothing. *)
FtpFairness == WF_ftpVars(NotConnected \/ Send \/ Store \/ Ends)

FtpSpec == FtpInit /\ [][FtpNext]_ftpVars /\ FtpFairness
-----------------------------------------------------------------------------
(* Properties *)

(* The sockets that listen are those the sessions have: no PASV, failed or   *)
(* refused transfer, lost client or timeout leaves one open that nobody will *)
(* close.  A client that says QUIT after PASV does.                          *)
FtpListeners ==
  "QUIT" \notin habit =>
    listening = {sessions[i].data_listen : i \in {j \in Session : sessions[j] # Gone}} \ {NoSocket}

Reached(kind) == Moving(kind) /\ xfer' = Gone /\ "fault" \notin habit

(* A transfer that ended with 226 and met no fault has moved the file: what  *)
(* is stored, or sent, is the conversion of the whole from the offset on,    *)
(* however the network cut it into blocks.  As text, if no block ended       *)
(* between CR and LF.                                                        *)
EndsWhole ==
  /\ Reached("stor") /\ ~(Ascii /\ xfer.torn) =>
       files[xfer.path] =
         Written(xfer.base, xfer.start, IF Ascii THEN WithoutCR(xfer.data, Gone) ELSE xfer.data)
  /\ Reached("retr") =>
       LET b == SubSeq(xfer.base, xfer.start + 1, Len(xfer.base))
       IN xfer.out = (IF Ascii THEN Doubled(b) ELSE b)

(* ftpd.c:228: STOR as text turns CR LF into LF, pending_cr joining a CR at  *)
(* the end of a block with the LF of the next one.                           *)
StoredText ==
  [][Reached("stor") /\ Ascii =>
       files[xfer.path] = Written(xfer.base, xfer.start, WithoutCR(xfer.data, Gone))]_ftpVars

(* Nobody is kept waiting by a client that asks for a transfer and does not  *)
(* open its data connection: the thread goes back to select.                 *)
FtpServes == xfer # Gone ~> xfer = Gone
=============================================================================
