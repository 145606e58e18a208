----------------------------- MODULE MCEdgeHub -----------------------------
(***************************************************************************)
(* The parts of io-edge-hub that share no state, for TLC, each in turn:    *)
(* the registers, the web server, the FTP server, and Modbus TCP in two    *)
(* halves; and those of canopen-io.  A behaviour is one of the application *)
(* and the part that Init chooses.                                         *)
(***************************************************************************)
EXTENDS CoRegisters, CanopenIo, TLC

VARIABLES app, part

edgeVars == <<app, part, ioVars, coVars, webVars, ftpVars, mbVars, mbcVars>>

EdgeInit ==
  /\ app \in {"io-edge-hub", "canopen-io"}
  /\ part \in {"io", "web", "ftp", "mb", "mbc"}
  /\ IoInit /\ CoInit /\ WebInit /\ FtpInit /\ MbInit /\ MbcInit
  \* the instances of the parts that stand still make no difference
  /\ ~(part = "io" /\ app = "io-edge-hub") => may = CHOOSE m \in Installation : TRUE
  /\ ~(part = "io" /\ app = "canopen-io") => coMay = CHOOSE m \in CoInstallation : TRUE
  /\ part # "web" => visits = (CHOOSE v \in Visits : TRUE) /\ bytes = 0
  /\ part # "ftp" => habit = (CHOOSE h \in Habits : TRUE) /\ files = CHOOSE f \in FtpDisk : TRUE
  /\ part # "mbc" => \A c \in Conn : peer[c].frames = CHOOSE f \in Frames : TRUE

Hub == app = "io-edge-hub"
EdgeNext ==
  /\ UNCHANGED <<app, part>>
  /\ \/ /\ part = "io" /\ UNCHANGED <<webVars, ftpVars, mbVars, mbcVars>>
        /\ \/ Hub /\ IoNext /\ UNCHANGED coVars
           \/ ~Hub /\ CoNext /\ UNCHANGED ioVars
     \/ /\ part = "web" /\ UNCHANGED <<ioVars, coVars, ftpVars, mbVars, mbcVars>>
        /\ (Hub /\ WebNext) \/ (~Hub /\ CoWebNext)
     \/ /\ part = "ftp" /\ UNCHANGED <<ioVars, coVars, webVars, mbVars, mbcVars>>
        /\ (Hub /\ FtpNext) \/ (~Hub /\ CoFtpNext)
     \/ /\ part = "mb" /\ UNCHANGED <<ioVars, coVars, webVars, ftpVars, mbcVars>>
        /\ (Hub /\ MbNext) \/ (~Hub /\ CoMbNext)
     \/ /\ part = "mbc" /\ UNCHANGED <<ioVars, coVars, webVars, ftpVars, mbVars>>
        /\ (Hub /\ MbcNext) \/ (~Hub /\ CoMbcNext)

EdgeSpec ==
  /\ EdgeInit /\ [][EdgeNext]_edgeVars
  /\ FtpFairness /\ MbFairness /\ MbcFairness

(* The copies of the outputs agree, in io-edge-hub the register and the     *)
(* pins, in canopen-io the object 0x2002 as well (dio.c, app_od.c).         *)
OutputsAgree == RegistersAgree /\ CoOutputsAgree

(* A restart brings back the address that was set last (udp.c, shell.c).    *)
AddressKept == AddressPersists /\ CoAddressPersists

(* Neither the FTP server nor the Modbus TCP thread nor a WebSocket         *)
(* connection loses track of its socket, whichever way a session or a       *)
(* client goes away.                                                        *)
NothingLeftOpen == FtpListeners /\ WatchesItsSockets /\ WsSlotsClean

(* A file arrives whole, over HTTP and over FTP, both ways, however it is   *)
(* cut and whatever was aborted before (httpd.c, ftpd.c).                   *)
FilesWhole == [][EndsWhole /\ DownloadWhole']_edgeVars

(* Every master is served: neither one that stops in the middle of a frame  *)
(* nor a Modbus server that does not answer keeps the thread (tcp.c:38).    *)
MastersServed == EveryRequestAnswered /\ BackToSelect

MCAddress == {<<1, 2>>, <<3, 4>>}
MCDefaultIp == <<1, 2>>
Bits == {<<"ws", "bit">>, <<"shell", "bit">>, <<"modbus", "bit">>}
Whole == {<<"modbus", "whole">>, <<"modbus", "bit">>}
Storing == {<<"udp", "ip">>, <<"shell", "ip">>, <<"ws", "save">>, <<"udp", "reset">>, <<"modbus", "save">>}
MCInstallation ==
  {Bits, Whole, Storing, {<<"udp", "ip">>, <<"modbus", "ip">>, <<"ws", "save">>},
   {<<"ws", "ip">>, <<"shell", "ip">>},
   {<<"ws", "bit">>, <<"ws", "whole">>, <<"shell", "whole">>, <<"modbus", "whole">>}}

MCCoInstallation ==
  {{<<"main", "do">>, <<"modbus", "whole">>}, {<<"main", "do">>, <<"ws", "bit">>},
   {<<"ws", "bit">>, <<"shell", "bit">>, <<"modbus", "bit">>}, {<<"ws", "whole">>, <<"modbus", "bit">>},
   {<<"udp", "ip">>, <<"shell", "ip">>, <<"main", "save">>, <<"modbus", "save">>, <<"udp", "reset">>},
   {<<"ws", "ip">>, <<"ws", "save">>, <<"main", "reboot">>, <<"shell", "save">>, <<"shell", "reset">>}}

MCVisits == {{"do", "clobber"}, {"reg", "download"}, {"time", "ws"}, {"cfg"}, {"hist_del", "save"}}
MCTwoPosts == {{"do", "reg"}}

MCText == {<<1>>, <<CR, LF, 1>>, <<1, CR, LF>>}
User1 == {"USER", "PASS", "alone"}
MCHabits ==
  {User1 \cup {"TYPE", "STOR", "PASV"}, User1 \cup {"PORT", "STOR", "REST", "fault"},
   User1 \cup {"RETR", "PORT", "REST", "TYPE"}, User1 \cup {"RNFR", "RNTO", "DELE", "CWD"},
   {"PASV", "EPSV", "EPRT", "LIST", "idle"}, {"PASV", "QUIT", "SIZE", "NOOP"}, {"PASV", "RETR", "LIST", "STOR"}}

CONSTANTS c1, c2
MCClient == {c1, c2}
MCTransId == 1..(2 * MaxReq)
MCTrans == [c \in MCClient |-> [n \in 1..MaxReq |-> IF c = c1 THEN n ELSE MaxReq + n]]
MCBroadcast == {<<c1, 2>>}

Frame(kind, body) == [kind |-> kind, body |-> body]
MCFrames ==
  {<<Frame("good", 2), Frame("unknown", 1)>>, <<Frame("refused", 1), Frame("good", 1)>>}
=============================================================================
