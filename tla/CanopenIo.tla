------------------------------ MODULE CanopenIo ------------------------------
(***************************************************************************)
(* The network services of canopen-io.  Its ftpd.c, httpd.c, ws_io.c and   *)
(* tcp.c were taken over from io-edge-hub with their control unchanged     *)
(* (tcp.c:6, httpd.c:6, ws_io.c:6): each handler is the one modelled for   *)
(* io-edge-hub, and this module says which steps make it up.  What differs *)
(* is elsewhere: the outputs (CoRegisters) and the upgrade (CoDownload).   *)
(***************************************************************************)
EXTENDS FtpServer, WebServer, ModbusTcp, MbClients

-----------------------------------------------------------------------------
(* ftpd.c *)

co_ftp_thread == Accept \/ TimePasses \/ \E i \in Session : ClientGone(i) \/ IdleTimeout(i)

co_handle_command(i) ==
  \/ User(i) \/ Pass(i) \/ Type(i) \/ Cwd(i) \/ Dele(i) \/ Size(i) \/ Rest(i)
  \/ Rnfr(i) \/ Rnto(i) \/ Quit(i) \/ Noop(i)

co_cmd_pasv(i) == Pasv(i) \/ Epsv(i)
co_cmd_port(i) == Port(i) \/ Eprt(i)
co_open_data == DataConnected \/ NotConnected
co_cmd_list == (\E i \in Session : List(i)) \/ (Moving("list") /\ Ends)
co_cmd_retr == (\E i \in Session : Retr(i)) \/ Send \/ (Moving("retr") /\ Ends)
co_cmd_stor == (\E i \in Session : Stor(i)) \/ Store \/ (Moving("stor") /\ Ends)

CoFtpNext ==
  \/ co_ftp_thread \/ co_open_data \/ co_cmd_list \/ co_cmd_retr \/ co_cmd_stor
  \/ \E i \in Session : co_handle_command(i) \/ co_cmd_pasv(i) \/ co_cmd_port(i)

-----------------------------------------------------------------------------
(* httpd.c, ws_io.c *)

co_post_handlers(c) == ApiDo(c) \/ Reg(c) \/ ApiTime(c) \/ Cfg(c)
co_save_handler(c) == WebSave(c)
co_download_handler(c) == DlStart(c) \/ DlNext(c)
co_hist_del_handler(c) == HistDel(c)
co_ws_io_setup(c) == WsSetup(c)
co_ws_thread(i) == WsThread(i)

CoWebNext ==
  \/ \E c \in Visitor :
       \/ co_post_handlers(c) \/ co_save_handler(c) \/ co_download_handler(c)
       \/ co_hist_del_handler(c) \/ co_ws_io_setup(c)
       \/ WebRequest(c) \/ End(c)
  \/ Grow
  \/ \E i \in WsSlot : co_ws_thread(i)

-----------------------------------------------------------------------------
(* tcp.c: the frames and the list of clients; the exchange with the server *)

co_recv_full == Recv \/ RecvFails
co_mb_tcp_thread == Select \/ SessionTimeout

CoMbcNext ==
  \/ co_mb_tcp_thread \/ co_recv_full \/ LinkChanges
  \/ \E c \in Conn : Connect(c) \/ Arrives(c) \/ PeerCloses(c)

co_handle_client == (\E c \in Client : Receive(c)) \/ Submit \/ TakeResponse \/ WaitTimeout \/ Check
co_reply_adu == ReplyAdu
co_server_raw_cb == ServerDone

CoMbNext ==
  \/ co_handle_client \/ co_reply_adu \/ co_server_raw_cb
  \/ ServerStart \/ \E c \in Client : ClientSend(c)
=============================================================================
