------------------------------ MODULE ModbusTcp ------------------------------
(***************************************************************************)
(* modbus/tcp.c: one thread serves every Modbus TCP client with select and *)
(* hands their requests to Zephyr's Modbus server, which processes them in *)
(* the system work queue with a single receive ADU.  The response comes    *)
(* back through server_raw_cb, g_resp and a semaphore; the thread gives up *)
(* after MB_TCP_RESP_TIMEOUT, the server does not.                         *)
(*                                                                         *)
(* MbRequest n of client c carries the transaction id Trans[c][n].  A client *)
(* has one request outstanding; what it asks for is left out, a response   *)
(* is known by the request the server computed it for.                     *)
(***************************************************************************)
EXTENDS Integers, FiniteSets

CONSTANTS
  Client,
  MaxReq,      \* bound: requests of a client
  TransId,
  Trans,       \* transaction id of each request
  Broadcast,   \* the requests sent to unit 0
  NoTrans      \* trans_id of g_resp before the first response

MbRequest == Client \X (1..MaxReq)

ASSUME TransAssumption ==
  /\ MaxReq \in Nat \ {0}
  /\ Trans \in [Client -> [1..MaxReq -> TransId]]
  /\ Broadcast \subseteq MbRequest
  /\ NoTrans \notin TransId

TransOf(r) == Trans[r[1]][r[2]]

(* No two requests of the clients carry the same id. *)
DistinctIds == \A r, s \in MbRequest : TransOf(r) = TransOf(s) => r = s

Nobody == <<"none", 0>>

VARIABLES
  sent,      \* requests each client has sent
  answers,   \* pairs <<request, request the answer was computed for>> received
  failures,  \* requests answered with SERVER_DEVICE_FAILURE
  silent,    \* requests that get no answer, by the protocol
  pc,        \* "select", "submit", "wait", "check", "reply"
  req,       \* the request handle_client is serving
  g_resp,    \* [trans, of]: the last response, g_resp_sem below
  g_resp_sem,
  rx_adu,    \* the server's only receive ADU
  queued,    \* its work item is queued
  running,   \* the request being processed, its header already taken
  executed   \* history: requests processed to the end

clientVars == <<sent, answers, failures, silent>>
serverVars == <<rx_adu, queued, running, executed>>
mbVars == <<clientVars, pc, req, g_resp, g_resp_sem, serverVars>>

Answered == {a[1] : a \in answers} \cup failures \cup silent
Outstanding(c) == {r \in MbRequest : r[1] = c /\ r[2] <= sent[c]} \ Answered

MbTypeOK ==
  /\ sent \in [Client -> 0..MaxReq]
  /\ answers \subseteq MbRequest \X MbRequest
  /\ failures \subseteq MbRequest
  /\ silent \subseteq Broadcast
  /\ pc \in {"select", "submit", "wait", "check", "reply"}
  /\ req \in MbRequest \cup {Nobody}
  /\ g_resp \in [trans : TransId \cup {NoTrans}, of : MbRequest \cup {Nobody}]
  /\ g_resp_sem \in 0..1
  /\ rx_adu \in MbRequest \cup {Nobody}
  /\ queued \in BOOLEAN
  /\ running \in MbRequest \cup {Nobody}
  /\ executed \subseteq MbRequest

MbInit ==
  /\ sent = [c \in Client |-> 0]
  /\ answers = {} /\ failures = {} /\ silent = {}
  /\ pc = "select"
  /\ req = Nobody
  /\ g_resp = [trans |-> NoTrans, of |-> Nobody]
  /\ g_resp_sem = 0
  /\ rx_adu = Nobody
  /\ queued = FALSE
  /\ running = Nobody
  /\ executed = {}

-----------------------------------------------------------------------------
(* A client sends its next request when the last one was answered. *)
ClientSend(c) ==
  /\ Outstanding(c) = {}
  /\ sent[c] < MaxReq
  /\ sent' = [sent EXCEPT ![c] = @ + 1]
  /\ UNCHANGED <<answers, failures, silent, pc, req, g_resp, g_resp_sem, serverVars>>

(* handle_client up to k_sem_reset.  A frame refused before that point     *)
(* (header, function code, length) touches nothing shared and is left out. *)
Receive(c) ==
  /\ pc = "select"
  /\ \E r \in Outstanding(c) : req' = r
  /\ g_resp_sem' = 0
  /\ pc' = "submit"
  /\ UNCHANGED <<clientVars, g_resp, serverVars>>

(* modbus_raw_submit_rx: the ADU is copied, the work item queued.  The     *)
(* answer to a broadcast is not waited for.                                *)
Submit ==
  /\ pc = "submit"
  /\ rx_adu' = req
  /\ queued' = TRUE
  /\ IF req \in Broadcast
     THEN pc' = "select" /\ silent' = silent \cup {req}
     ELSE pc' = "wait" /\ UNCHANGED silent
  /\ UNCHANGED <<sent, answers, failures, req, g_resp, g_resp_sem, running, executed>>

(* Mutant: whatever response comes first is taken. *)
TakeFirst ==
  /\ pc = "wait"
  /\ g_resp_sem = 1
  /\ g_resp_sem' = 0
  /\ pc' = "reply"
  /\ UNCHANGED <<clientVars, req, g_resp, serverVars>>

(* k_sem_take succeeds: a response with another id is waited out. *)
TakeResponse ==
  /\ pc = "wait"
  /\ g_resp_sem = 1
  /\ g_resp_sem' = 0
  /\ pc' = IF g_resp.trans = TransOf(req) THEN "check" ELSE "wait"
  /\ UNCHANGED <<clientVars, req, g_resp, serverVars>>

(* Mutant: the wait starts over after a timeout. *)
WaitForever ==
  /\ pc = "wait"
  /\ g_resp_sem = 0
  /\ g_resp.trans = TransOf(req)
  /\ pc' = "check"
  /\ UNCHANGED <<clientVars, req, g_resp, g_resp_sem, serverVars>>

(* k_sem_take times out. *)
WaitTimeout ==
  /\ pc = "wait"
  /\ g_resp_sem = 0
  /\ pc' = "check"
  /\ UNCHANGED <<clientVars, req, g_resp, g_resp_sem, serverVars>>

(* The comparison that decides between the response and a failure. *)
Check ==
  /\ pc = "check"
  /\ IF g_resp.trans = TransOf(req)
     THEN pc' = "reply" /\ UNCHANGED failures
     ELSE pc' = "select" /\ failures' = failures \cup {req}
  /\ UNCHANGED <<sent, answers, silent, req, g_resp, g_resp_sem, serverVars>>

(* reply_adu copies g_resp, whatever it holds by now. *)
ReplyAdu ==
  /\ pc = "reply"
  /\ answers' = answers \cup {<<req, g_resp.of>>}
  /\ pc' = "select"
  /\ UNCHANGED <<sent, failures, silent, req, g_resp, g_resp_sem, serverVars>>

ThreadStep == Submit \/ TakeResponse \/ WaitTimeout \/ Check \/ ReplyAdu

(* The work queue gets to the Modbus server.  It may be kept by other work *)
(* (history, settings) for longer than MB_TCP_RESP_TIMEOUT.                *)
ServerStart ==
  /\ queued
  /\ running = Nobody
  /\ running' = rx_adu
  /\ queued' = FALSE
  /\ UNCHANGED <<clientVars, pc, req, g_resp, g_resp_sem, rx_adu, executed>>

(* server_raw_cb.  The transaction id was taken when the work began; the   *)
(* rest of the ADU may have been overwritten since, before or after it was *)
(* read.  A broadcast has no response.                                     *)
ServerDone ==
  /\ running # Nobody
  /\ \E r \in {running, rx_adu} :
        /\ executed' = executed \cup {r}
        /\ IF running \in Broadcast
           THEN UNCHANGED <<g_resp, g_resp_sem>>
           ELSE /\ g_resp' = [trans |-> TransOf(running), of |-> r]
                /\ g_resp_sem' = 1
  /\ running' = Nobody
  /\ UNCHANGED <<clientVars, pc, req, rx_adu, queued>>

ServerStep == ServerStart \/ ServerDone

MbNext ==
  \/ \E c \in Client : ClientSend(c) \/ Receive(c)
  \/ ThreadStep
  \/ ServerStep

MbSpec == MbInit /\ [][MbNext]_mbVars

(* select returns the ready clients, the thread is scheduled, the timeout  *)
(* expires.  Nothing is assumed of the work queue.                         *)
MbFairness ==
  /\ \A c \in Client : SF_mbVars(Receive(c))
  /\ WF_mbVars(ThreadStep)

MbFairSpec == MbSpec /\ MbFairness

-----------------------------------------------------------------------------
(* tcp.c:54,213: the response a client gets is the one to its request,     *)
(* never that of another client.                                           *)
OwnResponse == \A a \in answers : a[1] = a[2]

(* tcp.c:220: and it is sent only for a request the server processed to    *)
(* the end.                                                                *)
AnsweredIsExecuted == \A a \in answers : a[1] \in executed

(* Clients whose ids differ get the response to a request of theirs that   *)
(* was executed, or the exception that says there is none.                 *)
RightAnswer == OwnResponse /\ AnsweredIsExecuted

(* tcp.c:39: a server that does not answer must not hang the thread, which *)
(* serves all the clients: every request is answered in the end.           *)
EveryRequestAnswered == \A c \in Client : []<>(Outstanding(c) = {})
=============================================================================
