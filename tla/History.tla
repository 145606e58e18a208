------------------------------- MODULE History -------------------------------
(***************************************************************************)
(* The history recorder of io-edge-hub, history.c: two sampling threads    *)
(* put samples into a message queue, a work item of a queue of its own     *)
(* writes them into files of bounded size, the oldest of which is removed  *)
(* when there are too many, and history_sync has the work item flush       *)
(* before a restart, a download or a listing.                              *)
(*                                                                         *)
(* A sample is its number among the accepted ones.  A file name is a time  *)
(* of the year; the file system keeps names in order.  The file system is  *)
(* mounted.  What is written to an open file is cached until fs_sync or    *)
(* fs_close (external: littlefs).                                          *)
(***************************************************************************)
EXTENDS Naturals, Sequences, FiniteSets, FiniteSetsExt, Functions

CONSTANTS
  Syncer,      \* threads that call history_sync: main, udp, web, ftp
  MaxSample,   \* bound: samples accepted
  QueueLen,    \* entries of his_msgq
  FileMax,     \* HIST_FILE_MAX, in samples
  MaxFiles,    \* HIST_MAX_FILES
  MaxName,     \* bound: the last file name
  Scenario,    \* sets of sampling threads, callers and troubles
  NoName

ASSUME HistoryAssumption ==
  /\ {MaxSample, QueueLen, FileMax, MaxFiles, MaxName} \subseteq Nat \ {0}
  /\ Scenario \subseteq SUBSET (Syncer \cup {"di", "adc", "error", "delete", "restart",
                                           "settime", "disable"})
  /\ Syncer \cap {"di", "adc", "error", "delete", "restart", "settime", "disable"} = {}
  /\ NoName \notin Nat

VARIABLES
  scenario,         \* who acts and what may go wrong; never changes
  clock,            \* the time of year
  history_enabled,
  accepted,         \* number of samples that entered the queue
  sampler,          \* a sampling thread has found the history enabled
  his_msgq,
  dir,              \* file name -> samples of the file on flash
  cache,            \* samples written to the open file, not on flash yet
  his_cur_name, his_cur_size, his_fp_open,
  queued,           \* the work item is queued
  wpc, hand,        \* where the work item stands, the sample it has taken
  closing,          \* close_after
  his_sync_req,
  enabling,         \* history_enable_write has yet to submit the work
  sync,             \* where each caller of history_sync stands
  owed, early       \* history: the samples accepted when it was called, and
                    \* whether the work item had yet to look at the queue

clientVars == <<sync, owed, early>>
fileVars == <<cache, his_cur_name, his_cur_size, his_fp_open>>
workVars == <<wpc, hand, closing>>
sampleVars == <<accepted, sampler>>
hisVars == <<scenario, clock, history_enabled, sampleVars, his_msgq, dir, fileVars,
             queued, workVars, his_sync_req, enabling, clientVars>>

None == 0
Name == 0..MaxName
Sampler == {"di", "adc"}
Only(troubles) == scenario \subseteq troubles \cup Sampler \cup Syncer
Stored(d) == UNION {d[f] : f \in DOMAIN d}
Pending == {his_msgq[i] : i \in DOMAIN his_msgq} \cup cache \cup ({hand} \ {None})

HisTypeOK ==
  /\ clock \in Name /\ accepted \in 0..MaxSample
  /\ {history_enabled, queued, closing, his_sync_req, his_fp_open, enabling} \subseteq BOOLEAN
  /\ sampler \in [Sampler -> BOOLEAN]
  /\ Len(his_msgq) <= QueueLen
  /\ DOMAIN dir \subseteq Name /\ Stored(dir) \cup Pending \subseteq 1..MaxSample
  /\ his_cur_name \in Name \cup {NoName} /\ his_cur_size \in 0..MaxSample
  /\ his_fp_open => his_cur_name # NoName
  /\ wpc \in {"idle", "get", "open", "rotate", "write", "close", "check", "fsync"}
  /\ sync \in [Syncer -> {"idle", "submit", "flush", "queued", "running", "test"}]

HisInit ==
  /\ scenario \in Scenario
  /\ clock = 1 /\ history_enabled = TRUE
  /\ accepted = 0 /\ sampler = [s \in Sampler |-> FALSE] /\ his_msgq = <<>>
  /\ dir = <<>> /\ cache = {}
  /\ his_cur_name = NoName /\ his_cur_size = 0 /\ his_fp_open = FALSE
  /\ queued = FALSE /\ wpc = "idle" /\ hand = None /\ closing = FALSE
  /\ his_sync_req = FALSE /\ enabling = FALSE
  /\ sync = [s \in Syncer |-> "idle"] /\ owed = [s \in Syncer |-> {}]
  /\ early = [s \in Syncer |-> FALSE]

-----------------------------------------------------------------------------
(* Samples *)

(* A round of a sampling thread, up to the tests of send_history_data. *)
Take(s) ==
  /\ s \in scenario /\ ~sampler[s] /\ history_enabled
  /\ sampler' = [sampler EXCEPT ![s] = TRUE]
  /\ UNCHANGED <<scenario, clock, history_enabled, accepted, his_msgq, dir, fileVars, queued,
                 workVars, his_sync_req, enabling, clientVars>>

DiSample == Take("di")
AdcSample == Take("adc")

Room == Len(his_msgq) < QueueLen

(* A full queue drops the sample. *)
Put(s) ==
  /\ sampler[s]
  /\ sampler' = [sampler EXCEPT ![s] = FALSE]
  /\ IF Room
     THEN /\ accepted < MaxSample
          /\ accepted' = accepted + 1
          /\ his_msgq' = Append(his_msgq, accepted')
          /\ queued' = TRUE
     ELSE UNCHANGED <<accepted, his_msgq, queued>>
  /\ UNCHANGED <<scenario, clock, history_enabled, dir, fileVars, workVars, his_sync_req,
                 enabling, clientVars>>

-----------------------------------------------------------------------------
(* The work item, his_flush *)

At(pc, next) ==
  /\ wpc = pc /\ wpc' = next
  /\ UNCHANGED <<scenario, history_enabled, sampleVars, enabling>>

WorkStart ==
  /\ queued /\ At("idle", "get")
  /\ queued' = FALSE /\ closing' = ~history_enabled
  /\ sync' = [s \in Syncer |-> IF sync[s] = "queued" THEN "running" ELSE sync[s]]
  /\ UNCHANGED <<clock, his_msgq, dir, fileVars, hand, his_sync_req, owed, early>>

WorkGet ==
  /\ At("get", IF his_msgq = <<>> THEN "close" ELSE "open")
  /\ IF his_msgq = <<>> THEN UNCHANGED <<hand, his_msgq>>
     ELSE hand' = Head(his_msgq) /\ his_msgq' = Tail(his_msgq)
  /\ UNCHANGED <<clock, dir, fileVars, queued, closing, his_sync_req, clientVars>>

(* The file takes what is cached for it.  If it was removed while open, the *)
(* cache is lost with it.                                                   *)
Flushed == IF his_fp_open /\ his_cur_name \in DOMAIN dir
           THEN [dir EXCEPT ![his_cur_name] = @ \cup cache] ELSE dir

Broken == IF "error" \in scenario THEN SUBSET {"again", "latest", "new"} ELSE {{}}

(* open_append without FS_O_CREATE, and room in the file. *)
Fits(d, name) == name \in DOMAIN d /\ Cardinality(d[name]) < FileMax

(* ensure_file goes on in the file it used last; if it has none, or that is  *)
(* gone, in the one with the largest name.  "broken" are the attempts at     *)
(* which the file system fails.                                              *)
Found(d, broken) ==
  LET again == his_cur_name # NoName /\ his_cur_size < FileMax
      latest == (again \/ his_cur_name = NoName) /\ DOMAIN d # {}
  IN IF again /\ "again" \notin broken /\ Fits(d, his_cur_name) THEN his_cur_name
     ELSE IF latest /\ "latest" \notin broken /\ Fits(d, Max(DOMAIN d)) THEN Max(DOMAIN d)
     ELSE NoName

WorkReuse ==
  /\ his_fp_open /\ his_cur_size < FileMax
  /\ At("open", "write")
  /\ UNCHANGED <<clock, his_msgq, dir, fileVars, hand, queued, closing, his_sync_req, clientVars>>

OpenFound ==
  /\ ~(his_fp_open /\ his_cur_size < FileMax)
  /\ At("open", "write")
  /\ \E broken \in Broken : LET name == Found(Flushed, broken) IN
       /\ name # NoName
       /\ his_cur_name' = name /\ his_cur_size' = Cardinality(Flushed[name])
  /\ his_fp_open' = TRUE /\ dir' = Flushed /\ cache' = {}
  /\ UNCHANGED <<clock, his_msgq, hand, queued, closing, his_sync_req, clientVars>>

(* Else in a new one named by the clock: names of files opened one after    *)
(* the other may be equal, but no file is filled within the second its name *)
(* stands for.  A name that is taken is gone on with whatever its size (the *)
(* clock was set back).  An empty file has the oldest removed.              *)
OpenNew ==
  /\ ~(his_fp_open /\ his_cur_size < FileMax)
  /\ \E broken \in Broken : Found(Flushed, broken) = NoName /\ "new" \notin broken
  /\ \E name \in IF clock \notin DOMAIN dir THEN {clock}
                  ELSE IF Fits(Flushed, clock) THEN {clock, clock + 1} ELSE {clock + 1} :
       LET new == name \notin DOMAIN dir
           size == IF new THEN 0 ELSE Cardinality(Flushed[name])
       IN /\ clock' = name /\ his_cur_name' = name /\ his_cur_size' = size
          /\ dir' = IF new THEN [f \in DOMAIN dir \cup {name} |-> IF f = name THEN {} ELSE Flushed[f]]
                    ELSE Flushed
          /\ At("open", IF size = 0 THEN "rotate" ELSE "write")
  /\ his_fp_open' = TRUE /\ cache' = {}
  /\ UNCHANGED <<his_msgq, hand, queued, closing, his_sync_req, clientVars>>

(* No file: the sample is lost, and the run ends. *)
OpenFails ==
  /\ ~(his_fp_open /\ his_cur_size < FileMax)
  /\ At("open", "close")
  /\ \E broken \in Broken : Found(Flushed, broken) = NoName /\ "new" \in broken
  /\ his_cur_name' = IF his_cur_size < FileMax THEN NoName ELSE his_cur_name
  /\ his_fp_open' = FALSE /\ dir' = Flushed /\ cache' = {} /\ hand' = None
  /\ UNCHANGED <<clock, his_msgq, his_cur_size, queued, closing, his_sync_req, clientVars>>

(* Mutant: it keeps the smallest. *)
KeptSmallest(names) == {a \in names : Cardinality({b \in names : b < a}) < MaxFiles}

(* cleanup_old_files keeps the largest names. *)
Kept(names) == {a \in names : Cardinality({b \in names : b > a}) < MaxFiles}

WorkRotate ==
  /\ At("rotate", "write")
  /\ dir' = Restrict(dir, Kept(DOMAIN dir))
  /\ UNCHANGED <<clock, his_msgq, fileVars, hand, queued, closing, his_sync_req, clientVars>>

(* A short write ends the run, and the file. *)
WorkWrite ==
  /\ \/ /\ At("write", "get")
        /\ cache' = cache \cup {hand} /\ his_cur_size' = his_cur_size + 1
     \/ /\ "error" \in scenario /\ At("write", "close")
        /\ his_cur_size' = FileMax /\ UNCHANGED cache
  /\ hand' = None
  /\ UNCHANGED <<clock, his_msgq, dir, his_cur_name, his_fp_open, queued, closing, his_sync_req,
                 clientVars>>

WorkClose ==
  /\ At("close", "check")
  /\ IF closing THEN dir' = Flushed /\ cache' = {} /\ his_fp_open' = FALSE
                ELSE UNCHANGED <<dir, cache, his_fp_open>>
  /\ UNCHANGED <<clock, his_msgq, his_cur_name, his_cur_size, hand, queued, closing,
                 his_sync_req, clientVars>>

(* The end of a run lets go those who wait for it in k_work_flush. *)
Released == [s \in Syncer |-> IF sync[s] = "running" THEN "test" ELSE sync[s]]

(* Mutant: the request is consumed only if the file is open. *)
WorkCheckOpenOnly ==
  /\ At("check", IF his_sync_req /\ his_fp_open THEN "fsync" ELSE "idle")
  /\ his_sync_req' = (his_sync_req /\ ~his_fp_open)
  /\ sync' = IF wpc' = "idle" THEN Released ELSE sync
  /\ UNCHANGED <<clock, his_msgq, dir, fileVars, hand, queued, closing, owed, early>>

WorkCheck ==
  /\ At("check", IF his_sync_req /\ his_fp_open THEN "fsync" ELSE "idle")
  /\ his_sync_req' = FALSE
  /\ sync' = IF wpc' = "idle" THEN Released ELSE sync
  /\ UNCHANGED <<clock, his_msgq, dir, fileVars, hand, queued, closing, owed, early>>

(* Mutant: the file is left to the cache (the comment in his_flush). *)
WorkFsyncLater ==
  /\ At("fsync", "idle")
  /\ sync' = Released
  /\ UNCHANGED <<clock, his_msgq, dir, fileVars, hand, queued, closing, his_sync_req, owed, early>>

WorkFsync ==
  /\ At("fsync", "idle")
  /\ dir' = Flushed /\ cache' = {}
  /\ sync' = Released
  /\ UNCHANGED <<clock, his_msgq, his_cur_name, his_cur_size, his_fp_open, hand, queued,
                 closing, his_sync_req, owed, early>>

HisWork ==
  \/ WorkStart \/ WorkGet \/ WorkReuse \/ OpenFound \/ OpenNew \/ OpenFails \/ WorkRotate
  \/ WorkWrite \/ WorkClose \/ WorkCheck \/ WorkFsync

-----------------------------------------------------------------------------
(* history_sync, history_enable_write, and what else happens *)

Caller(s, from, to) ==
  /\ sync[s] = from /\ sync' = [sync EXCEPT ![s] = to]
  /\ UNCHANGED <<scenario, clock, history_enabled, sampleVars, his_msgq, dir, fileVars,
                 workVars, enabling>>

SyncRequest(s) ==
  /\ s \in scenario /\ Caller(s, "idle", "submit")
  /\ his_sync_req' = TRUE
  /\ owed' = [owed EXCEPT ![s] = Pending]
  /\ early' = [early EXCEPT ![s] = wpc \notin {"close", "check", "fsync"}]
  /\ UNCHANGED queued

SyncSubmit(s) ==
  /\ Caller(s, "submit", "flush")
  /\ queued' = TRUE
  /\ UNCHANGED <<his_sync_req, owed, early>>

(* k_work_flush waits for the run that is queued, or else for the one under *)
(* way (external: Zephyr's work_flush_locked).                              *)
SyncFlush(s) ==
  /\ Caller(s, "flush", IF queued THEN "queued" ELSE IF wpc # "idle" THEN "running" ELSE "test")
  /\ UNCHANGED <<queued, his_sync_req, owed, early>>

SyncTest(s) ==
  /\ Caller(s, "test", IF his_sync_req THEN "submit" ELSE "idle")
  /\ IF his_sync_req THEN UNCHANGED <<owed, early>>
     ELSE owed' = [owed EXCEPT ![s] = {}] /\ early' = [early EXCEPT ![s] = FALSE]
  /\ UNCHANGED <<queued, his_sync_req>>

HistorySync(s) == SyncRequest(s) \/ SyncSubmit(s) \/ SyncFlush(s) \/ SyncTest(s)

EnableWrite ==
  /\ "disable" \in scenario /\ ~enabling
  /\ history_enabled' = ~history_enabled
  /\ enabling' = history_enabled
  /\ UNCHANGED <<scenario, clock, sampleVars, his_msgq, dir, fileVars, queued, workVars,
                 his_sync_req, clientVars>>

EnableSubmit ==
  /\ enabling
  /\ enabling' = FALSE /\ queued' = TRUE
  /\ UNCHANGED <<scenario, clock, history_enabled, sampleVars, his_msgq, dir, fileVars, workVars,
                 his_sync_req, clientVars>>

(* set_timestamp sets the clock back, and so does the turn of the year. *)
SetTimestamp ==
  /\ "settime" \in scenario
  /\ \E t \in 0..clock : t < clock /\ clock' = t
  /\ UNCHANGED <<scenario, history_enabled, sampleVars, his_msgq, dir, fileVars, queued, workVars,
                 his_sync_req, enabling, clientVars>>

(* hist_del_handler; FTP's DELE. *)
Delete ==
  /\ "delete" \in scenario
  /\ \E f \in DOMAIN dir : dir' = Restrict(dir, DOMAIN dir \ {f})
  /\ UNCHANGED <<scenario, clock, history_enabled, sampleVars, his_msgq, fileVars, queued,
                 workVars, his_sync_req, enabling, clientVars>>

(* Any reset: RAM and the cache of the open file are gone. *)
Restart ==
  /\ "restart" \in scenario
  /\ history_enabled' = TRUE
  /\ sampler' = [s \in Sampler |-> FALSE] /\ his_msgq' = <<>>
  /\ cache' = {} /\ his_cur_name' = NoName /\ his_cur_size' = 0 /\ his_fp_open' = FALSE
  /\ queued' = FALSE /\ wpc' = "idle" /\ hand' = None /\ closing' = FALSE
  /\ his_sync_req' = FALSE /\ enabling' = FALSE
  /\ sync' = [s \in Syncer |-> "idle"] /\ owed' = [s \in Syncer |-> {}]
  /\ early' = [s \in Syncer |-> FALSE]
  /\ UNCHANGED <<scenario, clock, accepted, dir>>

HisNext ==
  \/ DiSample \/ AdcSample \/ \E s \in Sampler : Put(s)
  \/ HisWork
  \/ \E s \in Syncer : HistorySync(s)
  \/ EnableWrite \/ EnableSubmit \/ SetTimestamp \/ Delete \/ Restart

(* The queue's thread runs when the threads above it sleep; a caller that  *)
(* has something to do goes on.                                            *)
HisFairness ==
  /\ WF_hisVars(HisWork) /\ WF_hisVars(EnableSubmit)
  /\ \A s \in Syncer : WF_hisVars(SyncSubmit(s) \/ SyncFlush(s) \/ SyncTest(s))

HisSpec == HisInit /\ [][HisNext]_hisVars /\ HisFairness

-----------------------------------------------------------------------------
(* Properties *)

(* x is on flash, or so old that it went with the oldest file. *)
Safe(x) == LET have == Stored(dir) \cup Pending IN
  x \in Stored(dir) \/ (have # {} /\ \A y \in have : x < y)

Returns(s) == sync[s] = "test" /\ sync'[s] = "idle"

(* The promise of history.c:308: when history_sync returns, every sample     *)
(* that was in the queue or cached when it was called is on flash, or older  *)
(* than all that are.  It is kept if the call found the work item before the *)
(* end of its loop over the queue.                                           *)
SyncFlushes ==
  [][Only({"disable", "restart"}) =>
       \A s \in Syncer : Returns(s) /\ early[s] => \A x \in owed[s] : Safe(x)]_hisVars

(* The promise without the condition. *)
SyncDurable == [][\A s \in Syncer : Returns(s) => \A x \in owed[s] : Safe(x)]_hisVars

(* history_sync returns once the other threads stop calling it: no request  *)
(* flag is left that nobody consumes (history.c:310).                       *)
SyncReturns ==
  \A s \in Syncer :
    <>[](\A r \in Syncer \ {s} : sync[r] = "idle") => (sync[s] # "idle" ~> sync[s] = "idle")

OldestLost ==
  \A x \in 1..accepted \ (Pending \cup Stored(dir)), y \in Pending \cup Stored(dir) : x < y

(* While nothing fails and the clock goes forward, an accepted sample is     *)
(* queued, cached or stored, or it is older than all that are: rotation      *)
(* takes the oldest file, and opening a file loses nothing.                  *)
LossIsOldest == Only({"disable"}) => OldestLost

(* docs/io-edge-hub.md:1174: rotation removes the oldest file, the order of *)
(* names being that of time.                                                *)
RotatesOldest == Only({"settime"}) => OldestLost
=============================================================================
