----------------------------- MODULE MCHistory -----------------------------
(***************************************************************************)
(* History for TLC, in both applications: files of two samples, one of     *)
(* them kept.                                                              *)
(***************************************************************************)
EXTENDS CoHistory

CONSTANTS s1, s2

VARIABLE app

RecorderNext ==
  /\ UNCHANGED app
  /\ \/ app = "io-edge-hub" /\ HisNext
     \/ app = "canopen-io" /\ CoHisNext

RecorderInit == app \in {"io-edge-hub", "canopen-io"} /\ HisInit
RecorderSpec ==
  /\ RecorderInit
  /\ [][RecorderNext]_<<app, hisVars>> /\ HisFairness

(* Two callers, two sampling threads, and each trouble with one of both. *)
MCScenario ==
  { {"di", s1, s2}, {"di", "adc", s1}, {"di", s1, "error"}, {"di", s1, "delete"},
    {"di", s1, "settime"}, {"di", s1, "disable"}, {"di", "disable", "restart"} }

(* For the runs that refute what history.c and the documents promise. *)
OneCaller == { {"di", "adc", s1} }
ClockSetBack == { {"di", "settime"} }
=============================================================================
