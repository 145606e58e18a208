------------------------------ MODULE CoHistory ------------------------------
(***************************************************************************)
(* The history recorder of canopen-io, whose history.c is that of          *)
(* io-edge-hub (history.c:6): the functions it is made of, as steps of the *)
(* recorder modelled there.                                                *)
(***************************************************************************)
EXTENDS History

co_send_history_data == DiSample \/ AdcSample \/ \E s \in Sampler : Put(s)
co_ensure_file == WorkReuse \/ OpenFound \/ OpenNew \/ OpenFails
co_cleanup_old_files == WorkRotate
co_his_flush == WorkStart \/ WorkGet \/ WorkWrite \/ WorkClose \/ WorkCheck \/ WorkFsync
co_history_enable_write == EnableWrite \/ EnableSubmit
co_history_sync(s) == HistorySync(s)
co_set_timestamp == SetTimestamp
co_hist_del == Delete

CoHisNext ==
  \/ co_send_history_data \/ co_ensure_file \/ co_cleanup_old_files \/ co_his_flush
  \/ co_history_enable_write \/ co_set_timestamp \/ co_hist_del \/ Restart
  \/ \E s \in Syncer : co_history_sync(s)
=============================================================================
