----------------------------- MODULE MCModbusTcp -----------------------------
(***************************************************************************)
(* ModbusTcp for TLC: two clients, whose transaction ids count from the    *)
(* same value, as those of most masters do, or do not meet.                *)
(***************************************************************************)
EXTENDS ModbusTcp, TLC

CONSTANTS c1, c2

MCClient == {c1, c2}
MCSharedIds == [c \in MCClient |-> [n \in 1..MaxReq |-> n]]
MCDistinctIds == [c \in MCClient |-> [n \in 1..MaxReq |-> IF c = c1 THEN n ELSE MaxReq + n]]
MCTransId == 1..(2 * MaxReq)
MCBroadcast == {<<c1, 2>>}
=============================================================================
