--------------------------- MODULE MCCanTransfer ---------------------------
(***************************************************************************)
(* CanTransfer for TLC: an upgrade through the application, then one      *)
(* through the boot loader.                                                *)
(***************************************************************************)
EXTENDS CanTransfer

Opt(boot, key, size) == [boot |-> boot, key |-> key, size |-> size]

MCPending == {<<Opt(FALSE, "none", 2), Opt(TRUE, "none", 3)>>}
=============================================================================
