----------------------------- MODULE MCW5500Toe -----------------------------
(***************************************************************************)
(* Instances of W5500Toe.  What the application does is chosen once: each  *)
(* set of calls is a small system of its own, and together they make every *)
(* call meet every other that shares state with it.                        *)
(***************************************************************************)
EXTENDS W5500Toe

MCUses ==
  { {"stream", "accept", "close"},
    {"stream", "accept", "reset", "dead", "timeout", "two"},
    {"stream", "accept", "connect", "two"},
    {"dgram", "send", "recv", "shutdown"},
    {"dgram", "recv", "close"},
    {"stream", "connect", "send", "reset", "shutdown", "timeout"},
    {"stream", "connect", "send", "reset", "close"},
    {"stream", "accept", "recv", "fin"} }

(* A server that opens as many listeners and connections as fit.           *)
MCFull == {{"stream", "accept", "many"}}
=============================================================================
