---------------------------- MODULE ExclusiveSlot ----------------------------
(***************************************************************************)
(* What the upgrade lock promises, with no mention of how: the secondary   *)
(* slot has at most one owner, only its owner changes it, and once a swap  *)
(* is pending nobody changes it nor becomes its owner before the restart.  *)
(***************************************************************************)
CONSTANTS Client, None, Content

VARIABLES
  owner,     \* the client working on the slot, or None
  slot,      \* its content
  pending    \* the client whose image the next restart swaps in, or None

vars == <<owner, slot, pending>>

Init ==
  /\ owner = None
  /\ slot \in Content
  /\ pending = None

Acquire(c) ==
  /\ owner = None
  /\ pending = None
  /\ owner' = c
  /\ UNCHANGED <<slot, pending>>

(* The owner changes the slot, and may leave it in the same step. *)
Work(c) ==
  /\ owner = c
  /\ pending = None
  /\ slot' \in Content
  /\ owner' \in {c, None}
  /\ UNCHANGED pending

Request(c) ==
  /\ owner = c
  /\ pending = None
  /\ pending' = c
  /\ UNCHANGED <<owner, slot>>

Restart ==
  /\ owner' = None
  /\ pending' = None
  /\ slot' \in Content
  /\ pending = None => slot' = slot

Next ==
  \/ \E c \in Client : Acquire(c) \/ Work(c) \/ Request(c)
  \/ Restart

Spec == Init /\ [][Next]_vars
=============================================================================
