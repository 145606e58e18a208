--------------------------- MODULE FwUpgradeState ---------------------------
(***************************************************************************)
(* fw_upgrade_state.c: the lock the upgrade channels of io-edge-hub share, *)
(* with the secondary slot and MCUboot's swap request it protects.         *)
(*                                                                         *)
(* The lock remembers a channel LABEL, and fw_pre_start_hook hands the     *)
(* label "UDP" to the CAN library too.  holder is a history variable: the  *)
(* channel whose fw_upgrade_try_lock really took the lock.                 *)
(***************************************************************************)
EXTENDS FlashImg

Channel   == {"UDP", "CAN", "WS"}
NoChannel == "none"

VARIABLES
  upgrade_active,   \* the lock is taken
  current_channel,  \* the label it was taken under
  holder,           \* history: the channel that took it
  slot1,            \* the secondary slot
  armed             \* boot_request_upgrade: [by, image], or Disarmed

lockVars  == <<upgrade_active, current_channel, holder>>
stateVars == <<upgrade_active, current_channel, holder, slot1, armed>>

Disarmed == [by |-> NoChannel, image |-> <<>>]

StateTypeOK ==
  /\ upgrade_active \in BOOLEAN
  /\ current_channel \in Channel
  /\ holder \in Channel \cup {NoChannel}
  /\ slot1 \in Slot
  /\ armed \in [by : Channel \cup {NoChannel}, image : Seq(Chunk)]

StateInit ==
  /\ upgrade_active = FALSE
  /\ current_channel = "UDP"
  /\ holder = NoChannel
  /\ slot1 = [p \in 1..SlotLen |-> Junk]
  /\ armed = Disarmed

Armed == armed.by # NoChannel

(* Mutant: the lock is given without looking whether it is taken. *)
TryLockUnchecked(c, label) ==
  /\ upgrade_active' = TRUE
  /\ current_channel' = label
  /\ holder' = c

(* fw_upgrade_try_lock(label) called for channel c, when it returns true. *)
TryLock(c, label) ==
  /\ ~upgrade_active
  /\ upgrade_active' = TRUE
  /\ current_channel' = label
  /\ holder' = c

(* fw_upgrade_unlock(label): only the label is compared. *)
Unlock(label) ==
  /\ IF current_channel = label
     THEN upgrade_active' = FALSE /\ holder' = NoChannel
     ELSE UNCHANGED <<upgrade_active, holder>>
  /\ UNCHANGED current_channel

(* boot_request_upgrade succeeded for the image channel c verified. *)
Arm(c, image) == armed' = [by |-> c, image |-> image]

(* Restart of the RAM state, and MCUboot's swap when one was requested:    *)
(* slot1 then holds the previous image.                                    *)
StateReboot ==
  /\ upgrade_active' = FALSE
  /\ current_channel' = "UDP"
  /\ holder' = NoChannel
  /\ slot1' = IF Armed THEN [p \in 1..SlotLen |-> Junk] ELSE slot1
  /\ armed' = Disarmed
=============================================================================
