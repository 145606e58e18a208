------------------------------ MODULE MCNodes ------------------------------
(***************************************************************************)
(* Small parts of different nodes that share no state, for TLC, each in    *)
(* turn.  A behaviour is one of the part that Init chooses.                *)
(***************************************************************************)
EXTENDS CanTransfer, CoDownload, RfLink, GwBox, J1939, TLC

VARIABLE part

nodesVars == <<part, ctVars, rfVars, sdoVars, gwVars, j1939Vars>>

NodesInit ==
  /\ part \in {"can", "rf", "sdo", "gw", "j1939"}
  /\ CtInit /\ RfInit /\ SdoInit /\ GwInit /\ J1939Init
  \* the instances of the parts that stand still make no difference
  /\ part # "can" => plan = CHOOSE p \in Plans : TRUE
  /\ part # "rf" => scenario = CHOOSE c \in Scenario : TRUE
  /\ part # "sdo" => sdo = (CHOOSE s \in Sdo : TRUE) /\ slot1 = All(Blank)
  /\ part # "gw" => ready /\ orders = CHOOSE o \in Orders : TRUE
  /\ part # "j1939" => case = CHOOSE c \in Cases : TRUE

NodesNext ==
  /\ UNCHANGED part
  /\ \/ part = "can" /\ CtNext /\ UNCHANGED <<rfVars, sdoVars, gwVars, j1939Vars>>
     \/ part = "rf" /\ RfNext /\ UNCHANGED <<ctVars, sdoVars, gwVars, j1939Vars>>
     \/ part = "sdo" /\ SdoNext /\ UNCHANGED <<ctVars, rfVars, gwVars, j1939Vars>>
     \/ part = "gw" /\ GwNext /\ UNCHANGED <<ctVars, rfVars, sdoVars, j1939Vars>>
     \/ part = "j1939" /\ J1939Next /\ UNCHANGED <<ctVars, rfVars, sdoVars, gwVars>>

\* a part that stands still owes no steps
NodesSpec == NodesInit /\ [][NodesNext]_nodesVars /\ (part = "can" => CtFairness) /\ GwFairness

Opt(boot, key, size) == [boot |-> boot, key |-> key, size |-> size]
MCPlans ==
  { <<Opt(FALSE, "good", 3), Opt(FALSE, "none", 2)>>,
    <<Opt(TRUE, "bad", 2), Opt(TRUE, "good", 3)>>,
    <<Opt(TRUE, "none", 3), Opt(FALSE, "none", 3)>> }

Traffic(f) == [t \in Thread |-> IF t \in DOMAIN f THEN f[t] ELSE 0]
Case(crypt, f, lost, rejoins) == [crypt |-> crypt, sends |-> Traffic(f), lost |-> lost, rejoins |-> rejoins]
MCScenario ==
  { Case(FALSE, "work" :> 2 @@ "heart" :> 1 @@ "gwshell" :> 1, 2, 0),
    Case(FALSE, "data" :> 2 @@ "shell" :> 2, 1, 0),
    Case(FALSE, "shell" :> 3, 2, 0),
    Case(TRUE, "work" :> 5 @@ "heart" :> 1, 0, 0),
    Case(TRUE, "work" :> 5, 1, 0),
    Case(TRUE, "work" :> 4 @@ "heart" :> 1, 1, 0),
    Case(TRUE, "data" :> 2 @@ "shell" :> 1, 1, 1) }

Img(good, size) == [good |-> good, size |-> size]
MCSdo ==
  { <<Img(TRUE, 3), Img(TRUE, 2)>>, <<Img(TRUE, 2), Img(FALSE, 4)>>, <<Img(FALSE, 2), Img(TRUE, 3)>> }

Claims(on, weak, strong, reqs, lost) ==
  [on |-> on, bams |-> (1 :> strong @@ 3 :> weak), reqs |-> reqs, fails |-> lost]
MCCases == {Claims({1, 3}, 0, 0, 0, 0), Claims({1}, 0, 1, 1, 1), Claims({1}, 0, 2, 0, 3)}

MCAddr == {<<1, 1>>, <<2, 2>>}
MCNet == 1..2
MCOrders ==
  { << <<"cfg", "ip", 1>> >>, << <<"shell", "rf", <<1, 1>>>>, <<"cfg", "rf", <<2, 2>>>> >>,
    << <<"cfg", "host", 1>>, <<"shell", "port", 2>> >>,
    << <<"shell", "reset", 0>>, <<"cfg", "reset", 0>> >> }
=============================================================================
