------------------------------ MODULE Observers ------------------------------
(***************************************************************************)
(* The tools an operator watches the mesh with.  They have nothing to do   *)
(* with each other but for the clock, so each behaviour is of one of them: *)
(* a live scan for ghosts while the DHT changes, the two offline tools     *)
(* that read one file, or the validation of bootstrap peers that come and  *)
(* go.                                                                     *)
(***************************************************************************)
EXTENDS KeyspaceInspector, BootstrapValidator

VARIABLE tool  \* what the operator does

vars == <<now, tool, ghostVars, inspectorVars, validatorVars>>

Tools == {"scan", "file", "bootstrap"}

TypeOK ==
    /\ now \in 0..MaxTime
    /\ tool \in Tools
    /\ GhostTypeOK
    /\ InspectorTypeOK
    /\ ValidatorTypeOK

\* What a tool that is not used sees of the world.
NoDht == record = [k \in Key |-> None] /\ buried = {} /\ linked = {}
NoFile == file = [record |-> [k \in Key |-> None], tombstonePeerIds |-> {}]

Init ==
    /\ now = 0
    /\ tool \in Tools
    /\ IF tool = "scan" THEN DhtInit ELSE NoDht
    /\ IF tool = "file" THEN FileInit ELSE NoFile
    /\ up \in IF tool = "bootstrap" THEN SUBSET Valid ELSE {{}}
    /\ ScanInit
    /\ InspectorInit
    /\ ValidatorInit

Tick ==
    /\ tool # "bootstrap"
    /\ now < MaxTime
    /\ now' = now + 1
    /\ UNCHANGED <<tool, ghostVars, inspectorVars, validatorVars>>

Scanning ==
    /\ tool = "scan"
    /\ DhtStep \/ ScanStep
    /\ UNCHANGED <<now, tool, inspectorVars, validatorVars>>

Reading ==
    /\ tool = "file"
    /\ InspectorStep
    /\ UNCHANGED <<now, tool, ghostVars, validatorVars>>

Validating ==
    /\ tool = "bootstrap"
    /\ ValidatorStep
    /\ UNCHANGED <<now, tool, ghostVars, inspectorVars>>

Next == Tick \/ Scanning \/ Reading \/ Validating

Spec == Init /\ [][Next]_vars
=============================================================================
