----------------------------- MODULE MCJobTools -----------------------------
(* Instances of JobRefresh and CompanyTools for TLC.  They share no state, so a  *)
(* behaviour is one of the first, or one of the second, with the other at rest.  *)
EXTENDS MCJobRefresh, CompanyTools

CONSTANTS n1, n2, d1, d2, g1, u1

\* One company with a website that is known, one without.
TwoInputs == {[name |-> n1, known |-> d1], [name |-> n2, known |-> Nothing]}

VARIABLE part

BothInit == RefreshInit /\ ToolsInit /\ part \in {"jobs", "tools"}

BothNext ==
    \/ part = "jobs"  /\ RefreshNext /\ UNCHANGED <<part, toolsVars>>
    \/ part = "tools" /\ ToolsNext   /\ UNCHANGED <<part, refreshVars>>

BothSpec == BothInit /\ [][BothNext]_<<part, refreshVars, toolsVars>>
=============================================================================
