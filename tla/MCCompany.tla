------------------------------ MODULE MCCompany ------------------------------
(* The company's saves for TLC (MCCompanyStore); beside them the merge they use  *)
(* on inputs of its own (MCMerge3), and the planning cycle signed off for it      *)
(* (SopCycle). They share no state: a behaviour takes one of them while the        *)
(* others rest in an initial state.                                            *)
EXTENDS MCCompanyStore, MCMerge3, SopCycle

VARIABLE part       \* the one it takes

companyVars == <<part, vars, mergingVars, sopVars>>

MCSteps == <<"data", "exec">>

\* The company and the merge beside the others.
AtRest == ~approval /\ log = <<Entry(CHOOSE d \in Docs : TRUE, CHOOSE u \in Users : TRUE, NoClient)>>
NoMerge == given = Absent /\ decided = Absent /\ merged = Absent

CompanyInit ==
    /\ Init /\ SopInit
    /\ \/ part = "saving" /\ NoMerge
       \/ part = "merging" /\ AtRest /\ MergingInit
       \/ part = "signing" /\ AtRest /\ NoMerge

Saves  == part = "saving" /\ Next /\ UNCHANGED <<part, mergingVars, sopVars>>
Merges == part = "merging" /\ MergingNext /\ UNCHANGED <<part, vars, sopVars>>
Signs  == part = "signing" /\ SopNext /\ UNCHANGED <<part, vars, mergingVars>>
Rests  == part = "merging" /\ Done /\ UNCHANGED companyVars

CompanyNext == Saves \/ Merges \/ Signs \/ Rests

CompanySpec == CompanyInit /\ [][CompanyNext]_companyVars
=============================================================================
