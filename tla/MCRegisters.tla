----------------------------- MODULE MCRegisters -----------------------------
(* The registers of a company for TLC: its revisions (RevisionChain), who       *)
(* belongs to it (Members), its mail (MailOutbox), and what its connectors bring *)
(* in and send out (MCConnect).                                                *)
(* They share no state: a behaviour takes one of them while the others rest in  *)
(* an initial state.                                                           *)
EXTENDS MCConnect, MCRevisionChain, Members, MailOutbox

\* Which dataset and which sending run is which tells no two behaviours apart.
RegistersSymmetry == {d @@ r : d \in Permutations(Docs), r \in Permutations(SendRuns)}

VARIABLE part    \* the one it takes

registersVars == <<part, connectVars, vars, membersVars, mailVars>>

\* The initial state each rests in.
Resting ==
    /\ part # "connectors" => way = "in" /\ InRests
    /\ part # "revisions" => Kept = {Legacy} /\ \A r \in 1..Legacy : saved[r] = CHOOSE d \in Docs : TRUE
    /\ part # "members" => role[CHOOSE p \in Persons : TRUE] = "owner"

RegistersInit ==
    /\ part \in {"connectors", "revisions", "members", "mail"}
    /\ Init /\ MembersInit /\ MailInit
    /\ IF part = "connectors" THEN ConnectInit ELSE way = "in" /\ InRests /\ OutRests
    /\ Resting

Connecting == part = "connectors" /\ ConnectNext /\ UNCHANGED <<part, vars, membersVars, mailVars>>
Keeping    == part = "revisions" /\ Next /\ UNCHANGED <<part, connectVars, membersVars, mailVars>>
Joining    == part = "members" /\ MembersNext /\ UNCHANGED <<part, connectVars, vars, mailVars>>
Mailing    == part = "mail" /\ MailNext /\ UNCHANGED <<part, connectVars, vars, membersVars>>

RegistersNext == Connecting \/ Keeping \/ Joining \/ Mailing

RegistersSpec == RegistersInit /\ [][RegistersNext]_registersVars

\* Every variable of the registers holds values of its kind.
RegistersTypeOK ==
    /\ part = "connectors" => ConnectTypeOK
    /\ part = "revisions" => TypeOK
    /\ part = "members" => MembersTypeOK
    /\ part = "mail" => MailTypeOK
=============================================================================
