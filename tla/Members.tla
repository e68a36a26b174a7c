-------------------------------- MODULE Members --------------------------------
(* Who belongs to a company, and what the company asks of them (companies/     *)
(* store.py).                                                                  *)
(*                                                                            *)
(* Owners invite people, change what they may do, remove them, make keys for   *)
(* other systems, and require two-step sign-in or a second person's approval;  *)
(* people accept, leave by deleting their account, and turn two-step sign-in   *)
(* on and off. Every request holds the store's lock for its whole length, but   *)
(* turning two-step sign-in off, which asks for the password in between.       *)
EXTENDS Integers, FiniteSets

CONSTANTS
    Persons,     \* the accounts of people
    Keys        \* the accounts of keys

ASSUME MembersAssumption == Persons \cap Keys = {} /\ IsFiniteSet(Persons \cup Keys)

VARIABLES
    role,        \* each account's row among the members
    limited,     \* the members whose rights are limited to places or product groups
    invited,     \* the role a person is invited to
    invitedTo,   \* the invitation is limited
    gone,        \* deleted accounts, withdrawn keys
    secondStep,  \* people with two-step sign-in on
    turningOff,  \* people asked for their password, to turn it off
    wants,       \* what the company asks: "two_step", "approval"
    alive        \* the company is not deleted

membersVars == <<role, limited, invited, invitedTo, gone, secondStep, turningOff, wants, alive>>

Accounts == Persons \cup Keys
Roles == {"owner", "planner", "viewer"}

Owners == {u \in Accounts : role[u] = "owner"}
Editors == {u \in Accounts : role[u] \in {"owner", "planner"}}

\* The account may do what an owner does; a company that requires two-step sign-in opens only to those who have it.
MayManage(u) == /\ alive /\ u \in Persons \ gone /\ role[u] = "owner"
                /\ "two_step" \in wants => u \in secondStep

-----------------------------------------------------------------------------
(* Members and invitations.                                                   *)

\* An owner's invitation is never limited.
Invite(u, p) ==
    /\ MayManage(u) /\ p \in Persons \ gone /\ role[p] = "none"
    /\ \E r \in Roles, limits \in BOOLEAN :
          /\ invited' = [invited EXCEPT ![p] = r]
          /\ invitedTo' = IF limits /\ r # "owner" THEN invitedTo \cup {p} ELSE invitedTo \ {p}
    /\ UNCHANGED <<role, limited, gone, secondStep, turningOff, wants, alive>>

\* A member already stays what they are.
Accept(p) ==
    /\ alive /\ p \in Persons \ gone /\ invited[p] # "none"
    /\ IF role[p] = "none"
       THEN /\ role' = [role EXCEPT ![p] = invited[p]]
            /\ limited' = IF p \in invitedTo THEN limited \cup {p} ELSE limited
       ELSE UNCHANGED <<role, limited>>
    /\ invited' = [invited EXCEPT ![p] = "none"]
    /\ invitedTo' = invitedTo \ {p}
    /\ UNCHANGED <<gone, secondStep, turningOff, wants, alive>>

\* A slip: the last owner may step down.
StaysOwned_Freely(m, r) == TRUE

\* The last owner stays one.
StaysOwned(m, r) == role[m] = "owner" /\ r # "owner" => Cardinality(Owners) > 1

\* The limits are given, or stay; an owner has none.
SetMember(u, m) ==
    /\ MayManage(u) /\ role[m] # "none"
    /\ \E r \in Roles, limits \in {"as they were", "none", "some"} :
          /\ StaysOwned(m, r)
          /\ role' = [role EXCEPT ![m] = r]
          /\ limited' = IF r = "owner" \/ limits = "none" THEN limited \ {m}
                        ELSE IF limits = "some" THEN limited \cup {m} ELSE limited
    /\ UNCHANGED <<invited, invitedTo, gone, secondStep, turningOff, wants, alive>>

Without(m) == role' = [role EXCEPT ![m] = "none"] /\ limited' = limited \ {m}

Remove(u, m) ==
    /\ MayManage(u) /\ role[m] # "none" /\ StaysOwned(m, "none")
    /\ Without(m)
    /\ UNCHANGED <<invited, invitedTo, gone, secondStep, turningOff, wants, alive>>

Withdraw(u, p) ==
    /\ MayManage(u) /\ role[p] = "none" /\ invited[p] # "none"
    /\ invited' = [invited EXCEPT ![p] = "none"] /\ invitedTo' = invitedTo \ {p}
    /\ UNCHANGED <<role, limited, gone, secondStep, turningOff, wants, alive>>

CreateKey(u, k) ==
    /\ MayManage(u) /\ k \in Keys \ gone /\ role[k] = "none"
    /\ \E r \in {"planner", "viewer"} : role' = [role EXCEPT ![k] = r]
    /\ UNCHANGED <<limited, invited, invitedTo, gone, secondStep, turningOff, wants, alive>>

RevokeKey(u, k) ==
    /\ MayManage(u) /\ k \in Keys \ gone /\ role[k] # "none"
    /\ Without(k) /\ gone' = gone \cup {k}
    /\ UNCHANGED <<invited, invitedTo, secondStep, turningOff, wants, alive>>

-----------------------------------------------------------------------------
(* Approval, two-step sign-in, the company's end.                             *)

SetApproval(u) ==
    /\ MayManage(u)
    /\ \/ Cardinality(Editors) >= 2 /\ wants' = wants \cup {"approval"}
       \/ wants' = wants \ {"approval"}
    /\ UNCHANGED <<role, limited, invited, invitedTo, gone, secondStep, turningOff, alive>>

\* An owner without it would shut themselves out.
Require(u) ==
    /\ MayManage(u)
    /\ \/ u \in secondStep /\ wants' = wants \cup {"two_step"}
       \/ wants' = wants \ {"two_step"}
    /\ UNCHANGED <<role, limited, invited, invitedTo, gone, secondStep, turningOff, alive>>

TurnOn(p) ==
    /\ p \in Persons \ (gone \cup secondStep)
    /\ secondStep' = secondStep \cup {p}
    /\ UNCHANGED <<role, limited, invited, invitedTo, gone, turningOff, wants, alive>>

\* Not while a company of the account requires it. Then the password and a code are asked, and the store let go.
AskOff(p) ==
    /\ p \in secondStep \ (gone \cup turningOff)
    /\ ~(alive /\ role[p] # "none" /\ "two_step" \in wants)
    /\ turningOff' = turningOff \cup {p}
    /\ UNCHANGED <<role, limited, invited, invitedTo, gone, secondStep, wants, alive>>

\* They were right, or not.
TurnOff(p) ==
    /\ p \in turningOff
    /\ \E right \in BOOLEAN : secondStep' = IF right THEN secondStep \ {p} ELSE secondStep
    /\ turningOff' = turningOff \ {p}
    /\ UNCHANGED <<role, limited, invited, invitedTo, gone, wants, alive>>

DeleteCompany(u) ==
    /\ MayManage(u) /\ alive' = FALSE
    /\ UNCHANGED <<role, limited, invited, invitedTo, gone, secondStep, turningOff, wants>>

Handed(p, to) == limited \ {p, to}

\* The only owner hands the company to another member, or deletes it with the account.
DeleteAccount(p) ==
    /\ p \in Persons \ gone
    /\ IF alive /\ role[p] = "owner" /\ Cardinality(Owners) = 1
       THEN \/ /\ alive' = FALSE
               /\ Without(p)
            \/ \E to \in Persons \ {p} :
                  /\ role[to] # "none" /\ to \notin gone
                  /\ role' = [role EXCEPT ![p] = "none", ![to] = "owner"]
                  /\ limited' = Handed(p, to)
                  /\ UNCHANGED alive
       ELSE Without(p) /\ UNCHANGED alive
    /\ invited' = [invited EXCEPT ![p] = "none"] /\ invitedTo' = invitedTo \ {p}
    /\ secondStep' = secondStep \ {p} /\ turningOff' = turningOff \ {p}
    /\ gone' = gone \cup {p}
    /\ UNCHANGED wants

-----------------------------------------------------------------------------
MembersInit ==
    /\ \E u \in Persons : role = [a \in Accounts |-> IF a = u THEN "owner" ELSE "none"]
    /\ limited = {} /\ invited = [p \in Persons |-> "none"] /\ invitedTo = {}
    /\ gone = {} /\ secondStep = {} /\ turningOff = {} /\ wants = {} /\ alive = TRUE

Managing(u) == \/ \E p \in Persons : Invite(u, p) \/ Withdraw(u, p)
               \/ \E m \in Accounts : SetMember(u, m) \/ Remove(u, m)
               \/ \E k \in Keys : CreateKey(u, k) \/ RevokeKey(u, k)
               \/ SetApproval(u) \/ Require(u) \/ DeleteCompany(u)

OwnAccount(p) == Accept(p) \/ TurnOn(p) \/ AskOff(p) \/ TurnOff(p) \/ DeleteAccount(p)

MembersNext == \E p \in Persons : Managing(p) \/ OwnAccount(p)

MembersSpec == MembersInit /\ [][MembersNext]_membersVars

MembersTypeOK ==
    /\ role \in [Accounts -> Roles \cup {"none"}]
    /\ invited \in [Persons -> Roles \cup {"none"}] /\ invitedTo \subseteq Persons
    /\ limited \subseteq Accounts /\ gone \subseteq Accounts
    /\ secondStep \subseteq Persons /\ turningOff \subseteq Persons
    /\ wants \subseteq {"two_step", "approval"} /\ alive \in BOOLEAN

\* However members are invited, changed, removed and leave, a company that is not deleted has an owner ("a company
\* needs an owner"; delete_account hands it on).
AlwaysOwned == alive => Owners # {}

\* An owner's rights are never limited, whichever way they became one (set_member, accept_invite, delete_account).
OwnersUnlimited == \A u \in Owners : u \notin limited

\* Two-step sign-in is turned off "not while a company of the account requires it" (two_step_disable).
StaysOnWhileRequired ==
    [][\A p \in secondStep : alive /\ "two_step" \in wants /\ role[p] # "none" /\ p \notin gone' => p \in secondStep']_membersVars

\* "Approval needs a second person who can change the data" (set_approval).
ApprovalHasASecond == alive /\ "approval" \in wants => Cardinality(Editors) >= 2
==============================================================================
