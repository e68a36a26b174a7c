---------------------------- MODULE RevisionTable ----------------------------
(***************************************************************************)
(* What keeping revisions promises, without saying how they are kept: a    *)
(* table of whole documents, one for each revision that can be opened.     *)
(* A save adds one at the end and touches no other; putting one back saves *)
(* the document of the revision that was asked for once more, unless it is *)
(* the company's already. RevisionChain, with its deltas, its two windows  *)
(* and its gaps, implements it.                                            *)
(***************************************************************************)
EXTENDS Integers

CONSTANT Docs       \* the documents a company can be

VARIABLES
    latest,         \* the company's revision
    table,          \* revision -> its document, for those that can be opened
    asked           \* the revision being put back, 0 for none

tableVars == <<latest, table, asked>>

-----------------------------------------------------------------------------
\* The latest can always be opened; of the older ones, any.
Init ==
    /\ latest \in Nat \ {0}
    /\ latest \in DOMAIN table /\ DOMAIN table \subseteq 1..latest
    /\ table \in [DOMAIN table -> Docs]
    /\ asked = 0

Append(doc) ==
    /\ doc # table[latest]
    /\ latest' = latest + 1
    /\ table' = [r \in DOMAIN table \cup {latest + 1} |->
                   IF r = latest + 1 THEN doc ELSE table[r]]

Save == (\E doc \in Docs : Append(doc)) /\ UNCHANGED asked

Ask == /\ asked = 0
       /\ asked' \in DOMAIN table
       /\ UNCHANGED <<latest, table>>

PutBack == /\ asked # 0
           /\ asked' = 0
           /\ \/ Append(table[asked])
              \/ UNCHANGED <<latest, table>>        \* the same, or refused

Next == Save \/ Ask \/ PutBack

Spec == Init /\ [][Next]_tableVars
=============================================================================
