--------------------------- MODULE MCCompanyStore ---------------------------
(* CompanyStore for TLC: a setting (master data), an order everyone has and    *)
(* one that requests may add under the same number.                          *)
EXTENDS CompanyStore, TLC

CONSTANTS Texts,          \* contents of the setting
          FirstTexts,     \* contents of the order everyone has
          SecondTexts     \* contents of the second order, Absent among them

Doc(s, first, second) ==
    [k \in {<<"setting", "s">>, <<"order", 1>>} \cup (IF second = Absent THEN {} ELSE {<<"order", 2>>}) |->
        IF k = <<"setting", "s">> THEN s ELSE IF k = <<"order", 1>> THEN first ELSE second]

MCDocs == {Doc(s, f, n) : s \in Texts, f \in FirstTexts, n \in SecondTexts}

\* In a merge, every clash theirs, or every clash mine.
MCChoices == {[k \in {} |-> "mine"],
              [k \in {<<"setting", "s">>} \cup {<<"order", n>> : n \in 1..2} |-> "mine"]}

\* Who is who, and which content is which, tells no two behaviours apart.
Symmetry == {u @@ t : u \in Permutations(Users), t \in Permutations(Texts)}
=============================================================================
