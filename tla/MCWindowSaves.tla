---------------------------- MODULE MCWindowSaves ----------------------------
(* WindowSaves for TLC: a setting and no orders to begin with; the windows of   *)
(* two people, each in a browser of its own, or two tabs of one browser.       *)
EXTENDS WindowSaves, TLC

CONSTANTS u1, u2, w1, w2, w3

MCUserOf == w1 :> u1 @@ w2 :> u2 @@ w3 :> u1

MCBrowserOf == w1 :> "b1" @@ w2 :> "b2" @@ w3 :> "b1"

\* Bounds: the edits in a window, and in all of them.
MCMaxEdits == w1 :> 2 @@ w2 :> 1 @@ w3 :> 1

CONSTANTS
    MaxInAll,       \* in two windows of two people
    MaxHeld,        \* the same, where changes wait for approval
    MaxTogether     \* in two windows of one browser

Setting == <<"setting", "s">>

MCDocs == {[k \in {Setting} |-> <<NoClient, 0>>]}

MCChoices == {[k \in {Setting} \cup {<<"order", n>> : n \in 1..4} |-> side] : side \in {"mine", "theirs"}}

VARIABLE together   \* whether the two windows at work are tabs of one browser

AtWork == {w1} \cup (IF together THEN {w3} ELSE {w2})

MostEdits == IF together THEN MaxTogether ELSE IF approval THEN MaxHeld ELSE MaxInAll

MCInit == WInit /\ together \in BOOLEAN

MCNext ==
    /\ \E w \in AtWork : WStep(w)
    /\ win'[w1].made + win'[w2].made + win'[w3].made <= MostEdits
    /\ UNCHANGED together

\* WFairness: of w2 and w3 only one is at work, so what holds of either holds of it.
MCFairness ==
    \A W \in {{w1}, {w2, w3}} :
       /\ WF_allVars(\E w \in W : SaveNow(w))
       /\ SF_allVars(\E w \in W : SaveServed(w))
       /\ SF_allVars(\E w \in W : SaveAnswered(w))
       /\ SF_allVars(\E w \in W : MergeServed(w))
       /\ SF_allVars(\E w \in W : MergeAnswered(w))

MCSpec == MCInit /\ [][MCNext]_<<together, allVars>> /\ MCFairness
=============================================================================
