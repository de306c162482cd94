---------------------------- MODULE MCPermission ----------------------------
(***************************************************************************)
(* Instances of Permission: two sessions, two targets; a config that asks  *)
(* for everything, one that denies b, one that allows a.                   *)
(***************************************************************************)
EXTENDS Permission, TLC

CONSTANTS s1, s2, a, b

Rule(targets, what) == [match |-> targets, action |-> what, by |-> None]
AskAll == <<Rule({a, b}, "ask")>>
DenyB == <<Rule({a, b}, "ask"), Rule({b}, "deny")>>
AllowA == <<Rule({a, b}, "deny"), Rule({a}, "allow")>>

Input(s, targets, granted, rules) ==
    [session |-> s, patterns |-> targets, always |-> granted, ruleset |-> rules]

MCInputs ==
    {Input(s, {a}, {a}, AskAll) : s \in {s1, s2}} \cup
    {Input(s1, {a, b}, {a, b}, AskAll), Input(s2, {b}, {b}, DenyB),
     Input(s2, {a}, {a, b}, AllowA \o DenyB)}

NoRules == <<>>

Symmetry == Permutations(Requests)
=============================================================================
