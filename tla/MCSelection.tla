---------------------------- MODULE MCSelection ----------------------------
(* Three classes over four entries, one of which holds the first and the   *)
(* last entry and one the second alone, and the ways an option is used.    *)
EXTENDS Selection

CONSTANTS c0, c1, c2

MCMember == [c \in Class |-> CASE c = c0 -> {0, 3} [] c = c1 -> {1} [] c = c2 -> {1, 2}]

UsedWith(k, forms, n) == [kind |-> k, forms |-> forms, excluded |-> n, again |-> FALSE]

(* The largest orderly uses: one with fewer forms or exclusions behaves as *)
(* one of these does.  A number comes with no exclusion; at most one name, *)
(* or any number of classes of tests, are excluded at the end.             *)
Orderly ==
  {UsedWith(k, Form \ {"notclass", "notone"}, 0) : k \in Kind}
    \cup {UsedWith(k, Form \ {"number", "notclass"}, 1) : k \in {"comm", "type"}}
    \cup {UsedWith("test", Form \ {"number"}, 1)}
    \cup {UsedWith("test", Form \ {"number", "notone"}, MaxTokens)}

ASSUME OrderlyAssumption == Orderly \subseteq OrderlyUsage

(* Two excluded tests; a class of communicators or of types excluded.      *)
Careless ==
  {UsedWith("test", {"all", "notone"}, 2)}
    \cup {UsedWith(k, {"all", "notclass"}, 1) : k \in {"comm", "type"}}
=============================================================================
