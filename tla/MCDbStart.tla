----------------------------- MODULE MCDbStart -----------------------------
(* A table of defaults, the users and the screenshots; two desktops and the   *)
(* server, or the server alone.                                               *)
EXTENDS DbStart, TLC

MCTables == <<"permissions", "users", "screenshots">>
MCSeedKeys == [t \in {"permissions", "users", "screenshots"} |->
                  IF t = "permissions" THEN {"rule.view"} ELSE {}]
MCSymmetry == Permutations(DemoIds) \union Permutations(Desktops)
=============================================================================
