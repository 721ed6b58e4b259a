--------------------------- MODULE MCIssueMemory ---------------------------
(* Two processes, two captures, rules of each type and texts of two words.   *)
EXTENDS IssueMemory, TLC

MCWords == {"err", "ERR", "ok"}
MCFold == [w \in MCWords |-> IF w = "ERR" THEN "err" ELSE w]
MCBucket == [w \in MCWords |-> IF w = "ok" THEN 4 ELSE 3]
MCTexts == {<<"ERR">>, <<"ok", "ok">>, <<"ok", "err">>}
Rule(type, terms, ignoreCase, valid) ==
    [type |-> type, terms |-> terms, ignoreCase |-> ignoreCase, valid |-> valid]
MCRules == {Rule("contains", {<<"err">>}, TRUE, TRUE),
            Rule("not_contains", {<<"ok">>}, TRUE, TRUE),
            Rule("regex", {<<"err">>, <<"ok">>}, FALSE, FALSE),
            Rule("regex", {<<"ok", "ok">>}, TRUE, TRUE),
            Rule("all_keywords", {}, TRUE, TRUE),
            Rule("all_keywords", {<<"ERR">>, <<"ok">>}, TRUE, TRUE),
            Rule("any_keywords", {<<"err">>, <<"ok">>}, FALSE, TRUE),
            Rule("unknown", {}, TRUE, TRUE)}
Symmetry == Permutations(Workers) \union Permutations(Apps)
=============================================================================
