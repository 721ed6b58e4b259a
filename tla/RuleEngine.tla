----------------------------- MODULE RuleEngine -----------------------------
(* The rule engine: which rules a recognised text triggers, and which terms  *)
(* it reports (core/rule_engine.py).                                          *)
(*                                                                            *)
(* A text is a sequence of words; what the program compares by characters is *)
(* compared here by words.  Fold says which words differ by case only.  The   *)
(* wording of the reasons is left out.                                        *)
EXTENDS Naturals, Sequences, FiniteSets

CONSTANTS
    Words,      \* the words of texts, values and keywords
    Fold        \* [Words -> Words], str.lower()

ASSUME FoldAssumption == Fold \in [Words -> Words]

Phrase == Seq(Words)
Kinds == {"contains", "not_contains", "regex", "all_keywords", "any_keywords"}

(* A rule as rules.yaml gives it.  "terms" holds the one value of contains and *)
(* not_contains, the keywords of the keyword rules, and of a pattern the       *)
(* texts it can match; "valid" says that the pattern compiles.                 *)
IsRule(r) == /\ r.ignoreCase \in BOOLEAN
             /\ r.valid \in BOOLEAN
             /\ r.terms \subseteq Phrase
             /\ r.type \in {"contains", "not_contains"} => \E v \in r.terms : r.terms = {v}

Norm(text, ignoreCase) ==
    IF ignoreCase THEN [i \in DOMAIN text |-> Fold[text[i]]] ELSE text

(* Python's "needle in hay". *)
In(needle, hay) ==
    \E k \in 0 .. Len(hay) : /\ k + Len(needle) <= Len(hay)
                             /\ SubSeq(hay, k + 1, k + Len(needle)) = needle

Verdict(matched, terms) == [matched |-> matched, terms |-> terms]

(* all_keywords without its test that there are keywords at all. *)
KeywordsM(r, hay) ==
    LET present == {k \in r.terms : In(Norm(k, r.ignoreCase), hay)}
        missing == {k \in r.terms : ~In(Norm(k, r.ignoreCase), hay)}
    IN Verdict(IF r.type = "all_keywords" THEN missing = {} ELSE present # {}, present)
Keywords(r, hay) ==
    LET present == {k \in r.terms : In(Norm(k, r.ignoreCase), hay)}
        missing == {k \in r.terms : ~In(Norm(k, r.ignoreCase), hay)}
    IN Verdict(IF r.type = "all_keywords" THEN missing = {} /\ r.terms # {}
                                          ELSE present # {},
               present)

(* contains and not_contains: the value is reported when it is present. *)
Value(r, hay) ==
    LET value   == CHOOSE v \in r.terms : TRUE
        present == In(Norm(value, r.ignoreCase), hay)
    IN Verdict(IF r.type = "contains" THEN present ELSE ~present,
               IF present THEN {value} ELSE {})

(* A pattern that does not compile matches nothing. *)
Regex(r, hay) ==
    LET hits == {p \in r.terms : In(Norm(p, r.ignoreCase), hay)}
    IN IF r.valid /\ hits # {} THEN Verdict(TRUE, {CHOOSE p \in hits : TRUE})
                               ELSE Verdict(FALSE, {})

EvaluateRule(r, text) ==
    LET hay == Norm(text, r.ignoreCase)
    IN CASE r.type \in {"contains", "not_contains"}       -> Value(r, hay)
         [] r.type = "regex"                              -> Regex(r, hay)
         [] r.type \in {"all_keywords", "any_keywords"}   -> Keywords(r, hay)
         [] OTHER                                         -> Verdict(FALSE, {})

-----------------------------------------------------------------------------
(* What the header of the source promises of the five types, word by word.    *)

Alike(v, w, ignoreCase) == v = w \/ (ignoreCase /\ Fold[v] = Fold[w])

Occurs(term, text, ignoreCase) ==
    \E k \in 0 .. Len(text) :
        /\ k + Len(term) <= Len(text)
        /\ \A i \in 1 .. Len(term) : Alike(term[i], text[k + i], ignoreCase)

Promised(r, text) ==
    LET found == {t \in r.terms : Occurs(t, text, r.ignoreCase)}
    IN CASE r.type = "contains"     -> found # {}
         [] r.type = "not_contains" -> found = {}
         [] r.type = "regex"        -> r.valid /\ found # {}
         [] r.type = "all_keywords" -> r.terms # {} /\ found = r.terms
         [] r.type = "any_keywords" -> found # {}
         [] OTHER                   -> FALSE

(* The verdict is the promised one, and the terms it reports do occur.        *)
Agrees(r, text, v) ==
    /\ v.matched = Promised(r, text)
    /\ \A t \in v.terms : t \in r.terms /\ Occurs(t, text, r.ignoreCase)
=============================================================================
