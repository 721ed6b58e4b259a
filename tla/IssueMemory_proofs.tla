------------------------- MODULE IssueMemory_proofs -------------------------
(***************************************************************************)
(* Proofs about IssueMemory and RuleEngine, for any rules, texts and       *)
(* words, any vectors and threshold, and any processes and captures.       *)
(***************************************************************************)
EXTENDS IssueMemory, TLAPS, SequenceTheorems, FiniteSetTheorems, WellFoundedInduction

-----------------------------------------------------------------------------
(* The rule engine *)

\* A comparison of folded texts finds the term where the words are alike.
LEMMA FoundIs ==
    ASSUME NEW term \in Phrase, NEW text \in Phrase, NEW ic \in BOOLEAN
    PROVE  In(Norm(term, ic), Norm(text, ic)) <=> Occurs(term, text, ic)
<1> DEFINE needle == Norm(term, ic)
           hay == Norm(text, ic)
<1>1. /\ needle \in Phrase /\ hay \in Phrase
      /\ Len(needle) = Len(term) /\ Len(hay) = Len(text)
      /\ Len(term) \in Nat /\ Len(text) \in Nat
      /\ DOMAIN needle = 1 .. Len(term) /\ DOMAIN hay = 1 .. Len(text)
  BY FoldAssumption DEF Norm, Phrase
<1>2. \A i \in 1 .. Len(term) : needle[i] = IF ic THEN Fold[term[i]] ELSE term[i]
  BY DEF Norm, Phrase
<1>3. \A i \in 1 .. Len(text) : hay[i] = IF ic THEN Fold[text[i]] ELSE text[i]
  BY DEF Norm, Phrase
<1> HIDE DEF needle, hay
<1>4. ASSUME NEW k \in 0 .. Len(text), k + Len(term) <= Len(text)
      PROVE  SubSeq(hay, k + 1, k + Len(needle)) = needle <=>
             \A i \in 1 .. Len(term) : Alike(term[i], text[k + i], ic)
  <2> DEFINE part == SubSeq(hay, k + 1, k + Len(needle))
  <2>1. /\ part \in Seq(Words) /\ Len(part) = Len(needle)
        /\ \A i \in 1 .. Len(needle) : part[i] = hay[k + i]
    <3>1. /\ k + 1 \in Int /\ k + Len(needle) \in Int
          /\ \A i \in k + 1 .. k + Len(needle) : i \in 1 .. Len(text)
      BY <1>1, <1>4
    <3>2. \A i \in k + 1 .. k + Len(needle) : hay[i] \in Words
      BY <1>1, <3>1 DEF Phrase
    <3>3. /\ part \in Seq(Words)
          /\ Len(part) = IF k + 1 <= k + Len(needle) THEN k + Len(needle) - (k + 1) + 1 ELSE 0
          /\ \A i \in 1 .. k + Len(needle) - (k + 1) + 1 : part[i] = hay[k + 1 + i - 1]
      BY <3>1, <3>2, SubSeqProperties
    <3> HIDE DEF part
    <3>4. k \in Int /\ Len(needle) \in Nat
      BY <1>1
    <3>5. Len(part) = Len(needle)
      BY <3>3, <3>4
    <3>6. ASSUME NEW i \in 1 .. Len(needle) PROVE part[i] = hay[k + i]
      <4>1. k + 1 + i - 1 = k + i /\ i \in 1 .. k + Len(needle) - (k + 1) + 1
        BY <3>4
      <4> QED
        BY <3>3, <4>1
    <3> QED
      BY <3>3, <3>5, <3>6
  <2> HIDE DEF part
  <2>2. part = needle <=> \A i \in 1 .. Len(needle) : part[i] = needle[i]
    BY <1>1, <2>1, SeqEqual DEF Phrase
  <2>3. ASSUME NEW i \in 1 .. Len(term)
        PROVE  part[i] = needle[i] <=> Alike(term[i], text[k + i], ic)
    <3>1. k + i \in 1 .. Len(text)
      BY <1>1, <1>4
    <3> QED
      BY <1>1, <1>2, <1>3, <2>1, <3>1 DEF Alike
  <2> QED
    BY <1>1, <2>2, <2>3 DEF part
<1> QED
  BY <1>1, <1>4 DEF In, Occurs, needle, hay

\* A rule's verdict, of each kind, is the promised one; and it reports terms of the rule.
LEMMA EngineIsRight ==
    ASSUME NEW r, IsRule(r), NEW text \in Phrase
    PROVE  /\ Agrees(r, text, EvaluateRule(r, text))
           /\ EvaluateRule(r, text).matched \in BOOLEAN
           /\ EvaluateRule(r, text).terms \subseteq r.terms
<1> DEFINE ic == r.ignoreCase
           hay == Norm(text, ic)
           found == {k \in r.terms : Occurs(k, text, ic)}
           v == EvaluateRule(r, text)
<1>1. ic \in BOOLEAN /\ r.valid \in BOOLEAN /\ r.terms \subseteq Phrase
  BY DEF IsRule
<1>2. \A k \in r.terms : In(Norm(k, ic), hay) <=> k \in found
  BY <1>1, FoundIs
<1>3. \A matched, terms : /\ Verdict(matched, terms).matched = matched
                          /\ Verdict(matched, terms).terms = terms
  BY DEF Verdict
<1>4. \A k \in found : k \in r.terms /\ Occurs(k, text, ic)
  OBVIOUS
<1> SUFFICES /\ v.matched = Promised(r, text) /\ v.matched \in BOOLEAN
             /\ v.terms \subseteq found
  BY <1>4 DEF Agrees
<1> HIDE DEF v, hay
<1>5. CASE r.type \in {"contains", "not_contains"}
  <2>1. PICK value \in r.terms : r.terms = {value}
    BY <1>5 DEF IsRule
  <2> DEFINE present == In(Norm(value, ic), hay)
  <2>2. (CHOOSE k \in r.terms : TRUE) = value
    BY <2>1
  <2>3. v = Value(r, hay)
    BY <1>5 DEF EvaluateRule, v, hay
  <2>4. v = Verdict(IF r.type = "contains" THEN present ELSE ~present,
                    IF present THEN {value} ELSE {})
    BY <2>2, <2>3, Zenon DEF Value
  <2>5. found = IF present THEN {value} ELSE {}
    BY <1>2, <2>1
  <2>6. present \in BOOLEAN
    BY DEF In
  <2>7. Promised(r, text) = IF r.type = "contains" THEN found # {} ELSE found = {}
    BY <1>5 DEF Promised
  <2> HIDE DEF present, found
  <2>8. v.matched = (IF r.type = "contains" THEN present ELSE ~present)
    BY <1>3, <2>4
  <2>9. v.terms = IF present THEN {value} ELSE {}
    BY <1>3, <2>4
  <2>10. found # {} <=> present
    BY <2>5
  <2>11. found = {} <=> ~present
    BY <2>5
  <2>12. v.matched = Promised(r, text)
    <3>1. CASE r.type = "contains"
      <4>1. v.matched = present /\ Promised(r, text) = (found # {})
        BY <2>7, <2>8, <3>1
      <4> QED
        BY <2>6, <2>10, <4>1, Zenon
    <3>2. CASE r.type # "contains"
      <4>1. v.matched = ~present /\ Promised(r, text) = (found = {})
        BY <2>7, <2>8, <3>2
      <4> QED
        BY <2>6, <2>11, <4>1, Zenon
    <3> QED
      BY <3>1, <3>2
  <2>13. v.matched \in BOOLEAN
    BY <2>6, <2>8
  <2> QED
    BY <2>5, <2>9, <2>12, <2>13
<1>6. CASE r.type = "regex"
  <2>1. v = Regex(r, hay)
    BY <1>6 DEF EvaluateRule, v, hay
  <2>2. {k \in r.terms : In(Norm(k, ic), hay)} = found
    BY <1>2
  <2>3. v = IF r.valid /\ found # {} THEN Verdict(TRUE, {CHOOSE p \in found : TRUE})
                                     ELSE Verdict(FALSE, {})
    <3> DEFINE hits == {k \in r.terms : In(Norm(k, r.ignoreCase), hay)}
               Of(S) == IF r.valid /\ S # {} THEN Verdict(TRUE, {CHOOSE p \in S : TRUE})
                                            ELSE Verdict(FALSE, {})
    <3>1. v = Of(hits)
      BY <2>1, Zenon DEF Regex
    <3>2. hits = found
      BY <2>2
    <3>3. v = Of(found)
      <4> HIDE DEF hits, found, Of
      <4> QED
        BY <3>1, <3>2
    <3> QED
      BY <3>3
  <2>4. Promised(r, text) = (r.valid /\ found # {})
    BY <1>6 DEF Promised
  <2> HIDE DEF found
  <2>5. CASE r.valid /\ found # {}
    <3>1. (CHOOSE p \in found : TRUE) \in found
      BY <2>5
    <3>2. v.matched = TRUE /\ v.terms = {CHOOSE p \in found : TRUE}
      BY <1>3, <2>3, <2>5
    <3> QED
      BY <2>4, <2>5, <3>1, <3>2
  <2>6. CASE ~(r.valid /\ found # {})
    <3>1. v.matched = FALSE /\ v.terms = {}
      BY <1>3, <2>3, <2>6
    <3> QED
      BY <2>4, <2>6, <3>1
  <2> QED
    BY <2>5, <2>6, Zenon
<1>7. CASE r.type \in {"all_keywords", "any_keywords"}
  <2>1. v = Keywords(r, hay)
    BY <1>7 DEF EvaluateRule, v, hay
  <2>2. /\ {k \in r.terms : In(Norm(k, ic), hay)} = found
        /\ {k \in r.terms : ~In(Norm(k, ic), hay)} = r.terms \ found
    BY <1>2
  <2>3. v = Verdict(IF r.type = "all_keywords" THEN r.terms \ found = {} /\ r.terms # {}
                                               ELSE found # {}, found)
    BY <2>1, <2>2, Zenon DEF Keywords
  <2>4. Promised(r, text) = IF r.type = "all_keywords" THEN r.terms # {} /\ found = r.terms
                                                       ELSE found # {}
    BY <1>7 DEF Promised
  <2>5. found \subseteq r.terms
    OBVIOUS
  <2> HIDE DEF found
  <2>6. v.matched = (IF r.type = "all_keywords" THEN r.terms \ found = {} /\ r.terms # {}
                                                ELSE found # {})
    BY <1>3, <2>3
  <2>7. v.terms = found
    BY <1>3, <2>3
  <2>8. r.terms \ found = {} <=> found = r.terms
    BY <2>5
  <2> QED
    BY <2>4, <2>6, <2>7, <2>8
<1>8. CASE r.type \notin {"contains", "not_contains", "regex", "all_keywords", "any_keywords"}
  <2>1. v = Verdict(FALSE, {})
    BY <1>8 DEF EvaluateRule, v
  <2>2. Promised(r, text) = FALSE
    BY <1>8 DEF Promised
  <2> HIDE DEF found
  <2>3. v.matched = FALSE /\ v.terms = {}
    BY <1>3, <2>1
  <2> QED
    BY <2>2, <2>3
<1> QED
  BY <1>5, <1>6, <1>7, <1>8

-----------------------------------------------------------------------------
(* The vectors *)

LEMMA PairsFinite ==
    ASSUME NEW u \in Vector, NEW v \in Vector
    PROVE  IsFiniteSet(UNION {{b} \X ((1 .. u[b]) \X (1 .. v[b])) : b \in Buckets})
<1> DEFINE pairs == [b \in Buckets |-> {b} \X ((1 .. u[b]) \X (1 .. v[b]))]
           all == {{b} \X ((1 .. u[b]) \X (1 .. v[b])) : b \in Buckets}
<1>1. IsFiniteSet(Buckets)
  <2>1. 0 \in Int /\ Dims - 1 \in Int
    BY IssueAssumption
  <2> QED
    BY <2>1, FS_Interval DEF Buckets
<1>2. pairs \in Surjection(Buckets, all)
  BY DEF Surjection
<1>3. IsFiniteSet(all)
  BY <1>1, <1>2, FS_Surjection
<1>4. \A b \in Buckets : IsFiniteSet({b} \X ((1 .. u[b]) \X (1 .. v[b])))
  <2> TAKE b \in Buckets
  <2>1. u[b] \in Int /\ v[b] \in Int /\ 1 \in Int
    BY DEF Vector
  <2>2. IsFiniteSet(1 .. u[b]) /\ IsFiniteSet(1 .. v[b])
    BY <2>1, FS_Interval
  <2>3. IsFiniteSet((1 .. u[b]) \X (1 .. v[b]))
    BY <2>2, FS_Product
  <2>4. IsFiniteSet({b})
    BY FS_Singleton
  <2> QED
    BY <2>3, <2>4, FS_Product
<1> QED
  BY <1>3, <1>4, FS_UNION

LEMMA DotType ==
    ASSUME NEW u \in Vector, NEW v \in Vector
    PROVE  Dot(u, v) \in Nat
BY PairsFinite, FS_CardinalityType DEF Dot

\* A vector that has something in common with another is not empty.
LEMMA DotOwn ==
    ASSUME NEW u \in Vector, NEW v \in Vector, Dot(u, v) > 0
    PROVE  Dot(v, v) > 0
<1> DEFINE Pairs(x, y) == UNION {{b} \X ((1 .. x[b]) \X (1 .. y[b])) : b \in Buckets}
<1>1. PICK p : p \in Pairs(u, v)
  <2>1. Pairs(u, v) # {}
    <3> SUFFICES ASSUME Pairs(u, v) = {} PROVE FALSE
      OBVIOUS
    <3>1. Dot(u, v) = Cardinality({})
      BY DEF Dot
    <3> QED
      BY <3>1, FS_EmptySet
  <2> QED
    BY <2>1
<1>2. PICK b \in Buckets : p \in {b} \X ((1 .. u[b]) \X (1 .. v[b]))
  BY <1>1
<1>3. PICK j : j \in 1 .. v[b]
  BY <1>2
<1>4. <<b, <<j, j>>>> \in Pairs(v, v)
  BY <1>2, <1>3
<1>5. Dot(v, v) # 0
  <2>1. IsFiniteSet(Pairs(v, v))
    BY PairsFinite
  <2>2. Cardinality(Pairs(v, v)) # 0
    BY <1>4, <2>1, FS_EmptySet
  <2> QED
    BY <2>2 DEF Dot
<1> QED
  BY <1>5, DotType

-----------------------------------------------------------------------------
(* The nearest vectors *)

\* A factor cancels.
LEMMA CancelStrict ==
    ASSUME NEW a \in Nat, NEW b \in Nat, NEW c \in Nat, a * c > b * c
    PROVE  a > b
<1> SUFFICES ASSUME a <= b PROVE FALSE
  OBVIOUS
<1>1. PICK d \in Nat : b = a + d
  <2>1. b - a \in Nat /\ b = a + (b - a)
    OBVIOUS
  <2> QED
    BY <2>1
<1>2. b * c = a * c + d * c
  BY <1>1
<1>3. a * c \in Nat /\ d * c \in Nat
  OBVIOUS
<1> QED
  BY <1>2, <1>3

LEMMA Cancel ==
    ASSUME NEW a \in Nat, NEW b \in Nat, NEW c \in Nat, c > 0, a * c >= b * c
    PROVE  a >= b
<1> SUFFICES ASSUME b > a PROVE FALSE
  OBVIOUS
<1>1. PICK d \in Nat : b = a + 1 + d
  <2>1. b - a - 1 \in Nat /\ b = a + 1 + (b - a - 1)
    OBVIOUS
  <2> QED
    BY <2>1
<1>2. b * c = a * c + c + d * c
  BY <1>1
<1>3. a * c \in Nat /\ d * c \in Nat
  OBVIOUS
<1> QED
  BY <1>2, <1>3

LEMMA Scale ==
    ASSUME NEW a \in Nat, NEW b \in Nat, NEW c \in Nat, a >= b
    PROVE  a * c >= b * c
<1>1. PICK d \in Nat : a = b + d
  <2>1. a - b \in Nat /\ a = b + (a - b)
    OBVIOUS
  <2> QED
    BY <2>1
<1>2. a * c = b * c + d * c
  BY <1>1
<1>3. b * c \in Nat /\ d * c \in Nat
  OBVIOUS
<1> QED
  BY <1>2, <1>3

\* Fractions, by cross-multiplication: greater is transitive,
LEMMA RatioTransitive ==
    ASSUME NEW p \in Nat, NEW q \in Nat, NEW r \in Nat, NEW s \in Nat, NEW t \in Nat, NEW u \in Nat,
           p * s > r * q, r * u > t * s
    PROVE  p * u > t * q
<1>1. (p * s) * u >= (r * q + 1) * u
  <2>1. p * s \in Nat /\ r * q + 1 \in Nat /\ p * s >= r * q + 1
    OBVIOUS
  <2> QED
    BY <2>1, Scale
<1>2. (r * u) * q >= (t * s) * q
  <2>1. r * u \in Nat /\ t * s \in Nat /\ r * u >= t * s
    OBVIOUS
  <2> QED
    BY <2>1, Scale
<1>3. /\ (p * s) * u = (p * u) * s
      /\ (r * q + 1) * u = (r * u) * q + u
      /\ (t * s) * q = (t * q) * s
  OBVIOUS
<1>4. u > 0
  <2>1. t * s \in Nat
    OBVIOUS
  <2> QED
    BY <2>1
<1>5. (p * u) * s > (t * q) * s
  <2>1. /\ (p * u) * s \in Nat /\ (r * u) * q \in Nat /\ (t * q) * s \in Nat
    OBVIOUS
  <2> QED
    BY <1>1, <1>2, <1>3, <1>4, <2>1
<1>6. p * u \in Nat /\ t * q \in Nat
  OBVIOUS
<1> QED
  BY <1>5, <1>6, CancelStrict

\* and one that is no smaller reaches what the other reaches.
LEMMA RatioReaches ==
    ASSUME NEW p \in Nat, NEW q \in Nat, NEW r \in Nat, NEW s \in Nat, NEW k \in Nat, NEW m \in Nat,
           q > 0, k * p >= m * q, ~(p * s > r * q)
    PROVE  k * r >= m * s
<1>1. (k * p) * s >= (m * q) * s
  <2>1. k * p \in Nat /\ m * q \in Nat
    OBVIOUS
  <2> QED
    BY <2>1, Scale
<1>2. (r * q) * k >= (p * s) * k
  <2>1. r * q \in Nat /\ p * s \in Nat
    OBVIOUS
  <2>2. r * q >= p * s
    BY <2>1
  <2> QED
    BY <2>1, <2>2, Scale
<1>3. /\ (r * q) * k = (k * r) * q
      /\ (p * s) * k = (k * p) * s
      /\ (m * q) * s = (m * s) * q
  OBVIOUS
<1>4. k * r \in Nat /\ m * s \in Nat
  OBVIOUS
<1>5. (k * r) * q >= (m * s) * q
  <2>1. (k * r) * q \in Nat /\ (m * s) * q \in Nat /\ (k * p) * s \in Nat
    OBVIOUS
  <2> QED
    BY <1>1, <1>2, <1>3, <2>1
<1> QED
  BY <1>4, <1>5, Cancel

\* The one of the best score is near, where any is.
LEMMA NearestReaches ==
    ASSUME NEW x \in Vector, NEW vecs, IsFiniteSet(DOMAIN vecs),
           \A j \in DOMAIN vecs : vecs[j] \in Vector,
           NEW i \in DOMAIN vecs, Near(x, vecs[i])
    PROVE  \E b \in Nearest(x, vecs) : Near(x, vecs[b])
<1> DEFINE D(j) == Dot(x, vecs[j])
           P(j) == D(j) * D(j)
           Q(j) == Dot(vecs[j], vecs[j])
           Ahead(j) == {k \in DOMAIN vecs : Closer(x, vecs[k], vecs[j])}
           Sharing == {j \in DOMAIN vecs : D(j) > 0}
           All == {Ahead(j) : j \in Sharing}
<1>1. \A j \in DOMAIN vecs : D(j) \in Nat /\ P(j) \in Nat /\ Q(j) \in Nat
  <2> TAKE j \in DOMAIN vecs
  <2>1. D(j) \in Nat /\ Q(j) \in Nat
    BY DotType
  <2> HIDE DEF D
  <2> QED
    BY <2>1
<1>2. \A j, k \in DOMAIN vecs : Closer(x, vecs[k], vecs[j]) <=> P(k) * Q(j) > P(j) * Q(k)
  BY DEF Closer
<1>3. D(i) > 0 /\ Q(i) > 0
  BY DotOwn DEF Near
<1> HIDE DEF P, Q
<1>4. All \subseteq FiniteSubsetsOf(DOMAIN vecs) /\ All # {}
  <2>1. \A j \in DOMAIN vecs : Ahead(j) \subseteq DOMAIN vecs /\ IsFiniteSet(Ahead(j))
    BY FS_Subset
  <2>2. i \in Sharing
    BY <1>3
  <2> QED
    BY <2>1, <2>2 DEF FiniteSubsetsOf
<1>5. PICK least \in All :
        \A s \in All : <<s, least>> \notin StrictSubsetOrdering(DOMAIN vecs)
  <2>1. IsWellFoundedOn(StrictSubsetOrdering(DOMAIN vecs), FiniteSubsetsOf(DOMAIN vecs))
    BY FS_StrictSubsetOrderingWellFounded
  <2> HIDE DEF All
  <2> QED
    BY <1>4, <2>1, WFMin
<1>6. PICK b \in Sharing : least = Ahead(b)
  BY <1>5
<1>7. ASSUME NEW j \in DOMAIN vecs, Closer(x, vecs[j], vecs[b])
      PROVE  FALSE
  <2>1. P(j) * Q(b) > P(b) * Q(j)
    BY <1>2, <1>6, <1>7
  <2>2. j \in Sharing
    <3>1. P(j) # 0
      <4> SUFFICES ASSUME P(j) = 0 PROVE FALSE
        OBVIOUS
      <4>1. P(b) * Q(j) \in Nat /\ P(j) * Q(b) = 0
        BY <1>1, <1>6
      <4> QED
        BY <2>1, <4>1
    <3>2. D(j) # 0
      BY <3>1 DEF P
    <3> QED
      BY <1>1, <3>2
  <2>3. Ahead(j) \subseteq Ahead(b)
    <3> SUFFICES ASSUME NEW k \in DOMAIN vecs, Closer(x, vecs[k], vecs[j])
                 PROVE  Closer(x, vecs[k], vecs[b])
      OBVIOUS
    <3>1. P(k) * Q(j) > P(j) * Q(k)
      BY <1>2
    <3>2. P(k) * Q(b) > P(b) * Q(k)
      BY <1>1, <1>6, <2>1, <3>1, RatioTransitive
    <3> QED
      BY <1>2, <1>6, <3>2
  <2>4. j \in Ahead(b) /\ j \notin Ahead(j)
    <3>1. ~(P(j) * Q(j) > P(j) * Q(j))
      BY <1>1
    <3> QED
      BY <1>2, <1>7, <3>1
  <2>5. <<Ahead(j), Ahead(b)>> \in StrictSubsetOrdering(DOMAIN vecs)
    BY <2>3, <2>4 DEF StrictSubsetOrdering
  <2> QED
    BY <1>5, <1>6, <2>2, <2>5
<1>8. Near(x, vecs[b])
  <2> DEFINE m == Threshold * Threshold * Dot(x, x)
  <2>1. m \in Nat
    <3>1. Dot(x, x) \in Nat /\ Threshold \in Nat
      BY DotType, IssueAssumption
    <3> QED
      BY <3>1
  <2>2. 10000 * P(i) >= m * Q(i)
    <3>1. 10000 * D(i) * D(i) >= m * Q(i)
      BY DEF Near, Q
    <3>2. 10000 * D(i) * D(i) = 10000 * P(i)
      <4>1. D(i) \in Nat
        BY <1>1
      <4> HIDE DEF D
      <4> QED
        BY <4>1 DEF P
    <3> QED
      BY <3>1, <3>2
  <2>3. ~(P(i) * Q(b) > P(b) * Q(i))
    BY <1>2, <1>6, <1>7
  <2> HIDE DEF m
  <2>4. 10000 * P(b) >= m * Q(b)
    BY <1>1, <1>3, <1>6, <2>1, <2>2, <2>3, RatioReaches
  <2>5. 10000 * D(b) * D(b) = 10000 * P(b)
    <3>1. D(b) \in Nat
      BY <1>1, <1>6
    <3> HIDE DEF D
    <3> QED
      BY <3>1 DEF P
  <2>6. D(b) > 0
    BY <1>6
  <2> QED
    BY <2>4, <2>5, <2>6 DEF Near, m, Q
<1>9. b \in Nearest(x, vecs)
  BY <1>6, <1>7 DEF Nearest
<1> QED
  BY <1>8, <1>9

-----------------------------------------------------------------------------
(* The invariant *)

\* A process that classifies, and a classification that is not over.
Ready == {"sqlite", "chroma"}
Busy  == {"search", "touch", "get", "put", "create", "add"}

IssueRow == [vec : Vector, count : Nat \ {0}, by : Ready, before : SUBSET Nat]
Entry == [emb : Vector, n : Nat \ {0}]
Store == [pc : {"down", "list", "fill"} \cup Ready, rows : Seq(IssueRow)]
Eval  == [matched : BOOLEAN, terms : SUBSET Phrase]
Work == [pc : Busy \cup {"idle", "unmatched"}, app : Apps \cup {"none"}, vec : Vector,
         eval : Eval, rule : Rules \cup {CHOOSE r \in Rules : TRUE}, text : Phrase,
         id : Nat, n : Nat, before : SUBSET Nat]

Types ==
    /\ issues \in Seq(IssueRow)
    /\ col \in [DOMAIN col -> Entry] /\ DOMAIN col \subseteq Ids
    /\ store \in [Apps -> Store]
    /\ work \in [Workers -> Work]
    /\ finished \subseteq Ids
    /\ events \in 0 .. MaxEvents

\* The captures that have counted an occurrence of i in the table and not yet
\* in the collection.
Counting(r, i) == r.pc \in {"get", "put"} /\ r.id = i
Pending(i) == {w \in Workers : Counting(work[w], i)}

\* What a classification has in hand, by its next step.
Fits(r) ==
    /\ r.pc # "idle" => Agrees(r.rule, r.text, r.eval)
    /\ r.pc \in Busy => r.app \in Apps /\ store[r.app].pc \in Ready
    /\ r.pc \in {"get", "put", "add"} => store[r.app].pc = "chroma"
    /\ r.pc \in {"touch", "get", "put", "add"} => r.id \in Ids
    /\ r.pc \in {"touch", "get", "put"} /\ store[r.app].pc = "chroma" => r.id \in DOMAIN col
    /\ r.pc = "put" => r.n + Cardinality(Pending(r.id)) <= issues[r.id].count
    /\ r.pc = "add" => issues[r.id].vec = r.vec
    /\ r.before \subseteq finished
    /\ r.pc = "create" => \A i \in r.before : Near(r.vec, issues[i].vec) =>
           issues[i].by = "sqlite" /\ store[r.app].pc = "chroma"

\* The rows a start has listed are rows still, with no higher counts.
Listed(s) ==
    s.pc = "fill" =>
        /\ Len(s.rows) <= Len(issues)
        /\ \A i \in 1 .. Len(s.rows) : /\ s.rows[i].vec = issues[i].vec
                                       /\ s.rows[i].count <= issues[i].count

\* An entry is behind its row by what is pending, at least.
Behind(i) == /\ col[i].emb = issues[i].vec
             /\ col[i].n + Cardinality(Pending(i)) <= issues[i].count

IssueInv ==
    /\ Types
    /\ \A w \in Workers : Fits(work[w])
    /\ \A a \in Apps : Listed(store[a])
    /\ \A i \in DOMAIN col : Behind(i)
    /\ \A i \in finished : issues[i].by = "chroma" => i \in DOMAIN col
    /\ \A i \in Ids : issues[i].before \subseteq Ids
    /\ DuplicateHasCause

-----------------------------------------------------------------------------
(* What a step keeps *)

LEMMA WorkerSets ==
    ASSUME NEW S, S \subseteq Workers
    PROVE  IsFiniteSet(S) /\ Cardinality(S) \in Nat
BY IssueAssumption, FS_Subset, FS_CardinalityType

LEMMA PendingIs ==
    \A i : /\ Cardinality(Pending(i)) \in Nat /\ IsFiniteSet(Pending(i))
           /\ Cardinality(Pending(i)') \in Nat /\ IsFiniteSet(Pending(i)')
<1> TAKE i
<1>1. Pending(i) \subseteq Workers /\ Pending(i)' \subseteq Workers
  BY DEF Pending
<1> QED
  BY <1>1, WorkerSets

LEMMA RowType ==
    /\ \A r \in IssueRow : /\ r.vec \in Vector /\ r.count \in Nat \ {0} /\ r.count \in Nat
                           /\ r.by \in Ready
    /\ \A rows \in Seq(IssueRow) : /\ Len(rows) \in Nat /\ DOMAIN rows = 1 .. Len(rows)
                                   /\ \A i \in 1 .. Len(rows) : rows[i] \in IssueRow
<1>1. \A r \in IssueRow : /\ r.vec \in Vector /\ r.count \in Nat \ {0} /\ r.count \in Nat
                          /\ r.by \in Ready
  BY DEF IssueRow
<1>2. \A rows \in Seq(IssueRow) : /\ Len(rows) \in Nat /\ DOMAIN rows = 1 .. Len(rows)
                                 /\ \A i \in 1 .. Len(rows) : rows[i] \in IssueRow
  OBVIOUS
<1> QED
  BY <1>1, <1>2

\* A capture that is pending in addition has counted an occurrence in addition.
Grows ==
    /\ issues' \in Seq(IssueRow) /\ Len(issues) <= Len(issues')
    /\ \A i \in Ids : /\ issues'[i].vec = issues[i].vec /\ issues'[i].by = issues[i].by
                      /\ issues'[i].before = issues[i].before
                      /\ issues[i].count <= issues'[i].count
                      /\ Cardinality(Pending(i)') + issues[i].count
                           <= Cardinality(Pending(i)) + issues'[i].count
    /\ DOMAIN col \subseteq DOMAIN col' /\ finished \subseteq finished'

LEMMA RowsAre ==
    ASSUME Types, Grows
    PROVE  /\ Ids = 1 .. Len(issues) /\ Len(issues) \in Nat
           /\ Ids' = 1 .. Len(issues') /\ Len(issues') \in Nat
           /\ Ids \subseteq Ids'
           /\ \A i \in Ids : /\ issues[i] \in IssueRow /\ issues'[i] \in IssueRow
                             /\ issues[i].count \in Nat /\ issues'[i].count \in Nat
<1>1. /\ Ids = 1 .. Len(issues) /\ Len(issues) \in Nat
      /\ Ids' = 1 .. Len(issues') /\ Len(issues') \in Nat
  BY DEF Types, Grows, Ids
<1>2. Ids \subseteq Ids'
  BY <1>1 DEF Grows
<1>3. \A i \in Ids : issues[i] \in IssueRow /\ issues'[i] \in IssueRow
  BY <1>1, <1>2 DEF Types, Grows
<1> QED
  BY <1>1, <1>2, <1>3, RowType

\* Rows and entries that stay, and the process's store, keep a classification fitting.
LEMMA FitsOn ==
    ASSUME Types, Grows, NEW r \in Work, Fits(r),
           r.pc \in Busy => store'[r.app].pc = store[r.app].pc
    PROVE  Fits(r)'
<1>1. r.pc \in {"get", "put", "add", "touch", "create"} => r.pc \in Busy
  BY DEF Busy
<1>2. r.pc \in {"touch", "get", "put", "add"} => r.id \in Ids /\ r.id \in Ids'
  BY RowsAre DEF Fits
<1>3. r.pc = "put" => r.n + Cardinality(Pending(r.id)') <= issues'[r.id].count
  <2> SUFFICES ASSUME r.pc = "put"
               PROVE  r.n + Cardinality(Pending(r.id)') <= issues'[r.id].count
    OBVIOUS
  <2>1. r.id \in Ids /\ r.n \in Nat
    BY <1>2 DEF Work
  <2>2. r.n + Cardinality(Pending(r.id)) <= issues[r.id].count
    BY DEF Fits
  <2>3. Cardinality(Pending(r.id)') + issues[r.id].count
          <= Cardinality(Pending(r.id)) + issues'[r.id].count
    BY <2>1 DEF Grows
  <2>4. issues[r.id].count \in Nat /\ issues'[r.id].count \in Nat
    BY <2>1, RowsAre
  <2> QED
    BY <2>1, <2>2, <2>3, <2>4, PendingIs
<1>4. r.pc = "add" => issues'[r.id].vec = r.vec
  BY <1>2 DEF Fits, Grows
<1>5. r.before \subseteq finished' /\ r.before \subseteq finished
  BY DEF Fits, Grows
<1>6. r.pc = "create" => \A i \in r.before : Near(r.vec, issues'[i].vec) =>
         issues'[i].by = "sqlite" /\ store'[r.app].pc = "chroma"
  BY <1>1, <1>5 DEF Fits, Grows, Types
<1>7. r.pc \in {"touch", "get", "put"} /\ store'[r.app].pc = "chroma" => r.id \in DOMAIN col'
  BY <1>1 DEF Fits, Grows
<1>8. /\ r.pc # "idle" => Agrees(r.rule, r.text, r.eval)
      /\ r.pc \in Busy => r.app \in Apps /\ store'[r.app].pc \in Ready
      /\ r.pc \in {"get", "put", "add"} => store'[r.app].pc = "chroma"
  BY <1>1 DEF Fits
<1> QED
  BY <1>2, <1>3, <1>4, <1>5, <1>6, <1>7, <1>8 DEF Fits

\* A classification that goes on undisturbed.
LEMMA OthersFit ==
    ASSUME IssueInv, Grows, NEW w \in Workers, work'[w] = work[w],
           work[w].pc \in Busy => store'[work[w].app].pc = store[work[w].app].pc
    PROVE  Fits(work[w])'
<1>1. PICK r \in Work : r = work[w] /\ r = work'[w]
  BY DEF IssueInv, Types
<1>2. Fits(r)'
  BY <1>1, FitsOn DEF IssueInv
<1> QED
  BY <1>1, <1>2

LEMMA ListedOn ==
    ASSUME Types, Grows, NEW s \in Store, Listed(s)
    PROVE  Listed(s)'
<1> SUFFICES ASSUME s.pc = "fill"
             PROVE  /\ Len(s.rows) <= Len(issues')
                    /\ \A i \in 1 .. Len(s.rows) : /\ s.rows[i].vec = issues'[i].vec
                                                   /\ s.rows[i].count <= issues'[i].count
  BY DEF Listed
<1>1. PICK rows \in Seq(IssueRow) : rows = s.rows
  BY DEF Store
<1>2. Len(rows) \in Nat /\ \A i \in 1 .. Len(rows) : rows[i] \in IssueRow /\ rows[i].count \in Nat
  BY RowType
<1>3. Len(rows) <= Len(issues)
  BY <1>1 DEF Listed
<1>4. \A i \in 1 .. Len(rows) : i \in Ids
  BY <1>2, <1>3, RowsAre
<1>5. \A i \in 1 .. Len(rows) : /\ rows[i].vec = issues[i].vec
                                /\ rows[i].count <= issues[i].count
  BY <1>1 DEF Listed
<1>6. ASSUME NEW i \in 1 .. Len(rows)
      PROVE  rows[i].vec = issues'[i].vec /\ rows[i].count <= issues'[i].count
  <2>1. /\ rows[i].count \in Nat /\ issues[i].count \in Nat /\ issues'[i].count \in Nat
        /\ issues[i].count <= issues'[i].count /\ issues'[i].vec = issues[i].vec
    BY <1>2, <1>4, RowsAre DEF Grows
  <2> QED
    BY <1>5, <2>1
<1>7. Len(rows) <= Len(issues')
  <2>1. Len(issues) <= Len(issues')
    BY DEF Grows
  <2> QED
    BY <1>2, <1>3, <2>1, RowsAre
<1> QED
  BY <1>1, <1>6, <1>7

LEMMA BehindOn ==
    ASSUME Types, Grows, NEW i \in DOMAIN col, Behind(i), col'[i] = col[i]
    PROVE  Behind(i)'
<1>1. i \in Ids /\ col[i] \in Entry
  BY DEF Types
<1>2. col[i].n \in Nat /\ issues[i].count \in Nat /\ issues'[i].count \in Nat
  BY <1>1, RowsAre DEF Entry
<1>3. col[i].n + Cardinality(Pending(i)) <= issues[i].count
  BY DEF Behind
<1>4. Cardinality(Pending(i)') + issues[i].count <= Cardinality(Pending(i)) + issues'[i].count
  BY <1>1 DEF Grows
<1>5. col'[i].n + Cardinality(Pending(i)') <= issues'[i].count
  BY <1>2, <1>3, <1>4, PendingIs
<1>6. col'[i].emb = issues'[i].vec
  BY <1>1 DEF Behind, Grows
<1> QED
  BY <1>5, <1>6 DEF Behind

\* No row is added: the causes stay.
LEMMA CausesOn ==
    ASSUME IssueInv, Grows, Len(issues') = Len(issues)
    PROVE  (\A i \in Ids : issues[i].before \subseteq Ids)' /\ DuplicateHasCause'
<1>1. Ids' = Ids
  BY RowsAre DEF IssueInv
<1>2. \A i \in Ids' : issues'[i].before \subseteq Ids'
  BY <1>1 DEF IssueInv, Grows
<1>3. \A i, j \in Ids' :
        Near(issues'[j].vec, issues'[i].vec) /\ i \in issues'[j].before
        => issues'[i].by = "sqlite" /\ issues'[j].by = "chroma"
  BY <1>1 DEF IssueInv, Grows, DuplicateHasCause
<1> QED
  BY <1>2, <1>3 DEF DuplicateHasCause

\* A step that leaves the rows as they are.
LEMMA QuietGrows ==
    ASSUME Types, UNCHANGED issues, DOMAIN col \subseteq DOMAIN col', finished \subseteq finished',
           \A i \in Ids : Pending(i)' \subseteq Pending(i)
    PROVE  Grows
<1>1. ASSUME NEW i \in Ids
      PROVE  /\ issues[i].count <= issues'[i].count
             /\ Cardinality(Pending(i)') + issues[i].count <= Cardinality(Pending(i)) + issues'[i].count
  <2>1. issues[i].count \in Nat /\ issues'[i] = issues[i]
    BY RowType DEF Types, Ids
  <2>2. Cardinality(Pending(i)') <= Cardinality(Pending(i))
    BY PendingIs, FS_Subset
  <2> QED
    BY <2>1, <2>2, PendingIs
<1>2. issues' \in Seq(IssueRow) /\ Len(issues) <= Len(issues')
  BY DEF Types
<1> QED
  BY <1>1, <1>2 DEF Grows

LEMMA QuietKeeps ==
    ASSUME IssueInv, UNCHANGED <<issues, col, finished>>, events' \in 0 .. MaxEvents, Grows,
           store' \in [Apps -> Store], work' \in [Workers -> Work],
           \A a \in Apps : Listed(store'[a]), \A w \in Workers : Fits(work[w])'
    PROVE  IssueInv'
<1>1. Types'
  BY DEF IssueInv, Types, Ids
<1>2. \A a \in Apps : Listed(store[a])'
  BY DEF Listed
<1>3. \A i \in DOMAIN col' : Behind(i)'
  BY BehindOn DEF IssueInv
<1>4. \A i \in finished' : issues'[i].by = "chroma" => i \in DOMAIN col'
  BY DEF IssueInv
<1>5. (\A i \in Ids : issues[i].before \subseteq Ids)' /\ DuplicateHasCause'
  BY CausesOn
<1> QED
  BY <1>1, <1>2, <1>3, <1>4, <1>5 DEF IssueInv

-----------------------------------------------------------------------------
(* The steps of a process *)

LEMMA IdleIs ==
    Idle \in Work /\ Idle.pc = "idle" /\ Idle.before = {} /\ Idle.vec \in Vector
<1>1. <<>> \in Phrase /\ [b \in Buckets |-> 0] \in Vector
  BY DEF Phrase, Vector
<1>2. Verdict(FALSE, {}) \in Eval
  BY DEF Verdict, Eval
<1> QED
  BY <1>1, <1>2 DEF Idle, Work, NoIssue

LEMMA IdleFits == Fits(Idle) /\ Fits(Idle)'
BY IdleIs DEF Fits, Busy

LEMMA NoBusyApp ==
    ASSUME IssueInv, NEW w \in Workers, NEW a \in Apps, work[w].pc \in Busy,
           store[a].pc \notin Ready
    PROVE  work[w].app # a
BY DEF IssueInv, Fits

LEMMA WorkIs ==
    ASSUME IssueInv, NEW w \in Workers
    PROVE  work[w] \in Work /\ Fits(work[w])
BY DEF IssueInv, Types

\* The start of a process: only its store changes, from or to one that is not ready.
LEMMA StartGood ==
    ASSUME IssueInv, NEW a \in Apps, NEW s \in Store, store[a].pc \notin Ready,
           store' = [store EXCEPT ![a] = s], Listed(s),
           UNCHANGED <<issues, col, work, finished, events>>
    PROVE  IssueInv'
<1>1. /\ store \in [Apps -> Store] /\ store' \in [Apps -> Store]
      /\ \A b \in Apps : store'[b] = IF b = a THEN s ELSE store[b]
  BY DEF IssueInv, Types
<1>2. Grows
  BY QuietGrows DEF IssueInv, Pending
<1>3. \A b \in Apps : Listed(store'[b])
  BY <1>1 DEF IssueInv
<1>4. \A w \in Workers : Fits(work[w])'
  <2> TAKE w \in Workers
  <2>1. work[w].pc \in Busy => work[w].app \in Apps
    BY DEF IssueInv, Fits
  <2>2. work[w].pc \in Busy => store'[work[w].app].pc = store[work[w].app].pc
    BY <1>1, <2>1, NoBusyApp
  <2> QED
    BY <1>2, <2>2, OthersFit
<1>5. events' \in 0 .. MaxEvents /\ work' \in [Workers -> Work]
  BY DEF IssueInv, Types
<1> QED
  BY <1>1, <1>2, <1>3, <1>4, <1>5, QuietKeeps

\* The states of a store, and its records.
LEMMA StoreIs ==
    ASSUME NEW pc \in {"down", "list", "fill"} \cup Ready, NEW rows \in Seq(IssueRow)
    PROVE  [pc |-> pc, rows |-> rows] \in Store
BY DEF Store

LEMMA EmptiedIs ==
    ASSUME NEW pc \in {"down"} \cup Ready
    PROVE  [pc |-> pc, rows |-> <<>>] \in Store /\ Listed([pc |-> pc, rows |-> <<>>])
<1>1. <<>> \in Seq(IssueRow)
  OBVIOUS
<1>2. pc # "fill"
  BY DEF Ready
<1> QED
  BY <1>1, <1>2, StoreIs DEF Listed

LEMMA OpenStoreGood ==
    ASSUME IssueInv, NEW a \in Apps, OpenStore(a)
    PROVE  IssueInv'
<1>1. PICK r \in Store : r = store[a]
  BY DEF IssueInv, Types
<1>2. PICK pc \in {"chroma", "list"} : store' = [store EXCEPT ![a].pc = pc]
  BY DEF OpenStore
<1>3. [r EXCEPT !.pc = pc] \in Store /\ [r EXCEPT !.pc = pc].pc = pc
  BY DEF Store, Ready
<1>4. store' = [store EXCEPT ![a] = [r EXCEPT !.pc = pc]]
  BY <1>1, <1>2
<1>5. Listed([r EXCEPT !.pc = pc]) /\ store[a].pc \notin Ready
  BY <1>2, <1>3 DEF Listed, OpenStore, At, Ready
<1> QED
  BY <1>3, <1>4, <1>5, StartGood DEF OpenStore

LEMMA ListRowsGood ==
    ASSUME IssueInv, NEW a \in Apps, ListRows(a)
    PROVE  IssueInv'
<1>1. PICK pc \in {"chroma", "fill"} : store' = [store EXCEPT ![a] = [pc |-> pc, rows |-> issues]]
  BY DEF ListRows
<1>2. PICK s : s = [pc |-> pc, rows |-> issues]
  OBVIOUS
<1>3. s \in Store
  BY <1>2, StoreIs DEF IssueInv, Types, Ready
<1>4. Listed(s)
  <2>1. \A i \in 1 .. Len(issues) : issues[i].count <= issues[i].count
    BY RowType DEF IssueInv, Types
  <2>2. Len(issues) <= Len(issues)
    BY DEF IssueInv, Types
  <2> QED
    BY <1>2, <2>1, <2>2 DEF Listed
<1>5. store[a].pc \notin Ready
  BY DEF ListRows, At, Ready
<1> QED
  BY <1>1, <1>2, <1>3, <1>4, <1>5, StartGood DEF ListRows

LEMMA FallBackGood ==
    ASSUME IssueInv, NEW a \in Apps, FallBack(a)
    PROVE  IssueInv'
<1>1. PICK s : s = [pc |-> "sqlite", rows |-> <<>>]
  OBVIOUS
<1>2. s \in Store /\ Listed(s)
  BY <1>1, EmptiedIs DEF Ready
<1>3. store[a].pc \notin Ready
  BY DEF FallBack, Ready
<1> QED
  BY <1>1, <1>2, <1>3, StartGood DEF FallBack

LEMMA StopGood ==
    ASSUME IssueInv, NEW a \in Apps, Stop(a)
    PROVE  IssueInv'
<1>1. PICK s : s = [pc |-> "down", rows |-> <<>>]
  OBVIOUS
<1>2. s \in Store /\ Listed(s)
  BY <1>1, EmptiedIs
<1>3. /\ store' \in [Apps -> Store]
      /\ \A b \in Apps : store'[b] = IF b = a THEN s ELSE store[b]
  BY <1>1, <1>2 DEF IssueInv, Types, Stop
<1>4. /\ work' \in [Workers -> Work]
      /\ \A w \in Workers : work'[w] = IF work[w].app = a THEN Idle ELSE work[w]
  BY IdleIs DEF IssueInv, Types, Stop
<1>5. Grows
  <2>1. \A i \in Ids : Pending(i)' \subseteq Pending(i)
    BY <1>4, IdleIs DEF Pending, Counting
  <2> QED
    BY <2>1, QuietGrows DEF IssueInv, Stop
<1>6. \A b \in Apps : Listed(store'[b])
  BY <1>2, <1>3 DEF IssueInv
<1>7. \A w \in Workers : Fits(work[w])'
  <2> TAKE w \in Workers
  <2>1. CASE work[w].app = a
    <3>1. PICK r : r = work'[w] /\ r = Idle
      BY <1>4, <2>1
    <3>2. Fits(r)'
      BY <3>1, IdleIs DEF Fits, Busy
    <3> QED
      BY <3>1, <3>2
  <2>2. CASE work[w].app # a
    <3>1. work[w].pc \in Busy => work[w].app \in Apps
      BY DEF IssueInv, Fits
    <3>2. work[w].pc \in Busy => store'[work[w].app].pc = store[work[w].app].pc
      BY <1>3, <2>2, <3>1
    <3> QED
      BY <1>4, <1>5, <2>2, <3>2, OthersFit
  <2> QED
    BY <2>1, <2>2
<1> QED
  BY <1>3, <1>4, <1>5, <1>6, <1>7, QuietKeeps DEF IssueInv, Types, Stop

\* Entries for rows that nobody counts for are added as the rows are.
LEMMA AddedKeeps ==
    ASSUME IssueInv, UNCHANGED issues, Grows, NEW entries, col' = Added(entries),
           \A i \in DOMAIN entries : /\ i \in Ids /\ entries[i] \in Entry
                                     /\ entries[i].emb = issues[i].vec
                                     /\ entries[i].n <= issues[i].count
                                     /\ i \notin DOMAIN col => Pending(i)' = {}
    PROVE  /\ col' \in [DOMAIN col' -> Entry] /\ DOMAIN col' \subseteq Ids
           /\ DOMAIN col' = DOMAIN col \cup DOMAIN entries
           /\ \A i \in DOMAIN col' : Behind(i)'
<1>1. /\ DOMAIN col' = DOMAIN col \cup DOMAIN entries
      /\ \A i \in DOMAIN col' : col'[i] = IF i \in DOMAIN col THEN col[i] ELSE entries[i]
      /\ col' = [i \in DOMAIN col' |-> col'[i]]
  BY DEF Added
<1>2. col \in [DOMAIN col -> Entry] /\ DOMAIN col \subseteq Ids
  BY DEF IssueInv, Types
<1>3. \A i \in DOMAIN col' : col'[i] \in Entry
  BY <1>1, <1>2
<1>4. ASSUME NEW i \in DOMAIN col'
      PROVE  Behind(i)'
  <2>1. CASE i \in DOMAIN col
    BY <1>1, <2>1, BehindOn DEF IssueInv
  <2>2. CASE i \notin DOMAIN col
    <3>1. /\ i \in DOMAIN entries /\ col'[i] = entries[i] /\ i \in Ids /\ entries[i] \in Entry
          /\ entries[i].emb = issues[i].vec /\ entries[i].n <= issues[i].count
      BY <1>1, <2>2
    <3>2. Cardinality(Pending(i)') = 0
      BY <2>2, <3>1, FS_EmptySet
    <3>3. entries[i].n \in Nat
      BY <3>1 DEF Entry
    <3>4. col'[i].n + Cardinality(Pending(i)') <= issues'[i].count
      BY <3>1, <3>2, <3>3
    <3>5. col'[i].emb = issues'[i].vec
      BY <3>1
    <3> QED
      BY <3>4, <3>5 DEF Behind
  <2> QED
    BY <2>1, <2>2
<1> QED
  BY <1>1, <1>2, <1>3, <1>4

\* An occurrence is counted in the collection only where there is an entry.
LEMMA NothingPending ==
    ASSUME IssueInv, NEW i, i \notin DOMAIN col
    PROVE  Pending(i) = {}
BY DEF IssueInv, Fits, Pending, Counting

LEMMA DenseIs ==
    ASSUME NEW v \in Vector
    PROVE  DenseFromSparse(v) = v
BY DEF DenseFromSparse, Vector

LEMMA FillGood ==
    ASSUME IssueInv, NEW a \in Apps, Fill(a)
    PROVE  IssueInv'
<1>1. PICK s : s = [pc |-> "chroma", rows |-> <<>>]
  OBVIOUS
<1>2. s \in Store /\ Listed(s)
  BY <1>1, EmptiedIs DEF Ready
<1>3. /\ store' \in [Apps -> Store] /\ store \in [Apps -> Store]
      /\ \A b \in Apps : store'[b] = IF b = a THEN s ELSE store[b]
  BY <1>1, <1>2 DEF IssueInv, Types, Fill
<1>4. PICK rows \in Seq(IssueRow) : rows = store[a].rows
  BY <1>3 DEF Store
<1>5. PICK entries : entries = [i \in DOMAIN rows |-> [emb |-> DenseFromSparse(rows[i].vec),
                                                       n |-> rows[i].count]]
  OBVIOUS
<1>6. col' = Added(entries)
  BY <1>4, <1>5 DEF Fill
<1>7. Grows
  <2>1. DOMAIN col \subseteq DOMAIN col'
    BY <1>6 DEF Added
  <2> QED
    BY <2>1, QuietGrows DEF IssueInv, Fill, Pending
<1>8. store[a].pc = "fill" /\ Listed(store[a])
  BY DEF Fill, At, IssueInv
<1>9. ASSUME NEW i \in DOMAIN entries
      PROVE  /\ i \in Ids /\ entries[i] \in Entry /\ entries[i].emb = issues[i].vec
             /\ entries[i].n <= issues[i].count
             /\ i \notin DOMAIN col => Pending(i)' = {}
  <2>1. i \in 1 .. Len(rows) /\ rows[i] \in IssueRow /\ Len(rows) \in Nat
    BY <1>5, RowType
  <2>2. Len(rows) <= Len(issues)
    BY <1>4, <1>8 DEF Listed
  <2>3. i \in Ids
    BY <1>7, <2>1, <2>2, RowsAre DEF IssueInv
  <2>4. entries[i] = [emb |-> rows[i].vec, n |-> rows[i].count]
    BY <1>5, <2>1, DenseIs, RowType
  <2>5. entries[i] \in Entry
    BY <2>1, <2>4, RowType DEF Entry
  <2>6. rows[i].vec = issues[i].vec /\ rows[i].count <= issues[i].count
    BY <1>4, <1>8, <2>1 DEF Listed
  <2>7. i \notin DOMAIN col => Pending(i)' = {}
    BY NothingPending DEF Pending, Fill
  <2> QED
    BY <2>3, <2>4, <2>5, <2>6, <2>7
<1>10. UNCHANGED <<issues, work, finished, events>>
  BY DEF Fill
<1>11. /\ col' \in [DOMAIN col' -> Entry] /\ DOMAIN col' \subseteq Ids
       /\ \A i \in DOMAIN col' : Behind(i)'
  BY <1>6, <1>7, <1>9, <1>10, AddedKeeps
<1>12. Types'
  BY <1>3, <1>10, <1>11 DEF IssueInv, Types, Ids
<1>13. \A w \in Workers : Fits(work[w])'
  <2> TAKE w \in Workers
  <2>1. work[w].pc \in Busy => work[w].app \in Apps
    BY DEF IssueInv, Fits
  <2>2. store[a].pc \notin Ready
    BY <1>8 DEF Ready
  <2>3. work[w].pc \in Busy => store'[work[w].app].pc = store[work[w].app].pc
    BY <1>3, <2>1, <2>2, NoBusyApp
  <2> QED
    BY <1>7, <1>10, <2>3, OthersFit
<1>14. \A b \in Apps : Listed(store[b])'
  <2>1. \A b \in Apps : Listed(store'[b])
    BY <1>2, <1>3 DEF IssueInv
  <2> QED
    BY <1>10, <2>1 DEF Listed
<1>15. \A i \in finished' : issues'[i].by = "chroma" => i \in DOMAIN col'
  BY <1>7, <1>10 DEF IssueInv, Grows
<1>16. (\A i \in Ids : issues[i].before \subseteq Ids)' /\ DuplicateHasCause'
  BY <1>7, <1>10, CausesOn
<1> QED
  BY <1>11, <1>12, <1>13, <1>14, <1>15, <1>16 DEF IssueInv

-----------------------------------------------------------------------------
(* The steps of a classification *)

\* A classification, in the order of its fields.
Made(pc, app, vec, eval, rule, text, id, n, before) ==
    [pc |-> pc, app |-> app, vec |-> vec, eval |-> eval, rule |-> rule, text |-> text,
     id |-> id, n |-> n, before |-> before]

\* A classification with another next step, issue and count.
With(r, pc, id, n) == Made(pc, r.app, r.vec, r.eval, r.rule, r.text, id, n, r.before)

LEMMA WithIs ==
    ASSUME NEW r \in Work, NEW pc \in Busy, NEW id \in Nat, NEW n \in Nat
    PROVE  /\ With(r, pc, id, n) \in Work
           /\ With(r, pc, id, n).pc = pc /\ With(r, pc, id, n).id = id /\ With(r, pc, id, n).n = n
           /\ With(r, pc, id, n).app = r.app /\ With(r, pc, id, n).vec = r.vec
           /\ With(r, pc, id, n).eval = r.eval /\ With(r, pc, id, n).rule = r.rule
           /\ With(r, pc, id, n).text = r.text /\ With(r, pc, id, n).before = r.before
BY DEF With, Made, Work

LEMMA GoesWith ==
    ASSUME Types, NEW w \in Workers, NEW r \in Work, r = work[w], NEW pc,
           work' = [work EXCEPT ![w].pc = pc]
    PROVE  work' = [work EXCEPT ![w] = With(r, pc, r.id, r.n)]
<1>1. [r EXCEPT !.pc = pc] = With(r, pc, r.id, r.n)
  BY DEF Work, With, Made
<1>2. work' = [work EXCEPT ![w] = [r EXCEPT !.pc = pc]]
  OBVIOUS
<1> QED
  BY <1>1, <1>2

\* The updates of two fields.
IdSet(w, pc, id) == [work EXCEPT ![w].pc = pc, ![w].id = id]
CountSet(w, pc, n) == [work EXCEPT ![w].pc = pc, ![w].n = n]

LEMMA IdWith ==
    ASSUME Types, NEW w \in Workers, NEW r \in Work, r = work[w], NEW pc, NEW id
    PROVE  IdSet(w, pc, id) = [work EXCEPT ![w] = With(r, pc, id, r.n)]
<1> DEFINE r0 == With(r, r.pc, r.id, r.n)
           r1 == With(r, pc, r.id, r.n)
           r2 == With(r, pc, id, r.n)
           F(q) == [work EXCEPT ![w] = q]
<1>1. work[w] = r0
  BY DEF Work, With, Made
<1>2. [r0 EXCEPT !.pc = pc] = r1 /\ [r1 EXCEPT !.id = id] = r2
  BY DEF With, Made
<1>3. \A q, p : F(q)[w] = q /\ [F(q) EXCEPT ![w] = p] = F(p)
  BY DEF Types
<1> HIDE DEF r0, r1, r2
<1>4. [work EXCEPT ![w].pc = pc] = F(r1)
  BY <1>1, <1>2
<1> HIDE DEF F
<1>5. [F(r1) EXCEPT ![w].id = id] = F(r2)
  BY <1>2, <1>3
<1>6. IdSet(w, pc, id) = F(r2)
  BY <1>4, <1>5, Zenon DEF IdSet
<1> QED
  BY <1>6 DEF F, r2

LEMMA CountWith ==
    ASSUME Types, NEW w \in Workers, NEW r \in Work, r = work[w], NEW pc, NEW n
    PROVE  CountSet(w, pc, n) = [work EXCEPT ![w] = With(r, pc, r.id, n)]
<1> DEFINE r0 == With(r, r.pc, r.id, r.n)
           r1 == With(r, pc, r.id, r.n)
           r2 == With(r, pc, r.id, n)
           F(q) == [work EXCEPT ![w] = q]
<1>1. work[w] = r0
  BY DEF Work, With, Made
<1>2. [r0 EXCEPT !.pc = pc] = r1 /\ [r1 EXCEPT !.n = n] = r2
  BY DEF With, Made
<1>3. \A q, p : F(q)[w] = q /\ [F(q) EXCEPT ![w] = p] = F(p)
  BY DEF Types
<1> HIDE DEF r0, r1, r2
<1>4. [work EXCEPT ![w].pc = pc] = F(r1)
  BY <1>1, <1>2
<1> HIDE DEF F
<1>5. [F(r1) EXCEPT ![w].n = n] = F(r2)
  BY <1>2, <1>3
<1>6. CountSet(w, pc, n) = F(r2)
  BY <1>4, <1>5, Zenon DEF CountSet
<1> QED
  BY <1>6 DEF F, r2

\* What w has next, and the others, fit; and nothing is pending that was not,
\* but for w.
LEMMA MovesFit ==
    ASSUME IssueInv, Grows, UNCHANGED store, NEW w \in Workers, NEW r \in Work,
           work' = [work EXCEPT ![w] = r], Fits(r)'
    PROVE  work' \in [Workers -> Work] /\ \A u \in Workers : Fits(work[u])'
<1>1. /\ work' \in [Workers -> Work] /\ work'[w] = r
      /\ \A u \in Workers : u # w => work'[u] = work[u]
  BY DEF IssueInv, Types
<1>2. \A u \in Workers : Fits(work[u])'
  <2> TAKE u \in Workers
  <2>1. CASE u = w
    <3>1. PICK q : q = work'[u] /\ q = r
      BY <1>1, <2>1
    <3>2. Fits(q)'
      BY <3>1
    <3> QED
      BY <3>1, <3>2
  <2>2. CASE u # w
    BY <1>1, <2>2, OthersFit
  <2> QED
    BY <2>1, <2>2
<1> QED
  BY <1>1, <1>2

LEMMA PendingMoves ==
    ASSUME IssueInv, NEW w \in Workers, NEW r \in Work, work' = [work EXCEPT ![w] = r], NEW i
    PROVE  /\ ~Counting(r, i) => Pending(i)' = Pending(i) \ {w}
           /\ Counting(r, i) => Pending(i)' = Pending(i) \cup {w}
<1>1. work'[w] = r /\ \A u \in Workers : u # w => work'[u] = work[u]
  BY DEF IssueInv, Types
<1> QED
  BY <1>1 DEF Pending, Counting

\* A step of one classification alone.
LEMMA WorkGood ==
    ASSUME IssueInv, NEW w \in Workers, NEW r \in Work, work' = [work EXCEPT ![w] = r], Fits(r),
           \A i : Counting(r, i) => Counting(work[w], i),
           UNCHANGED <<issues, col, store, finished>>, events' \in 0 .. MaxEvents
    PROVE  IssueInv'
<1>1. \A i \in Ids : Pending(i)' \subseteq Pending(i)
  BY PendingMoves DEF Pending
<1>2. Grows
  BY <1>1, QuietGrows DEF IssueInv
<1>3. Fits(r)'
  BY <1>2, FitsOn DEF IssueInv
<1>4. work' \in [Workers -> Work] /\ \A u \in Workers : Fits(work[u])'
  BY <1>2, <1>3, MovesFit
<1>5. store' \in [Apps -> Store] /\ \A a \in Apps : Listed(store'[a])
  BY DEF IssueInv, Types
<1> QED
  BY <1>2, <1>4, <1>5, QuietKeeps

LEMMA EndsGood ==
    ASSUME IssueInv, NEW w \in Workers, Ends(w), UNCHANGED <<issues, col, store, finished, events>>
    PROVE  IssueInv'
<1>1. \A i : ~Counting(Idle, i)
  BY IdleIs DEF Counting
<1>2. events' \in 0 .. MaxEvents
  BY DEF IssueInv, Types
<1> QED
  BY <1>1, <1>2, IdleIs, IdleFits, WorkGood DEF Ends

\* The vector of a text, whose dimensions are the hashes of its words.
LEMMA VectorizeIs ==
    ASSUME NEW text \in Phrase
    PROVE  Vectorize(text) \in Vector
<1>1. DOMAIN text = 1 .. Len(text) /\ Len(text) \in Nat
  BY DEF Phrase
<1>2. IsFiniteSet(DOMAIN text)
  BY <1>1, FS_Interval
<1>3. ASSUME NEW b \in Buckets
      PROVE  Cardinality({i \in DOMAIN text : Bucket[Fold[text[i]]] % Dims = b}) \in Nat
  BY <1>2, FS_Subset, FS_CardinalityType
<1> QED
  BY <1>3 DEF Vectorize, Vector

LEMMA StartsGood ==
    ASSUME IssueInv, NEW w \in Workers, NEW a \in Apps, NEW rule \in Rules, NEW text \in Texts,
           Start(w, a, rule, text)
    PROVE  IssueInv'
<1> DEFINE v == EvaluateRule(rule, text)
           term == IF v.terms = {} THEN <<>> ELSE CHOOSE t \in v.terms : TRUE
<1>1. text \in Phrase /\ IsRule(rule) /\ rule.terms \subseteq Phrase
  BY IssueAssumption DEF IsRule
<1>2. Agrees(rule, text, v) /\ v.matched \in BOOLEAN /\ v.terms \subseteq Phrase
  BY <1>1, EngineIsRight
<1>3. v \in Eval
  <2>1. \A matched, terms : Verdict(matched, terms) = [matched |-> matched, terms |-> terms]
    BY DEF Verdict
  <2>2. PICK matched, terms : v = Verdict(matched, terms)
    BY DEF EvaluateRule, Value, Regex, Keywords
  <2>3. v.matched = matched /\ v.terms = terms
    BY <2>1, <2>2
  <2> QED
    BY <1>2, <2>1, <2>2, <2>3 DEF Eval
<1>4. term \in Phrase
  BY <1>2 DEF Phrase
<1> HIDE DEF v, term
<1>5. Vectorize(term \o text) \in Vector
  <2>1. term \o text \in Phrase
    BY <1>1, <1>4, ConcatProperties DEF Phrase
  <2> QED
    BY <2>1, VectorizeIs
<1>6. PICK pc \in {"search", "unmatched"}, vec \in Vector, before \in {finished, {}} :
        work' = [work EXCEPT ![w] = Made(pc, a, vec, v, rule, text, 0, 0, before)]
  BY <1>5, IdleIs DEF Start, Made, v, term, NoIssue
<1>7. PICK r : r = Made(pc, a, vec, v, rule, text, 0, 0, before)
  OBVIOUS
<1>8. /\ r.pc = pc /\ r.app = a /\ r.rule = rule /\ r.text = text /\ r.eval = v
      /\ r.before = before
  BY <1>7 DEF Made
<1>9. before \subseteq finished /\ before \subseteq Nat
  BY DEF IssueInv, Types, Ids
<1>10. r \in Work
  BY <1>1, <1>3, <1>7, <1>9 DEF Made, Work, Busy
<1>11. store[a].pc \in Ready
  BY DEF Start, Ready
<1>12. Fits(r)
  BY <1>2, <1>8, <1>9, <1>11 DEF Fits
<1>13. \A i : ~Counting(r, i)
  BY <1>8 DEF Counting
<1>14. events' \in 0 .. MaxEvents
  BY IssueAssumption DEF Start, IssueInv, Types
<1> QED
  BY <1>6, <1>7, <1>10, <1>12, <1>13, <1>14, WorkGood DEF Start

\* The vectors a search looks at are those of the rows.
Searched(w) == IF Chroma(w) THEN [i \in DOMAIN col |-> col[i].emb]
                            ELSE [i \in Ids |-> issues[i].vec]

LEMMA SearchedAre ==
    ASSUME IssueInv, NEW w \in Workers
    PROVE  /\ DOMAIN Searched(w) = IF Chroma(w) THEN DOMAIN col ELSE Ids
           /\ DOMAIN Searched(w) \subseteq Ids /\ IsFiniteSet(DOMAIN Searched(w))
           /\ \A i \in DOMAIN Searched(w) : Searched(w)[i] = issues[i].vec /\ Searched(w)[i] \in Vector
<1>1. DOMAIN col \subseteq Ids /\ Ids = 1 .. Len(issues) /\ Len(issues) \in Nat
  BY DEF IssueInv, Types, Ids
<1>2. DOMAIN Searched(w) = IF Chroma(w) THEN DOMAIN col ELSE Ids
  BY DEF Searched
<1>3. IsFiniteSet(Ids)
  BY <1>1, FS_Interval
<1>4. \A i \in DOMAIN Searched(w) : Searched(w)[i] = issues[i].vec
  BY <1>2 DEF Searched, IssueInv, Behind
<1>5. \A i \in Ids : issues[i].vec \in Vector
  BY <1>1, RowType DEF IssueInv, Types
<1>6. DOMAIN Searched(w) \subseteq Ids
  BY <1>1, <1>2
<1> QED
  BY <1>2, <1>3, <1>4, <1>5, <1>6, FS_Subset

LEMMA SearchGood ==
    ASSUME IssueInv, NEW w \in Workers, Search(w)
    PROVE  IssueInv'
<1>1. PICK r \in Work : r = work[w]
  BY WorkIs
<1>2. /\ r.pc = "search" /\ Fits(r) /\ r.app \in Apps /\ store[r.app].pc \in Ready
      /\ Chroma(w) = (store[r.app].pc = "chroma")
  BY <1>1, WorkIs DEF Search, Doing, Fits, Busy, Chroma, At
<1>3. PICK vecs : vecs = Searched(w)
  OBVIOUS
<1>4. /\ DOMAIN vecs = IF Chroma(w) THEN DOMAIN col ELSE Ids
      /\ DOMAIN vecs \subseteq Ids /\ IsFiniteSet(DOMAIN vecs)
      /\ \A i \in DOMAIN vecs : vecs[i] = issues[i].vec /\ vecs[i] \in Vector
  BY <1>3, SearchedAre
<1>5. events' \in 0 .. MaxEvents /\ UNCHANGED <<issues, col, store, finished>>
  BY DEF IssueInv, Types, Search
<1>6. \/ \E i \in Nearest(r.vec, vecs) : work' = [work EXCEPT ![w].pc = "touch", ![w].id = i]
      \/ /\ \A i \in Nearest(r.vec, vecs) : ~Near(r.vec, vecs[i])
         /\ work' = [work EXCEPT ![w].pc = "create"]
  BY <1>1, <1>3 DEF Search, Searched
<1>7. CASE \E i \in Nearest(r.vec, vecs) : work' = [work EXCEPT ![w].pc = "touch", ![w].id = i]
  <2>1. PICK i \in Nearest(r.vec, vecs) : work' = [work EXCEPT ![w].pc = "touch", ![w].id = i]
    BY <1>7
  <2>2. i \in DOMAIN vecs /\ i \in Nat
    BY <1>4 DEF Nearest, IssueInv, Types, Ids
  <2>3. PICK q : q = With(r, "touch", i, r.n)
    OBVIOUS
  <2>4. work' = [work EXCEPT ![w] = q]
    <3>1. Types
      BY DEF IssueInv
    <3>2. work' = IdSet(w, "touch", i)
      BY <2>1, Zenon DEF IdSet
    <3> QED
      BY <1>1, <2>3, <3>1, <3>2, IdWith
  <2>5. /\ q \in Work /\ q.pc = "touch" /\ q.id = i /\ q.app = r.app /\ q.eval = r.eval
        /\ q.rule = r.rule /\ q.text = r.text /\ q.before = r.before
    <3>1. "touch" \in Busy /\ r.n \in Nat
      BY DEF Busy, Work
    <3> QED
      BY <2>2, <2>3, <3>1, WithIs
  <2>6. Fits(q)
    BY <1>2, <1>4, <2>2, <2>5 DEF Fits
  <2>7. \A k : ~Counting(q, k)
    BY <2>5 DEF Counting
  <2> QED
    BY <1>5, <2>4, <2>5, <2>6, <2>7, WorkGood
<1>8. CASE /\ \A i \in Nearest(r.vec, vecs) : ~Near(r.vec, vecs[i])
           /\ work' = [work EXCEPT ![w].pc = "create"]
  <2>1. PICK q : q = With(r, "create", r.id, r.n)
    OBVIOUS
  <2>2. work' = [work EXCEPT ![w] = q]
    <3>1. Types
      BY DEF IssueInv
    <3>2. work' = [work EXCEPT ![w] = With(r, "create", r.id, r.n)]
      BY <1>1, <1>8, <3>1, GoesWith, Zenon
    <3> QED
      BY <2>1, <3>2
  <2>3. /\ q \in Work /\ q.pc = "create" /\ q.vec = r.vec /\ q.app = r.app /\ q.eval = r.eval
        /\ q.rule = r.rule /\ q.text = r.text /\ q.before = r.before
    <3>1. "create" \in Busy /\ r.n \in Nat /\ r.id \in Nat
      BY DEF Busy, Work
    <3> QED
      BY <2>1, <3>1, WithIs
  <2>4. \A i \in DOMAIN vecs : ~Near(r.vec, vecs[i])
    <3>1. r.vec \in Vector
      BY DEF Work
    <3> QED
      BY <1>4, <1>8, <3>1, NearestReaches
  <2>5. ASSUME NEW i \in r.before, Near(r.vec, issues[i].vec)
        PROVE  issues[i].by = "sqlite" /\ store[r.app].pc = "chroma"
    <3>1. i \in finished /\ i \in Ids
      BY <1>2 DEF Fits, IssueInv, Types
    <3>2. i \notin DOMAIN vecs
      BY <1>4, <2>4, <2>5
    <3>3. Chroma(w) /\ i \notin DOMAIN col
      BY <1>4, <3>1, <3>2
    <3>4. issues[i].by # "chroma"
      BY <3>1, <3>3 DEF IssueInv
    <3>5. issues[i].by \in Ready
      BY <3>1, RowType DEF IssueInv, Types, Ids
    <3> QED
      BY <1>2, <3>3, <3>4, <3>5 DEF Ready
  <2>6. Fits(q)
    BY <1>2, <2>3, <2>5 DEF Fits
  <2>7. \A k : ~Counting(q, k)
    BY <2>3 DEF Counting
  <2> QED
    BY <1>5, <2>2, <2>3, <2>6, <2>7, WorkGood
<1> QED
  BY <1>6, <1>7, <1>8

LEMMA BumpGetGood ==
    ASSUME IssueInv, NEW w \in Workers, BumpGet(w)
    PROVE  IssueInv'
<1>1. PICK r \in Work : r = work[w]
  BY WorkIs
<1>2. /\ r.pc = "get" /\ Fits(r) /\ r.app \in Apps /\ store[r.app].pc = "chroma"
      /\ r.id \in DOMAIN col /\ r.id \in Ids
  BY <1>1, WorkIs DEF BumpGet, Doing, Fits, Busy
<1>3. PICK n : n = col[r.id].n
  OBVIOUS
<1>4. n \in Nat
  BY <1>2, <1>3 DEF IssueInv, Types, Entry
<1>5. PICK q : q = With(r, "put", r.id, n)
  OBVIOUS
<1>6. work' = [work EXCEPT ![w] = q]
  <2>1. Types
    BY DEF IssueInv
  <2>2. work' = CountSet(w, "put", n)
    BY <1>1, <1>3, Zenon DEF BumpGet, CountSet
  <2> QED
    BY <1>1, <1>5, <2>1, <2>2, CountWith
<1>7. /\ q \in Work /\ q.pc = "put" /\ q.id = r.id /\ q.n = n /\ q.app = r.app /\ q.eval = r.eval
      /\ q.rule = r.rule /\ q.text = r.text /\ q.before = r.before
  <2>1. "put" \in Busy /\ r.id \in Nat
    BY DEF Busy, Work
  <2> QED
    BY <1>4, <1>5, <2>1, WithIs
<1>8. n + Cardinality(Pending(r.id)) <= issues[r.id].count
  BY <1>2, <1>3 DEF IssueInv, Behind
<1>9. Fits(q)
  BY <1>2, <1>7, <1>8 DEF Fits, Ready
<1>10. \A i : Counting(q, i) => Counting(work[w], i)
  BY <1>1, <1>2, <1>7 DEF Counting
<1>11. events' \in 0 .. MaxEvents
  BY DEF IssueInv, Types, BumpGet
<1> QED
  BY <1>6, <1>7, <1>9, <1>10, <1>11, WorkGood DEF BumpGet

\* A step that leaves the stores as they are.
LEMMA StepKeeps ==
    ASSUME IssueInv, Grows, UNCHANGED store, Types', \A u \in Workers : Fits(work[u])',
           \A i \in DOMAIN col' : Behind(i)',
           \A i \in finished' : issues'[i].by = "chroma" => i \in DOMAIN col',
           (\A i \in Ids : issues[i].before \subseteq Ids)', DuplicateHasCause'
    PROVE  IssueInv'
<1>1. \A a \in Apps : Listed(store[a])'
  <2> TAKE a \in Apps
  <2>1. PICK s \in Store : s = store[a] /\ s = store'[a]
    BY DEF IssueInv, Types
  <2>2. Listed(s)'
    BY <2>1, ListedOn DEF IssueInv
  <2> QED
    BY <2>1, <2>2
<1> QED
  BY <1>1 DEF IssueInv

LEMMA RaiseGood ==
    ASSUME IssueInv, NEW w \in Workers, BumpFails(w) \/ Raise(w)
    PROVE  IssueInv'
BY EndsGood DEF BumpFails, Raise

LEMMA TouchGood ==
    ASSUME IssueInv, NEW w \in Workers, Touch(w)
    PROVE  IssueInv'
<1>1. PICK r \in Work : r = work[w]
  BY WorkIs
<1>2. /\ r.pc = "touch" /\ Fits(r) /\ r.app \in Apps /\ store[r.app].pc \in Ready
      /\ r.id \in Ids /\ r.id \in Nat /\ r.n \in Nat
      /\ Chroma(w) = (store[r.app].pc = "chroma")
      /\ Chroma(w) => r.id \in DOMAIN col
  BY <1>1, WorkIs DEF Touch, Doing, Fits, Busy, Chroma, At, Work
<1>3. issues \in Seq(IssueRow) /\ Ids = 1 .. Len(issues) /\ Len(issues) \in Nat
  BY DEF IssueInv, Types, Ids
<1>4. PICK row \in IssueRow : row = issues[r.id]
  BY <1>2, <1>3, RowType
<1>5. PICK new : new = [row EXCEPT !.count = row.count + 1]
  OBVIOUS
<1>6. /\ new \in IssueRow /\ new.count = row.count + 1 /\ new.vec = row.vec
      /\ new.by = row.by /\ new.before = row.before
  BY <1>5 DEF IssueRow
<1>7. issues' = [issues EXCEPT ![r.id] = new]
  BY <1>1, <1>4, <1>5 DEF Touch
<1>8. /\ issues' \in Seq(IssueRow) /\ Len(issues') = Len(issues)
      /\ \A i \in Ids : issues'[i] = IF i = r.id THEN new ELSE issues[i]
  BY <1>2, <1>3, <1>6, <1>7
<1>9. PICK q \in Work : /\ work' = [work EXCEPT ![w] = q]
                        /\ q = Idle \/ (Chroma(w) /\ q = With(r, "get", r.id, r.n))
  <2>1. CASE Chroma(w)
    <3>1. work' = [work EXCEPT ![w].pc = "get"] /\ Types
      BY <2>1 DEF Touch, IssueInv
    <3>2. work' = [work EXCEPT ![w] = With(r, "get", r.id, r.n)]
      BY <1>1, <3>1, GoesWith, Zenon
    <3>3. With(r, "get", r.id, r.n) \in Work
      BY <1>2, WithIs DEF Busy
    <3> QED
      BY <2>1, <3>2, <3>3
  <2>2. CASE ~Chroma(w)
    BY <2>2, IdleIs DEF Touch, Ends
  <2> QED
    BY <2>1, <2>2
<1>10. UNCHANGED <<col, store, finished, events>>
  BY DEF Touch
<1>11. \A i : Counting(q, i) => i = r.id
  <2>1. "get" \in Busy
    BY DEF Busy
  <2>2. q.pc = "idle" \/ q.id = r.id
    BY <1>2, <1>9, <2>1, IdleIs, WithIs
  <2> QED
    BY <2>2 DEF Counting
<1>12. ASSUME NEW i \in Ids
       PROVE  /\ issues[i].count \in Nat /\ issues[i].count <= issues'[i].count
              /\ issues'[i].vec = issues[i].vec /\ issues'[i].by = issues[i].by
              /\ issues'[i].before = issues[i].before
              /\ i = r.id => issues'[i].count = issues[i].count + 1
              /\ i # r.id => issues'[i].count = issues[i].count
  <2>1. issues[i] \in IssueRow /\ issues[i].count \in Nat
    BY <1>3, RowType
  <2> QED
    BY <1>4, <1>6, <1>8, <2>1
<1>13. ASSUME NEW i \in Ids
       PROVE  Cardinality(Pending(i)') + issues[i].count <= Cardinality(Pending(i)) + issues'[i].count
  <2>1. CASE Counting(q, i)
    <3>1. Pending(i)' = Pending(i) \cup {w}
      BY <1>9, <2>1, PendingMoves
    <3>2. Cardinality(Pending(i)') <= Cardinality(Pending(i)) + 1
      <4>1. CASE w \in Pending(i)
        <5>1. Pending(i)' = Pending(i)
          BY <3>1, <4>1
        <5> QED
          BY <5>1, PendingIs
      <4>2. CASE w \notin Pending(i)
        <5>1. Cardinality(Pending(i) \cup {w}) = Cardinality(Pending(i)) + 1
          BY <4>2, PendingIs, FS_AddElement
        <5> QED
          BY <3>1, <5>1, PendingIs
      <4> QED
        BY <4>1, <4>2
    <3> QED
      BY <1>11, <1>12, <2>1, <3>2, PendingIs
  <2>2. CASE ~Counting(q, i)
    <3>1. Pending(i)' \subseteq Pending(i)
      BY <1>9, <2>2, PendingMoves
    <3>2. Cardinality(Pending(i)') <= Cardinality(Pending(i))
      BY <3>1, PendingIs, FS_Subset
    <3> QED
      BY <1>12, <3>2, PendingIs
  <2> QED
    BY <2>1, <2>2
<1>14. Grows
  BY <1>3, <1>8, <1>10, <1>12, <1>13 DEF Grows
<1>15. Fits(q)'
  <2>1. CASE q = Idle
    BY <2>1, IdleIs DEF Fits, Busy
  <2>2. CASE Chroma(w) /\ q = With(r, "get", r.id, r.n)
    <3>1. /\ q.pc = "get" /\ q.id = r.id /\ q.app = r.app /\ q.eval = r.eval
          /\ q.rule = r.rule /\ q.text = r.text /\ q.before = r.before
      <4>1. "get" \in Busy
        BY DEF Busy
      <4> QED
        BY <1>2, <2>2, <4>1, WithIs
    <3>2. Fits(q)
      BY <1>2, <2>2, <3>1 DEF Fits
    <3> QED
      BY <1>10, <1>14, <3>2, FitsOn DEF IssueInv
  <2> QED
    BY <1>9, <2>1, <2>2
<1>16. work' \in [Workers -> Work] /\ \A u \in Workers : Fits(work[u])'
  BY <1>9, <1>10, <1>14, <1>15, MovesFit
<1>17. Ids' = Ids
  BY <1>3, <1>8 DEF Ids
<1>18. Types'
  BY <1>8, <1>10, <1>16, <1>17 DEF IssueInv, Types
<1>19. \A i \in DOMAIN col' : Behind(i)'
  BY <1>10, <1>14, BehindOn DEF IssueInv
<1>20. \A i \in finished' : issues'[i].by = "chroma" => i \in DOMAIN col'
  BY <1>10, <1>12 DEF IssueInv, Types
<1>21. (\A i \in Ids : issues[i].before \subseteq Ids)' /\ DuplicateHasCause'
  BY <1>8, <1>14, CausesOn
<1> QED
  BY <1>10, <1>14, <1>16, <1>18, <1>19, <1>20, <1>21, StepKeeps

LEMMA BumpPutGood ==
    ASSUME IssueInv, NEW w \in Workers, BumpPut(w)
    PROVE  IssueInv'
<1>1. PICK r \in Work : r = work[w]
  BY WorkIs
<1>2. /\ r.pc = "put" /\ Fits(r) /\ r.id \in DOMAIN col /\ r.id \in Ids /\ r.n \in Nat
      /\ r.n + Cardinality(Pending(r.id)) <= issues[r.id].count
  BY <1>1, WorkIs DEF BumpPut, Doing, Fits, Work
<1>3. /\ work' = [work EXCEPT ![w] = Idle] /\ UNCHANGED <<issues, store, finished, events>>
      /\ col' = [col EXCEPT ![r.id].n = r.n + 1]
  BY <1>1 DEF BumpPut, Ends
<1>4. col \in [DOMAIN col -> Entry]
  BY DEF IssueInv, Types
<1>5. PICK e \in Entry : e = col[r.id]
  BY <1>2, <1>4
<1>6. PICK new : new = [e EXCEPT !.n = r.n + 1]
  OBVIOUS
<1>7. new \in Entry /\ new.n = r.n + 1 /\ new.emb = e.emb
  BY <1>2, <1>6 DEF Entry
<1>8. /\ DOMAIN col' = DOMAIN col /\ col' \in [DOMAIN col' -> Entry]
      /\ \A i \in DOMAIN col : col'[i] = IF i = r.id THEN new ELSE col[i]
  BY <1>3, <1>4, <1>5, <1>6, <1>7
<1>9. \A i : Pending(i)' = Pending(i) \ {w}
  BY <1>3, IdleIs, PendingMoves DEF Counting
<1>10. Grows
  BY <1>3, <1>8, <1>9, QuietGrows DEF IssueInv
<1>11. work' \in [Workers -> Work] /\ \A u \in Workers : Fits(work[u])'
  BY <1>3, <1>10, IdleFits, IdleIs, MovesFit
<1>12. Types'
  BY <1>3, <1>8, <1>11 DEF IssueInv, Types, Ids
<1>13. ASSUME NEW i \in DOMAIN col'
       PROVE  Behind(i)'
  <2>1. CASE i = r.id
    <3>1. w \in Pending(i)
      BY <1>1, <1>2, <2>1 DEF Pending, Counting
    <3>2. Cardinality(Pending(i)') = Cardinality(Pending(i)) - 1
      BY <1>9, <3>1, PendingIs, FS_RemoveElement
    <3>3. issues[i].count \in Nat
      BY <1>2, <1>10, <2>1, RowsAre DEF IssueInv
    <3>4. col'[i].n + Cardinality(Pending(i)') <= issues'[i].count
      BY <1>2, <1>3, <1>7, <1>8, <2>1, <3>2, <3>3, PendingIs
    <3>5. col'[i].emb = issues'[i].vec
      BY <1>2, <1>3, <1>5, <1>7, <1>8, <2>1 DEF IssueInv, Behind
    <3> QED
      BY <3>4, <3>5 DEF Behind
  <2>2. CASE i # r.id
    BY <1>8, <1>10, <2>2, BehindOn DEF IssueInv
  <2> QED
    BY <2>1, <2>2
<1>14. \A i \in finished' : issues'[i].by = "chroma" => i \in DOMAIN col'
  BY <1>3, <1>8 DEF IssueInv
<1>15. (\A i \in Ids : issues[i].before \subseteq Ids)' /\ DuplicateHasCause'
  BY <1>3, <1>10, CausesOn
<1> QED
  BY <1>3, <1>10, <1>11, <1>12, <1>13, <1>14, <1>15, StepKeeps

LEMMA AddGood ==
    ASSUME IssueInv, NEW w \in Workers, Add(w)
    PROVE  IssueInv'
<1>1. PICK r \in Work : r = work[w]
  BY WorkIs
<1>2. r.pc = "add" /\ Fits(r) /\ r.id \in Ids /\ issues[r.id].vec = r.vec
  BY <1>1, WorkIs DEF Add, Doing, Fits
<1>3. PICK entries : entries = [i \in {r.id} |-> [emb |-> r.vec, n |-> 1]]
  OBVIOUS
<1>4. /\ work' = [work EXCEPT ![w] = Idle] /\ UNCHANGED <<issues, store, events>>
      /\ col' = Added(entries) /\ finished' = finished \cup {r.id}
  BY <1>1, <1>3 DEF Add, Ends
<1>5. \A i : Pending(i)' = Pending(i) \ {w}
  BY <1>4, IdleIs, PendingMoves DEF Counting
<1>6. Grows
  <2>1. DOMAIN col \subseteq DOMAIN col' /\ finished \subseteq finished'
    BY <1>4 DEF Added
  <2> QED
    BY <1>4, <1>5, <2>1, QuietGrows DEF IssueInv
<1>7. ASSUME NEW i \in DOMAIN entries
      PROVE  /\ i \in Ids /\ entries[i] \in Entry /\ entries[i].emb = issues[i].vec
             /\ entries[i].n <= issues[i].count
             /\ i \notin DOMAIN col => Pending(i)' = {}
  <2>1. i = r.id /\ entries[i] = [emb |-> r.vec, n |-> 1]
    BY <1>3
  <2>2. issues[i].count \in Nat \ {0} /\ r.vec \in Vector
    BY <1>2, <2>1, RowType DEF IssueInv, Types, Ids
  <2>3. i \notin DOMAIN col => Pending(i)' = {}
    BY <1>5, NothingPending
  <2> QED
    BY <1>2, <2>1, <2>2, <2>3 DEF Entry
<1>8. /\ col' \in [DOMAIN col' -> Entry] /\ DOMAIN col' \subseteq Ids
      /\ DOMAIN col' = DOMAIN col \cup DOMAIN entries
      /\ \A i \in DOMAIN col' : Behind(i)'
  BY <1>4, <1>6, <1>7, AddedKeeps
<1>9. work' \in [Workers -> Work] /\ \A u \in Workers : Fits(work[u])'
  BY <1>4, <1>6, IdleFits, IdleIs, MovesFit
<1>10. Types'
  BY <1>2, <1>4, <1>8, <1>9 DEF IssueInv, Types, Ids
<1>11. \A i \in finished' : issues'[i].by = "chroma" => i \in DOMAIN col'
  BY <1>3, <1>4, <1>8 DEF IssueInv
<1>12. (\A i \in Ids : issues[i].before \subseteq Ids)' /\ DuplicateHasCause'
  BY <1>4, <1>6, CausesOn
<1> QED
  BY <1>4, <1>6, <1>8, <1>9, <1>10, <1>11, <1>12, StepKeeps

LEMMA CreateGood ==
    ASSUME IssueInv, NEW w \in Workers, Create(w)
    PROVE  IssueInv'
<1>1. PICK r \in Work : r = work[w]
  BY WorkIs
<1>2. /\ r.pc = "create" /\ Fits(r) /\ r.app \in Apps /\ store[r.app].pc \in Ready
      /\ r.vec \in Vector /\ r.n \in Nat /\ r.before \subseteq finished
      /\ Chroma(w) = (store[r.app].pc = "chroma")
  BY <1>1, WorkIs DEF Create, Doing, Fits, Busy, Chroma, At, Work
<1>3. PICK last : last = Len(issues) + 1
  OBVIOUS
<1>4. /\ issues \in Seq(IssueRow) /\ Ids = 1 .. Len(issues) /\ Len(issues) \in Nat
      /\ finished \subseteq Ids
  BY DEF IssueInv, Types, Ids
<1>5. last \in Nat /\ last \notin Ids
  BY <1>3, <1>4
<1>6. PICK row : row = [vec |-> r.vec, count |-> 1, by |-> store[r.app].pc, before |-> r.before]
  OBVIOUS
<1>7. /\ row \in IssueRow /\ row.vec = r.vec /\ row.by = store[r.app].pc
      /\ row.before = r.before
  <2>1. r.before \subseteq Nat
    BY DEF Work
  <2> QED
    BY <1>2, <1>6, <2>1 DEF IssueRow
<1>8. issues' = Append(issues, row)
  BY <1>1, <1>6 DEF Create
<1>9. /\ issues' \in Seq(IssueRow) /\ Len(issues') = Len(issues) + 1 /\ issues'[last] = row
      /\ \A i \in Ids : issues'[i] = issues[i]
      /\ Ids' = Ids \cup {last}
  <2>1. /\ issues' \in Seq(IssueRow) /\ Len(issues') = Len(issues) + 1 /\ issues'[last] = row
        /\ \A i \in Ids : issues'[i] = issues[i]
    BY <1>3, <1>4, <1>7, <1>8, AppendProperties
  <2>2. Ids' = 1 .. Len(issues')
    BY <2>1 DEF Ids
  <2> QED
    BY <1>3, <1>4, <2>1, <2>2
<1>10. UNCHANGED <<col, store, events>>
  BY DEF Create
<1>11. PICK q \in Work :
         /\ work' = [work EXCEPT ![w] = q]
         /\ \/ Chroma(w) /\ q = With(r, "add", last, r.n) /\ finished' = finished
            \/ ~Chroma(w) /\ q = Idle /\ finished' = finished \cup {last}
  <2>1. CASE Chroma(w)
    <3>1. work' = IdSet(w, "add", last) /\ finished' = finished /\ Types
      BY <1>3, <2>1, Zenon DEF Create, IdSet, IssueInv
    <3>2. work' = [work EXCEPT ![w] = With(r, "add", last, r.n)]
      BY <1>1, <3>1, IdWith
    <3>3. "add" \in Busy
      BY DEF Busy
    <3>4. With(r, "add", last, r.n) \in Work
      BY <1>2, <1>5, <3>3, WithIs
    <3> QED
      BY <2>1, <3>1, <3>2, <3>4
  <2>2. CASE ~Chroma(w)
    BY <1>3, <2>2, IdleIs DEF Create, Ends
  <2> QED
    BY <2>1, <2>2
<1>12. \/ q = Idle /\ ~Chroma(w)
       \/ /\ Chroma(w) /\ q.pc = "add" /\ q.id = last /\ q.app = r.app /\ q.eval = r.eval
          /\ q.rule = r.rule /\ q.text = r.text /\ q.before = r.before /\ q.vec = r.vec
  <2>1. "add" \in Busy
    BY DEF Busy
  <2> QED
    BY <1>2, <1>5, <1>11, <2>1, WithIs
<1>13. finished \subseteq finished' /\ finished' \subseteq finished \cup {last}
       /\ (Chroma(w) => finished' = finished)
  BY <1>11
<1>14. \A i : ~Counting(q, i)
  BY <1>12, IdleIs DEF Counting
<1>15. Grows
  <2>1. ASSUME NEW i \in Ids
        PROVE  /\ issues[i].count <= issues'[i].count
               /\ Cardinality(Pending(i)') + issues[i].count <= Cardinality(Pending(i)) + issues'[i].count
    <3>1. issues[i].count \in Nat /\ issues'[i] = issues[i]
      BY <1>4, <1>9, RowType
    <3>2. Pending(i)' \subseteq Pending(i)
      <4>1. ~Counting(q, i) /\ work' = [work EXCEPT ![w] = q]
        BY <1>11, <1>14
      <4>2. Pending(i)' = Pending(i) \ {w}
        BY <4>1, PendingMoves
      <4> QED
        BY <4>2
    <3>3. Cardinality(Pending(i)') <= Cardinality(Pending(i))
      BY <3>2, PendingIs, FS_Subset
    <3> QED
      BY <3>1, <3>3, PendingIs
  <2> QED
    BY <1>4, <1>9, <1>10, <1>13, <2>1 DEF Grows
<1>16. Fits(q)'
  <2>1. CASE q = Idle
    BY <2>1, IdleIs DEF Fits, Busy
  <2>2. CASE q # Idle
    <3>1. /\ q.pc = "add" /\ q.id \in Ids' /\ issues'[q.id].vec = q.vec /\ q.app \in Apps
          /\ store'[q.app].pc = "chroma" /\ q.before \subseteq finished'
      BY <1>2, <1>7, <1>9, <1>10, <1>12, <1>13, <2>2
    <3>2. Agrees(q.rule, q.text, q.eval)
      BY <1>2, <1>12, <2>2 DEF Fits
    <3> QED
      BY <3>1, <3>2 DEF Fits, Ready
  <2> QED
    BY <2>1, <2>2
<1>17. work' \in [Workers -> Work] /\ \A u \in Workers : Fits(work[u])'
  BY <1>10, <1>11, <1>15, <1>16, MovesFit
<1>18. Types'
  BY <1>4, <1>9, <1>10, <1>13, <1>17 DEF IssueInv, Types
<1>19. \A i \in DOMAIN col' : Behind(i)'
  BY <1>10, <1>15, BehindOn DEF IssueInv
<1>20. \A i \in finished' : issues'[i].by = "chroma" => i \in DOMAIN col'
  <2> TAKE i \in finished'
  <2>1. CASE i \in finished
    BY <1>4, <1>9, <1>10, <2>1 DEF IssueInv
  <2>2. CASE i \notin finished
    <3>1. i = last /\ ~Chroma(w)
      BY <1>13, <2>2
    <3> QED
      BY <1>2, <1>7, <1>9, <3>1
  <2> QED
    BY <2>1, <2>2
<1>21. \A i \in Ids' : issues'[i].before \subseteq Ids /\ Ids \subseteq Ids'
  <2> TAKE i \in Ids'
  <2>1. CASE i \in Ids
    BY <1>9, <2>1 DEF IssueInv
  <2>2. CASE i = last
    BY <1>2, <1>4, <1>7, <1>9, <2>2
  <2> QED
    BY <1>9, <2>1, <2>2
<1>22. DuplicateHasCause'
  <2> SUFFICES ASSUME NEW i \in Ids', NEW j \in Ids',
                      Near(issues'[j].vec, issues'[i].vec), i \in issues'[j].before
               PROVE  issues'[i].by = "sqlite" /\ issues'[j].by = "chroma"
    BY DEF DuplicateHasCause
  <2>1. i \in Ids /\ issues'[i] = issues[i]
    BY <1>9, <1>21
  <2>2. CASE j \in Ids
    BY <1>9, <2>1, <2>2 DEF IssueInv, DuplicateHasCause
  <2>3. CASE j = last
    <3>1. i \in r.before /\ Near(r.vec, issues[i].vec)
      BY <1>7, <1>9, <2>1, <2>3
    <3>2. issues[i].by = "sqlite" /\ store[r.app].pc = "chroma"
      BY <1>2, <3>1 DEF Fits
    <3> QED
      BY <1>7, <1>9, <2>1, <2>3, <3>2
  <2> QED
    BY <1>9, <2>2, <2>3
<1>23. (\A i \in Ids : issues[i].before \subseteq Ids)'
  BY <1>21
<1> QED
  BY <1>10, <1>15, <1>17, <1>18, <1>19, <1>20, <1>22, <1>23, StepKeeps

-----------------------------------------------------------------------------
(* The invariant, and what follows from it *)

LEMMA InitInv == Init => IssueInv
<1> SUFFICES ASSUME Init PROVE IssueInv
  OBVIOUS
<1>1. issues = <<>> /\ Ids = {} /\ DOMAIN col = {} /\ finished = {} /\ events = 0
  BY DEF Init, Ids
<1>2. col \in [DOMAIN col -> Entry]
  BY <1>1 DEF Init
<1>3. \A a \in Apps : store[a] \in Store /\ Listed(store[a])
  <2> TAKE a \in Apps
  <2>1. PICK s : s = [pc |-> "down", rows |-> <<>>]
    OBVIOUS
  <2>2. s \in Store /\ Listed(s)
    BY <2>1, EmptiedIs
  <2>3. store[a] = s
    BY <2>1 DEF Init
  <2> QED
    BY <2>2, <2>3
<1>4. store \in [Apps -> Store]
  BY <1>3 DEF Init
<1>5. work \in [Workers -> Work] /\ \A w \in Workers : Fits(work[w])
  <2>1. \A w \in Workers : work[w] = Idle
    BY DEF Init
  <2> QED
    BY <2>1, IdleFits, IdleIs DEF Init
<1>6. Types
  <2>1. <<>> \in Seq(IssueRow)
    OBVIOUS
  <2> QED
    BY <1>1, <1>2, <1>4, <1>5, <2>1, IssueAssumption DEF Types
<1> QED
  BY <1>1, <1>3, <1>5, <1>6 DEF IssueInv, DuplicateHasCause

LEMMA NextInv ==
    ASSUME IssueInv, [Next]_vars
    PROVE  IssueInv'
<1>1. ASSUME NEW a \in Apps, OpenStore(a) \/ ListRows(a) \/ Fill(a) \/ FallBack(a) \/ Stop(a)
      PROVE  IssueInv'
  BY <1>1, OpenStoreGood, ListRowsGood, FillGood, FallBackGood, StopGood
<1>2. ASSUME NEW w \in Workers, NEW a \in Apps, NEW r \in Rules, NEW text \in Texts,
             Start(w, a, r, text)
      PROVE  IssueInv'
  BY <1>2, StartsGood
<1>3. ASSUME NEW w \in Workers,
             \/ Search(w) \/ Touch(w) \/ BumpGet(w) \/ BumpPut(w) \/ BumpFails(w)
             \/ Create(w) \/ Add(w) \/ Raise(w)
      PROVE  IssueInv'
  BY <1>3, SearchGood, TouchGood, BumpGetGood, BumpPutGood, CreateGood, AddGood, RaiseGood
<1>4. CASE UNCHANGED vars
  <2>1. Grows
    BY <1>4, QuietGrows DEF IssueInv, vars, Pending
  <2>2. \A w \in Workers : Fits(work[w])'
    BY <1>4, <2>1, OthersFit DEF vars
  <2> QED
    BY <1>4, <2>1, <2>2, QuietKeeps DEF IssueInv, Types, vars
<1> QED
  BY <1>1, <1>2, <1>3, <1>4 DEF Next

LEMMA Invariant == Spec => []IssueInv
BY InitInv, NextInv, PTL DEF Spec

\* Every variable has its type.
\* (issue_vectorstore.py, chroma_issue_store.py: the stores)
THEOREM IssueTypes == Spec => []TypeOK
<1>1. IssueInv => TypeOK
  <2> SUFFICES ASSUME IssueInv PROVE TypeOK
    OBVIOUS
  <2>1. issues \in Seq(IssueRow) /\ Ids = 1 .. Len(issues)
    BY DEF IssueInv, Types, Ids
  <2>2. \A i \in Ids : /\ issues[i].vec \in Vector /\ issues[i].count \in Nat \ {0}
                       /\ issues[i].by \in Ready /\ issues[i].before \subseteq Ids
    BY <2>1, RowType DEF IssueInv
  <2>3. \A i \in DOMAIN col : col[i].emb \in Vector /\ col[i].n \in Nat \ {0}
    BY DEF IssueInv, Types, Entry
  <2>4. \A a \in Apps : store[a].pc \in {"down", "list", "fill", "sqlite", "chroma"}
    BY DEF IssueInv, Types, Store, Ready
  <2> QED
    BY <2>2, <2>3, <2>4 DEF IssueInv, Types, TypeOK, Ready
<1> QED
  BY <1>1, Invariant, PTL

\* Every evaluation a capture makes is the one the engine's header promises.
\* (core/rule_engine.py: evaluate_rule)
THEOREM IssueEngineAgrees == Spec => []EngineAgrees
<1>1. IssueInv => EngineAgrees
  BY DEF IssueInv, Fits, EngineAgrees
<1> QED
  BY <1>1, Invariant, PTL

\* An entry of the collection is that of a row, and never counts more than it.
\* (chroma_issue_store.py: classify_event, _bump_occurrence, _backfill_if_empty)
THEOREM IssueIndexBehindRecord == Spec => []IndexBehindRecord
<1>1. IssueInv => IndexBehindRecord
  <2> SUFFICES ASSUME IssueInv, NEW i \in DOMAIN col
               PROVE  i \in Ids /\ col[i].emb = issues[i].vec /\ col[i].n <= issues[i].count
    BY DEF IndexBehindRecord
  <2>1. i \in Ids /\ col[i] \in Entry /\ issues[i] \in IssueRow
    BY RowType DEF IssueInv, Types, Ids
  <2>2. Behind(i)
    BY DEF IssueInv
  <2>3. col[i].n \in Nat /\ issues[i].count \in Nat
    BY <2>1, RowType DEF Entry
  <2> QED
    BY <2>1, <2>2, <2>3, PendingIs DEF Behind
<1> QED
  BY <1>1, Invariant, PTL

\* Two issues near each other overlapped, or Chroma was never given the first.
\* (issue_vectorstore.py, chroma_issue_store.py: classify_event)
THEOREM IssueDuplicateHasCause == Spec => []DuplicateHasCause
<1>1. IssueInv => DuplicateHasCause
  BY DEF IssueInv
<1> QED
  BY <1>1, Invariant, PTL
=============================================================================
