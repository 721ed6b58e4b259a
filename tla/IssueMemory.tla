----------------------------- MODULE IssueMemory -----------------------------
(* The issue memory: whether a matched rule is a new issue or one seen before *)
(* (services/issue_vectorstore.py, services/chroma_issue_store.py and their    *)
(* rows in db/repository.py).                                                  *)
(*                                                                            *)
(* Two processes share the SQLite table of issues and the Chroma collection   *)
(* on disk.  A process whose chromadb does not load works on SQLite alone.    *)
(* Every access is a step of its own; a call may fail and a process may die   *)
(* between any two.                                                            *)
EXTENDS RuleEngine

CONSTANTS
    Apps,           \* the processes, each with a store of its own
    Workers,        \* the captures that may be classifying at one time
    Rules, Texts,   \* what is evaluated
    Dims, Bucket,   \* the vector's dimensions; the hash of a word
    Threshold,      \* similarity_threshold, in hundredths
    MaxIssues,      \* bound on the rows
    MaxEvents       \* bound on the classifications

ASSUME IssueAssumption ==
    /\ \A r \in Rules : IsRule(r)
    /\ Texts \subseteq Phrase
    /\ Dims \in Nat \ {0} /\ Bucket \in [Words -> Nat]
    /\ Threshold \in 1 .. 100 /\ IsFiniteSet(Workers)
    /\ MaxIssues \in Nat /\ MaxEvents \in Nat

VARIABLES
    issues,     \* issue_vectors, in order of id: [vec, count, by, before]
    col,        \* the collection: id -> [emb, n]
    store,      \* store[a]: [pc, rows], the process's store and its start
    work,       \* work[w]: the classification in progress
    finished,   \* history: the ids whose new_issue result was returned
    events      \* the classifications started
vars == <<issues, col, store, work, finished, events>>

NoIssue == 0
Buckets == 0 .. Dims - 1
Vector == [Buckets -> Nat]

-----------------------------------------------------------------------------
(* The vectors                                                                *)

(* The words of the text a vector is made of: the matched terms, then the     *)
(* recognised text.                                                            *)
Vectorize(text) ==
    [b \in Buckets |-> Cardinality({i \in DOMAIN text : Bucket[Fold[text[i]]] % Dims = b})]

DenseFromSparse(sparse) ==
    [b \in Buckets |-> IF b \in DOMAIN sparse THEN sparse[b] ELSE 0]

(* The sum of the products u[b] * v[b], as the number of pairs that make it.  *)
Dot(u, v) == Cardinality(UNION {{b} \X ((1 .. u[b]) \X (1 .. v[b])) : b \in Buckets})

(* The cosine of u and v, which is 0 for an empty vector, reaches the threshold. *)
Near(u, v) ==
    /\ Dot(u, v) > 0
    /\ 10000 * Dot(u, v) * Dot(u, v) >= Threshold * Threshold * Dot(u, u) * Dot(v, v)
Closer(x, u, v) == Dot(x, u) * Dot(x, u) * Dot(v, v) > Dot(x, v) * Dot(x, v) * Dot(u, u)

(* The ids of the best score; rows of one score come in no fixed order. *)
Nearest(x, vecs) ==
    {i \in DOMAIN vecs : Dot(x, vecs[i]) > 0 /\ \A j \in DOMAIN vecs : ~Closer(x, vecs[j], vecs[i])}

-----------------------------------------------------------------------------
(* The start of a process: __init__ and the back-fill                         *)

Ids == DOMAIN issues
Idle == [pc |-> "idle", app |-> "none", vec |-> [b \in Buckets |-> 0],
         eval |-> Verdict(FALSE, {}), rule |-> CHOOSE r \in Rules : TRUE,
         text |-> <<>>, id |-> NoIssue, n |-> 0, before |-> {}]

Init == /\ issues = <<>>
        /\ col = [i \in {} |-> [emb |-> [b \in Buckets |-> 0], n |-> 0]]
        /\ store = [a \in Apps |-> [pc |-> "down", rows |-> <<>>]]
        /\ work = [w \in Workers |-> Idle]
        /\ finished = {}
        /\ events = 0

At(a, pc) == store[a].pc = pc

(* The process opens the collection; one that holds anything is used as it is. *)
OpenStore(a) ==
    /\ At(a, "down")
    /\ store' = [store EXCEPT ![a].pc = IF DOMAIN col # {} THEN "chroma" ELSE "list"]
    /\ UNCHANGED <<issues, col, work, finished, events>>

ListRows(a) ==
    /\ At(a, "list")
    /\ store' = [store EXCEPT ![a] = [pc |-> IF issues = <<>> THEN "chroma" ELSE "fill",
                                      rows |-> issues]]
    /\ UNCHANGED <<issues, col, work, finished, events>>

(* Chroma leaves an id that it holds already as it is. *)
Added(entries) == [i \in DOMAIN col \union DOMAIN entries |->
                      IF i \in DOMAIN col THEN col[i] ELSE entries[i]]

(* The back-fill as an upsert, which replaces what another process added. *)
FillM(a) ==
    /\ At(a, "fill")
    /\ LET rows == store[a].rows
           entries == [i \in DOMAIN rows |-> [emb |-> DenseFromSparse(rows[i].vec),
                                              n |-> rows[i].count]]
       IN col' = [i \in DOMAIN col \union DOMAIN entries |->
                     IF i \in DOMAIN entries THEN entries[i] ELSE col[i]]
    /\ store' = [store EXCEPT ![a] = [pc |-> "chroma", rows |-> <<>>]]
    /\ UNCHANGED <<issues, work, finished, events>>
Fill(a) ==
    /\ At(a, "fill")
    /\ LET rows == store[a].rows
       IN col' = Added([i \in DOMAIN rows |-> [emb |-> DenseFromSparse(rows[i].vec),
                                               n |-> rows[i].count]])
    /\ store' = [store EXCEPT ![a] = [pc |-> "chroma", rows |-> <<>>]]
    /\ UNCHANGED <<issues, work, finished, events>>

(* chromadb is missing, or the constructor raises: the SQLite store remains. *)
FallBack(a) ==
    /\ store[a].pc \in {"down", "list", "fill"}
    /\ store' = [store EXCEPT ![a] = [pc |-> "sqlite", rows |-> <<>>]]
    /\ UNCHANGED <<issues, col, work, finished, events>>

(* The process ends or dies, at any point, and with it what it was doing. *)
Stop(a) ==
    /\ ~At(a, "down")
    /\ store' = [store EXCEPT ![a] = [pc |-> "down", rows |-> <<>>]]
    /\ work' = [w \in Workers |-> IF work[w].app = a THEN Idle ELSE work[w]]
    /\ UNCHANGED <<issues, col, finished, events>>

-----------------------------------------------------------------------------
(* classify_event, of either store                                            *)

Doing(w, pc) == work[w].pc = pc
Chroma(w) == At(work[w].app, "chroma")

(* A rule is evaluated on the text; only one that matched goes on. *)
Start(w, a, r, text) ==
    LET v == EvaluateRule(r, text)
        term == IF v.terms = {} THEN <<>> ELSE CHOOSE t \in v.terms : TRUE
    IN /\ Doing(w, "idle") \/ Doing(w, "unmatched")
       /\ store[a].pc \in {"sqlite", "chroma"}
       /\ events < MaxEvents
       /\ events' = events + 1
       /\ work' = [work EXCEPT ![w] =
                      [pc |-> IF v.matched THEN "search" ELSE "unmatched", app |-> a,
                       vec |-> IF v.matched THEN Vectorize(term \o text) ELSE Idle.vec,
                       eval |-> v, rule |-> r, text |-> text, id |-> NoIssue, n |-> 0,
                       before |-> IF v.matched THEN finished ELSE {}]]
       /\ UNCHANGED <<issues, col, store, finished>>

(* The nearest open issue, if there is one, decides: known, or new. *)
Search(w) ==
    LET vecs == IF Chroma(w) THEN [i \in DOMAIN col |-> col[i].emb]
                             ELSE [i \in Ids |-> issues[i].vec]
        best == Nearest(work[w].vec, vecs)
    IN /\ Doing(w, "search")
       /\ \/ \E i \in best :
                /\ Near(work[w].vec, vecs[i])
                /\ work' = [work EXCEPT ![w].pc = "touch", ![w].id = i]
          \/ /\ \A i \in best : ~Near(work[w].vec, vecs[i])
             /\ work' = [work EXCEPT ![w].pc = "create"]
       /\ UNCHANGED <<issues, col, store, finished, events>>

Ends(w) == work' = [work EXCEPT ![w] = Idle]

Touch(w) ==
    /\ Doing(w, "touch")
    /\ issues' = [issues EXCEPT ![work[w].id].count = @ + 1]
    /\ IF Chroma(w) THEN work' = [work EXCEPT ![w].pc = "get"] ELSE Ends(w)
    /\ UNCHANGED <<col, store, finished, events>>

(* _bump_occurrence reads the entry and writes it back, in two calls.  An     *)
(* error of either is swallowed.                                               *)
BumpGet(w) ==
    /\ Doing(w, "get")
    /\ work' = [work EXCEPT ![w].pc = "put", ![w].n = col[work[w].id].n]
    /\ UNCHANGED <<issues, col, store, finished, events>>

BumpPut(w) ==
    /\ Doing(w, "put")
    /\ col' = [col EXCEPT ![work[w].id].n = work[w].n + 1]
    /\ Ends(w)
    /\ UNCHANGED <<issues, store, finished, events>>

BumpFails(w) ==
    /\ Doing(w, "get") \/ Doing(w, "put")
    /\ Ends(w)
    /\ UNCHANGED <<issues, col, store, finished, events>>

(* The capture answered once the row is there, the collection written later. *)
CreateM(w) ==
    /\ Doing(w, "create")
    /\ Len(issues) < MaxIssues
    /\ issues' = Append(issues, [vec |-> work[w].vec, count |-> 1,
                                 by |-> store[work[w].app].pc, before |-> work[w].before])
    /\ IF Chroma(w)
       THEN work' = [work EXCEPT ![w].pc = "add", ![w].id = Len(issues) + 1]
       ELSE Ends(w)
    /\ finished' = finished \union {Len(issues) + 1}
    /\ UNCHANGED <<col, store, events>>
(* The row first, committed; then, with Chroma, its entry. *)
Create(w) ==
    /\ Doing(w, "create")
    /\ Len(issues) < MaxIssues
    /\ issues' = Append(issues, [vec |-> work[w].vec, count |-> 1,
                                 by |-> store[work[w].app].pc, before |-> work[w].before])
    /\ IF Chroma(w)
       THEN /\ work' = [work EXCEPT ![w].pc = "add", ![w].id = Len(issues) + 1]
            /\ UNCHANGED finished
       ELSE Ends(w) /\ finished' = finished \union {Len(issues) + 1}
    /\ UNCHANGED <<col, store, events>>

(* The entry's occurrences counted from zero. *)
AddM(w) ==
    /\ Doing(w, "add")
    /\ col' = Added([i \in {work[w].id} |-> [emb |-> work[w].vec, n |-> 0]])
    /\ finished' = finished \union {work[w].id}
    /\ Ends(w)
    /\ UNCHANGED <<issues, store, events>>
Add(w) ==
    /\ Doing(w, "add")
    /\ col' = Added([i \in {work[w].id} |-> [emb |-> work[w].vec, n |-> 1]])
    /\ finished' = finished \union {work[w].id}
    /\ Ends(w)
    /\ UNCHANGED <<issues, store, events>>

(* A call on the collection raises, and the capture's classification with it. *)
Raise(w) ==
    /\ Doing(w, "add") \/ (Doing(w, "search") /\ Chroma(w))
    /\ Ends(w)
    /\ UNCHANGED <<issues, col, store, finished, events>>

-----------------------------------------------------------------------------
Next ==
    \/ \E a \in Apps : OpenStore(a) \/ ListRows(a) \/ Fill(a) \/ FallBack(a) \/ Stop(a)
    \/ \E w \in Workers :
          \/ \E a \in Apps, r \in Rules, text \in Texts : Start(w, a, r, text)
          \/ Search(w) \/ Touch(w) \/ BumpGet(w) \/ BumpPut(w) \/ BumpFails(w)
          \/ Create(w) \/ Add(w) \/ Raise(w)

Spec == Init /\ [][Next]_vars

-----------------------------------------------------------------------------
(* Properties                                                                 *)

TypeOK ==
    /\ \A i \in Ids : /\ issues[i].vec \in Vector /\ issues[i].count \in Nat \ {0}
                      /\ issues[i].by \in {"sqlite", "chroma"} /\ issues[i].before \subseteq Ids
    /\ \A i \in DOMAIN col : col[i].emb \in Vector /\ col[i].n \in Nat \ {0}
    /\ \A a \in Apps : store[a].pc \in {"down", "list", "fill", "sqlite", "chroma"}
    /\ finished \subseteq Ids
    /\ events \in 0 .. MaxEvents

(* Every evaluation a capture makes is the one the engine's header promises.  *)
(* (core/rule_engine.py: evaluate_rule)                                        *)
EngineAgrees ==
    \A w \in Workers : work[w].pc # "idle" => Agrees(work[w].rule, work[w].text, work[w].eval)

(* The collection only mirrors the table: each of its ids is the id of a row, *)
(* with that row's vector, and it never counts more occurrences than the row, *)
(* whatever is lost, repeated or back-filled at the same time.                 *)
(* (chroma_issue_store.py: classify_event, _bump_occurrence, _backfill_if_empty) *)
IndexBehindRecord ==
    \A i \in DOMAIN col : /\ i \in Ids
                          /\ col[i].emb = issues[i].vec
                          /\ col[i].n <= issues[i].count

(* Of two issues near each other, neither was answered before the other's     *)
(* classification began: they overlapped, or one was cut off before it was     *)
(* answered.  The one other cause is a row that the SQLite store wrote, which  *)
(* Chroma was never given.  (classify_event of both stores)                    *)
DuplicateHasCause ==
    \A i, j \in Ids :
        /\ Near(issues[j].vec, issues[i].vec)
        /\ i \in issues[j].before
        => issues[i].by = "sqlite" /\ issues[j].by = "chroma"
=============================================================================
