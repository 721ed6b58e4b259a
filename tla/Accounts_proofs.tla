--------------------------- MODULE Accounts_proofs ---------------------------
(***************************************************************************)
(* Proofs about Accounts, for any handlers, desktops, names, passwords and *)
(* roles, any policy of self-registration and any number of requests.      *)
(***************************************************************************)
EXTENDS Accounts, TLAPS

\* The record of what an actor is doing, by the step it takes next: whose
\* request it is, on which account and with what in hand.
Whole(r) == r = [at |-> r.at, caller |-> r.caller, target |-> r.target, data |-> r.data]

Working == {"name", "rename", "role", "active", "password", "change", "delete", "toggle"}

Carries(r) ==
    /\ r.at \in {"sign_in", "registered", "insert"} => r.data \in Row
    /\ r.at \in {"sign_in", "registered"} \cup Working => r.target \in Ids
    /\ r.at \in {"audit"} \cup Working => r.caller \in Token
    /\ r.at = "login"  => r.data \in [name : Names, password : Passwords]
    /\ r.at = "rename" => r.data \in [name : Names, then : {"role", "audit"}]
    /\ r.at = "change" => r.data \in [verified : Passwords, password : Passwords]
    /\ r.at = "toggle" => r.data \in BOOLEAN
    /\ r.at = "name"   => r.data \in {"admin", "self"}

\* Only an admin's request inserts an admin or gets to the role, and a password
\* change is of the caller's own account.
MayDo(r) ==
    /\ r.at = "insert" /\ r.data.role = "admin" => r.caller # None /\ r.caller.role = "admin"
    /\ r.at = "name" /\ r.data = "admin" => r.caller.role = "admin"
    /\ r.at = "rename" /\ r.data.then = "role" => r.caller.role = "admin"
    /\ r.at \in {"role", "active", "password"} => r.caller.role = "admin"
    /\ r.at = "change" => r.caller.id = r.target

\* A desktop that changes a password is signed in.
Busy == \A d \in Desktops : act[d].at = "change" => desk[d] # None

AccountsInv ==
    /\ TypeOK
    /\ act = [a \in Actors |-> act[a]]
    /\ \A a \in Actors : Whole(act[a]) /\ Carries(act[a]) /\ MayDo(act[a])
    /\ Busy /\ NamesUnique /\ TrailKept

-----------------------------------------------------------------------------
(* What a step does, in the terms of the properties *)

Steps == {"idle", "login", "sign_in", "insert", "registered", "audit", "name", "rename",
          "role", "active", "password", "change", "delete", "toggle"}

Fits(r) ==
    /\ r.at \in Steps /\ r.caller \in Token \cup {None} /\ r.target \in Ids \cup {None}
    /\ Whole(r) /\ Carries(r) /\ MayDo(r)

ActInv == act = [a \in Actors |-> act[a]] /\ \A a \in Actors : Fits(act[a])

OtherTypes ==
    /\ tokens \subseteq Token
    /\ desk \in [Desktops -> Session \cup {None}]
    /\ requests \in 0 .. MaxRequests

\* One row at most changes: a row is made with a free name, updated or removed.
NewRowStep ==
    \E a \in Actors, i \in Ids :
        /\ act[a].at = "insert" /\ act'[a] # act[a]
        /\ users[i] = None /\ Holders(act[a].data.name) = {}
        /\ users' = [users EXCEPT ![i] = act[a].data]
UpdatedRow(i, row) ==
    /\ row \in Row
    /\ row.name = users[i].name \/ Holders(row.name) \ {i} = {}
    /\ row.role # users[i].role => AdminStep
    /\ row.password # users[i].password => OwnChange(i) \/ row.mustChange
    /\ users[i].deleted => row.deleted
UpdatedRowStep ==
    \E i \in Ids, row \in Row :
        Exists(i) /\ UpdatedRow(i, row) /\ users' = [users EXCEPT ![i] = row]
RemovedRowStep == \E i \in Ids : Removable(i) /\ users' = [users EXCEPT ![i] = Gone]
RowStep == UNCHANGED users \/ NewRowStep \/ UpdatedRowStep \/ RemovedRowStep

\* The trail grows by accounts that are there.
TrailStep ==
    \/ UNCHANGED referenced
    \/ UNCHANGED users /\ \E i \in Ids : Exists(i) /\ referenced' = referenced \cup {i}

\* What an actor takes up is a sign-in to a live account or a request for
\* somebody with a token or a session.
Claims(c) ==
    \/ c \in tokens
    \/ \E d \in Desktops : desk[d] # None /\ desk[d].id = c.id
MayTakeUp(a, r) ==
    /\ r.at = "sign_in" => Live(r.target)
    /\ r.caller # None => r.caller = act[a].caller \/ Claims(r.caller)
ClaimStep == \A a \in Actors : act'[a] = act[a] \/ MayTakeUp(a, act'[a])

\* Tokens and sessions are of accounts somebody could act for already.
HandsStep ==
    /\ \A t \in tokens' : Access(t.id)
    /\ \A d \in Desktops : desk'[d] # None => Access(desk'[d].id)

Good == /\ ActInv' /\ Busy' /\ OtherTypes'
        /\ RowStep /\ TrailStep /\ ClaimStep /\ HandsStep

\* Where no token and no session changes, none is new.
LEMMA HandsKept == ASSUME UNCHANGED <<tokens, desk>> PROVE HandsStep
BY DEF HandsStep, Access

LEMMA TypesOf ==
    ASSUME AccountsInv
    PROVE  /\ ActInv /\ Busy /\ OtherTypes /\ NamesUnique /\ TrailKept
           /\ users \in [Ids -> Row \cup {None, Gone}] /\ referenced \subseteq Ids
           /\ \A i \in Ids : Exists(i) => users[i] \in Row
BY DEF AccountsInv, TypeOK, ActInv, Fits, OtherTypes, Steps, Exists

LEMMA RowFields ==
    \A row \in Row : /\ row.name \in Names /\ row.password \in Passwords /\ row.role \in Roles
                     /\ row.active \in BOOLEAN /\ row.deleted \in BOOLEAN
                     /\ row.mustChange \in BOOLEAN
                     /\ row \notin {None, Gone}
BY NoneAssumption DEF Row

\* The properties of the rows hold as far as rows change in these ways.
LEMMA GoodKeeps ==
    ASSUME AccountsInv, Good
    PROVE  AccountsInv'
<1>1. /\ users \in [Ids -> Row \cup {None, Gone}] /\ referenced \subseteq Ids
      /\ ActInv /\ NamesUnique /\ TrailKept
      /\ \A i \in Ids : Exists(i) => users[i] \in Row
  BY TypesOf
<1>2. \A a \in Actors : act[a].at = "insert" => act[a].data \in Row
  BY <1>1 DEF ActInv, Fits, Carries
<1>3. users' \in [Ids -> Row \cup {None, Gone}] /\ referenced' \subseteq Ids
  BY <1>1, <1>2
  DEF Good, RowStep, NewRowStep, UpdatedRowStep, RemovedRowStep, TrailStep
<1>4. NamesUnique'
  <2>1. CASE UNCHANGED users
    BY <1>1, <2>1 DEF NamesUnique, Exists
  <2>2. CASE NewRowStep
    <3>1. PICK a \in Actors, i \in Ids :
             /\ act[a].at = "insert" /\ users[i] = None /\ Holders(act[a].data.name) = {}
             /\ users' = [users EXCEPT ![i] = act[a].data]
      BY <2>2 DEF NewRowStep
    <3>2. users'[i] = act[a].data /\ \A k \in Ids \ {i} : users'[k] = users[k]
      BY <1>1, <3>1
    <3>3. \A k \in Ids : Exists(k) => users[k].name # act[a].data.name
      BY <3>1 DEF Holders
    <3> QED
      BY <1>1, <3>2, <3>3 DEF NamesUnique, Exists
  <2>3. CASE UpdatedRowStep
    <3>1. PICK i \in Ids, row \in Row :
             Exists(i) /\ UpdatedRow(i, row) /\ users' = [users EXCEPT ![i] = row]
      BY <2>3 DEF UpdatedRowStep
    <3>2. users'[i] = row /\ \A k \in Ids \ {i} : users'[k] = users[k]
      BY <1>1, <3>1
    <3>3. \A k \in Ids \ {i} : Exists(k) => users[k].name # row.name
      BY <1>1, <3>1 DEF UpdatedRow, Holders, NamesUnique
    <3> QED
      BY <1>1, <3>2, <3>3 DEF NamesUnique, Exists
  <2>4. CASE RemovedRowStep
    BY <1>1, <2>4 DEF RemovedRowStep, NamesUnique, Exists
  <2> QED
    BY <2>1, <2>2, <2>3, <2>4 DEF Good, RowStep
<1>5. TrailKept'
  <2>1. CASE UNCHANGED users
    BY <1>1, <2>1 DEF Good, TrailStep, TrailKept, Exists
  <2>2. CASE ~UNCHANGED users
    <3>1. referenced' = referenced
      BY <2>2 DEF Good, TrailStep
    <3>2. \A i \in Ids : i \in referenced => users'[i] \notin {None, Gone}
      <4>1. CASE NewRowStep
        BY <1>1, <4>1 DEF NewRowStep, TrailKept, Exists
      <4>2. CASE UpdatedRowStep
        BY <1>1, <4>2, RowFields DEF UpdatedRowStep, TrailKept, Exists
      <4>3. CASE RemovedRowStep
        BY <1>1, <4>3 DEF RemovedRowStep, Removable, TrailKept, Exists
      <4> QED
        BY <2>2, <4>1, <4>2, <4>3 DEF Good, RowStep
    <3> QED
      BY <1>1, <3>1, <3>2 DEF TrailKept, Exists
  <2> QED
    BY <2>1, <2>2
<1>6. ActInv' /\ Busy' /\ OtherTypes'
  BY DEF Good
<1> QED
  BY <1>3, <1>4, <1>5, <1>6
  DEF AccountsInv, TypeOK, ActInv, Fits, OtherTypes, Steps

-----------------------------------------------------------------------------
(* What an actor does next *)

\* The actor that moves is at a step that fits, and the others stay.
LEMMA Moves ==
    ASSUME AccountsInv, NEW a \in Actors, NEW r, Fits(r),
           act' = [act EXCEPT ![a] = r],
           \A d \in Desktops : d # a => desk'[d] = desk[d],
           a \in Desktops /\ r.at = "change" => desk'[a] # None,
           MayTakeUp(a, r)
    PROVE  ActInv' /\ Busy' /\ ClaimStep /\ act'[a] = r
<1>1. act = [b \in Actors |-> act[b]] /\ (\A b \in Actors : Fits(act[b])) /\ Busy
  BY TypesOf DEF ActInv
<1>2. act'[a] = r /\ \A b \in Actors \ {a} : act'[b] = act[b]
  BY <1>1
<1>3. ActInv'
  <2>1. act' = [b \in Actors |-> act'[b]]
    BY <1>1
  <2>2. \A b \in Actors : Fits(act'[b])
    BY <1>1, <1>2
  <2> QED
    BY <2>1, <2>2 DEF ActInv
<1>4. Busy'
  BY <1>1, <1>2 DEF Busy, Actors
<1>5. ClaimStep
  BY <1>2 DEF ClaimStep
<1> QED
  BY <1>2, <1>3, <1>4, <1>5

LEMMA NobodyMoves ==
    ASSUME AccountsInv, UNCHANGED act,
           \A d \in Desktops : act[d].at = "change" => desk'[d] # None
    PROVE  ActInv' /\ Busy' /\ ClaimStep
<1>1. ActInv
  BY TypesOf
<1> QED
  BY <1>1 DEF ActInv, Busy, ClaimStep

LEMMA IdleFits == Fits(Idle)
BY DEF Fits, Idle, Steps, Whole, Carries, MayDo, Working

LEMMA DoneMoves ==
    ASSUME AccountsInv, NEW a \in Actors, Done(a),
           \A d \in Desktops : d # a => desk'[d] = desk[d]
    PROVE  ActInv' /\ Busy' /\ ClaimStep /\ act'[a].at = "idle"
<1>1. Idle.at = "idle" /\ MayTakeUp(a, Idle)
  BY DEF Idle, MayTakeUp
<1>2. act' = [act EXCEPT ![a] = Idle]
  BY DEF Done
<1> QED
  BY <1>1, <1>2, IdleFits, Moves

LEMMA Rewritten ==
    ASSUME NEW r, Whole(r), NEW at, NEW data
    PROVE  [r EXCEPT !.at = at, !.data = data] =
               [at |-> at, caller |-> r.caller, target |-> r.target, data |-> data]
<1> DEFINE q == [at |-> r.at, caller |-> r.caller, target |-> r.target, data |-> r.data]
           p == [at |-> at, caller |-> r.caller, target |-> r.target, data |-> r.data]
<1>1. r = q
  BY DEF Whole
<1>2. [q EXCEPT !.at = at] = p
  OBVIOUS
<1>3. [p EXCEPT !.data = data] =
          [at |-> at, caller |-> r.caller, target |-> r.target, data |-> data]
  OBVIOUS
<1> HIDE DEF p, q
<1> QED
  BY <1>1, <1>2, <1>3, Zenon

LEMMA Retargeted ==
    ASSUME NEW a \in Actors, NEW at, NEW target, act = [b \in Actors |-> act[b]],
           Whole(act[a]), act' = [act EXCEPT ![a].at = at, ![a].target = target]
    PROVE  act' = [act EXCEPT ![a] = [at |-> at, caller |-> act[a].caller,
                                      target |-> target, data |-> act[a].data]]
<1>1. PICK w : w = act[a]
  OBVIOUS
<1> DEFINE q == [at |-> w.at, caller |-> w.caller, target |-> w.target, data |-> w.data]
           p == [at |-> at, caller |-> w.caller, target |-> w.target, data |-> w.data]
           r == [at |-> at, caller |-> w.caller, target |-> target, data |-> w.data]
<1>2. act[a] = q
  BY <1>1 DEF Whole
<1>3. [q EXCEPT !.at = at] = p /\ [p EXCEPT !.target = target] = r
  OBVIOUS
<1> HIDE DEF p, q
<1>4. [act EXCEPT ![a].at = at] = [act EXCEPT ![a] = p]
  BY <1>2, <1>3
<1>5. [act EXCEPT ![a] = p][a] = p
  OBVIOUS
<1>6. act' = [[act EXCEPT ![a] = p] EXCEPT ![a].target = target]
  BY <1>4, Zenon
<1>7. act' = [[act EXCEPT ![a] = p] EXCEPT ![a] = [p EXCEPT !.target = target]]
  BY <1>5, <1>6
<1>8. act' = [act EXCEPT ![a] = r]
  BY <1>3, <1>7
<1> QED
  BY <1>1, <1>8

LEMMA GotoMoves ==
    ASSUME AccountsInv, NEW a \in Actors, NEW at \in Steps \ {"sign_in"}, NEW data,
           Goto(a, at, data),
           \A d \in Desktops : d # a => desk'[d] = desk[d],
           a \in Desktops /\ at = "change" => desk'[a] # None,
           LET r == [at |-> at, caller |-> act[a].caller, target |-> act[a].target,
                     data |-> data]
           IN  Carries(r) /\ MayDo(r)
    PROVE  ActInv' /\ Busy' /\ ClaimStep /\ act'[a].at = at
<1> DEFINE r == [at |-> at, caller |-> act[a].caller, target |-> act[a].target,
                 data |-> data]
<1>1. act = [b \in Actors |-> act[b]] /\ Fits(act[a])
  BY TypesOf DEF ActInv
<1>2. [act[a] EXCEPT !.at = at, !.data = data] = r
  BY <1>1, Rewritten DEF Fits
<1>3. act' = [act EXCEPT ![a] = r]
  BY <1>1, <1>2 DEF Goto
<1>4. Fits(r) /\ r.at = at /\ MayTakeUp(a, r)
  BY <1>1 DEF Fits, Whole, MayTakeUp
<1> HIDE DEF r
<1> QED
  BY <1>3, <1>4, Moves

LEMMA StartMoves ==
    ASSUME AccountsInv, NEW a \in Actors, NEW caller \in Token \cup {None},
           NEW at \in Steps, NEW target \in Ids \cup {None}, NEW data,
           Start(a, caller, at, target, data),
           UNCHANGED desk,
           a \in Desktops /\ at = "change" => desk[a] # None,
           at = "sign_in" => Live(target), caller # None => Claims(caller),
           LET r == [at |-> at, caller |-> caller, target |-> target, data |-> data]
           IN  Carries(r) /\ MayDo(r)
    PROVE  /\ ActInv' /\ Busy' /\ ClaimStep
           /\ act[a] = Idle /\ act'[a].at = at /\ requests' \in 0 .. MaxRequests
<1> DEFINE r == [at |-> at, caller |-> caller, target |-> target, data |-> data]
<1>1. act[a] = Idle /\ act' = [act EXCEPT ![a] = r]
  BY DEF Start
<1>2. Fits(r) /\ r.at = at /\ MayTakeUp(a, r)
  BY DEF Fits, Whole, MayTakeUp
<1>3. requests' \in 0 .. MaxRequests
  BY TypesOf, AccountsAssumption DEF OtherTypes, Start, Request
<1> HIDE DEF r
<1> QED
  BY <1>1, <1>2, <1>3, Moves

-----------------------------------------------------------------------------
(* Who calls *)

LEMMA Callers ==
    ASSUME AccountsInv
    PROVE  /\ \A c \in TokenCallers : c \in Token /\ Claims(c)
           /\ \A a \in Actors : \A c \in Admins(a) :
                  c \in Token /\ c.role = "admin" /\ Claims(c)
           /\ \A d \in Desktops : \A c \in Admins(d) :
                  c \in Token /\ c.role = "admin" /\ Claims(c)
<1>1. OtherTypes
  BY TypesOf
<1>2. \A c \in TokenCallers : c \in Token /\ Claims(c)
  BY <1>1 DEF OtherTypes, TokenCallers, Claims
<1>3. ASSUME NEW d \in Desktops PROVE \A c \in DeskCallers(d) : c \in Token /\ Claims(c)
  BY <1>1 DEF OtherTypes, DeskCallers, Session, Token, Claims
<1>4. \A a \in Actors : \A c \in Admins(a) :
          c \in Token /\ c.role = "admin" /\ Claims(c)
  BY <1>2, <1>3 DEF Admins, IsAdminClaim, Actors
<1> QED
  BY <1>2, <1>3, <1>4 DEF Actors

-----------------------------------------------------------------------------
(* Signing in *)

\* A step that leaves the table, the trail, the tokens and the desktops alone.
LEMMA Quiet ==
    ASSUME AccountsInv, ActInv', Busy', ClaimStep, requests' \in 0 .. MaxRequests,
           UNCHANGED <<users, referenced, tokens, desk>>
    PROVE  Good
<1>1. OtherTypes
  BY TypesOf
<1> QED
  BY <1>1, HandsKept DEF Good, OtherTypes, RowStep, TrailStep

LEMMA LoginGood == ASSUME AccountsInv, NEW a \in Actors, Login(a) PROVE Good
<1>1. PICK i \in Ids, password \in Passwords :
         Exists(i) /\ MaySignIn(i, password) /\ Start(a, None, "sign_in", i, users[i])
  BY DEF Login
<1>2. users[i] \in Row /\ Live(i)
  BY <1>1, TypesOf DEF MaySignIn, Live
<1>3. UNCHANGED <<users, referenced, tokens, desk>>
  BY DEF Login
<1>4. LET r == [at |-> "sign_in", caller |-> None, target |-> i, data |-> users[i]]
      IN  Carries(r) /\ MayDo(r)
  BY <1>2 DEF Carries, MayDo, Working
<1>5. ActInv' /\ Busy' /\ ClaimStep /\ requests' \in 0 .. MaxRequests
  BY <1>1, <1>2, <1>3, <1>4, StartMoves DEF Steps
<1> QED
  BY <1>3, <1>5, Quiet

\* The sign-in a registration ends with reads the row again.
LEMMA LoginRegisteredGood ==
    ASSUME AccountsInv, NEW h \in Handlers, LoginRegistered(h)
    PROVE  Good
<1>1. h \in Actors /\ UNCHANGED <<users, referenced, tokens, desk, requests>> /\ OtherTypes
  BY TypesOf DEF LoginRegistered, Actors
<1>2. CASE Done(h)
  BY <1>1, <1>2, DoneMoves, Quiet DEF OtherTypes
<1>3. ASSUME NEW i \in Ids, MaySignIn(i, act[h].data.password), Exists(i),
             act' = [act EXCEPT ![h] = [at |-> "sign_in", caller |-> None,
                                        target |-> i, data |-> users[i]]]
      PROVE  Good
  <2> DEFINE r == [at |-> "sign_in", caller |-> None, target |-> i, data |-> users[i]]
  <2>1. users[i] \in Row /\ Live(i)
    BY <1>3, TypesOf DEF MaySignIn, Live
  <2>2. Fits(r) /\ r.at = "sign_in" /\ MayTakeUp(h, r)
    BY <2>1 DEF Fits, Steps, Whole, Carries, MayDo, Working, MayTakeUp
  <2>3. act' = [act EXCEPT ![h] = r]
    BY <1>3
  <2> HIDE DEF r
  <2> QED
    BY <1>1, <2>1, <2>2, <2>3, Moves, Quiet DEF OtherTypes
<1>4. Done(h) \/ \E i \in Ids :
         /\ MaySignIn(i, act[h].data.password) /\ Exists(i)
         /\ act' = [act EXCEPT ![h] = [at |-> "sign_in", caller |-> None,
                                       target |-> i, data |-> users[i]]]
  <2>1. CASE \E i \in Holders(act[h].data.name) : MaySignIn(i, act[h].data.password)
    <3>1. \E i \in Holders(act[h].data.name) :
              act' = [act EXCEPT ![h] = [at |-> "sign_in", caller |-> None,
                                         target |-> i, data |-> users[i]]]
      BY <2>1 DEF LoginRegistered
    <3>2. \A i \in Holders(act[h].data.name), k \in Holders(act[h].data.name) : i = k
      BY TypesOf DEF Holders, NamesUnique
    <3> QED
      BY <2>1, <3>1, <3>2 DEF Holders
  <2>2. CASE ~\E i \in Holders(act[h].data.name) : MaySignIn(i, act[h].data.password)
    BY <2>2 DEF LoginRegistered
  <2> QED
    BY <2>1, <2>2
<1> QED
  BY <1>2, <1>3, <1>4

LEMMA SignInGood == ASSUME AccountsInv, NEW a \in Actors, SignIn(a) PROVE Good
<1> DEFINE i == act[a].target
           row == act[a].data
<1>1. act[a].at = "sign_in" /\ Done(a) /\ UNCHANGED <<users, requests>>
  BY DEF SignIn
<1>2. i \in Ids /\ row \in Row /\ OtherTypes
  BY <1>1, TypesOf DEF ActInv, Fits, Carries
<1>3. \/ /\ Exists(i) /\ referenced' = referenced \cup {i}
         /\ IF a \in Handlers THEN IssueToken(i, row) ELSE AfterLogin(a, i, row)
      \/ UNCHANGED <<referenced, tokens, desk>>
  BY DEF SignIn
<1>8. HandsStep
  <2>1. Access(i)
    BY <1>1 DEF Access
  <2>2. \A t \in tokens' : t \in tokens \/ t.id = i
    BY <1>3 DEF IssueToken, AfterLogin
  <2>3. \A d \in Desktops : desk'[d] = desk[d] \/ desk'[d].id = i
    BY <1>2, <1>3 DEF IssueToken, AfterLogin, OtherTypes
  <2> QED
    BY <2>1, <2>2, <2>3 DEF HandsStep, Access
<1> HIDE DEF i, row
<1>4. TrailStep
  BY <1>1, <1>2, <1>3 DEF TrailStep
<1>5. tokens' \subseteq Token
  BY <1>2, <1>3, RowFields DEF OtherTypes, IssueToken, AfterLogin, Token
<1>6. desk' \in [Desktops -> Session \cup {None}] /\ \A d \in Desktops : d # a => desk'[d] = desk[d]
  <2>1. CASE UNCHANGED desk
    BY <1>2, <2>1 DEF OtherTypes
  <2>2. CASE AfterLogin(a, i, row)
    <3> DEFINE s == [id |-> i, role |-> row.role,
                     screen |-> IF row.mustChange THEN "change" ELSE "main"]
    <3>1. s \in Session
      BY <1>2, RowFields DEF Session
    <3>2. desk' = [desk EXCEPT ![a] = s]
      BY <2>2 DEF AfterLogin
    <3> HIDE DEF s
    <3> QED
      BY <1>2, <3>1, <3>2 DEF OtherTypes
  <2> QED
    BY <1>3, <2>1, <2>2 DEF IssueToken
<1>7. ActInv' /\ Busy' /\ ClaimStep
  BY <1>1, <1>6, DoneMoves
<1> QED
  BY <1>1, <1>2, <1>4, <1>5, <1>6, <1>7, <1>8 DEF Good, OtherTypes, RowStep

LEMMA LeavesGood ==
    ASSUME AccountsInv, Expire \/ \E d \in Desktops : Logout(d)
    PROVE  Good
<1>1. OtherTypes /\ Busy
  BY TypesOf
<1>2. CASE Expire
  <2>1. UNCHANGED <<users, referenced, act, desk, requests>> /\ tokens' \subseteq tokens
    BY <1>2 DEF Expire
  <2>3. HandsStep
    BY <2>1 DEF HandsStep, Access
  <2>2. ActInv' /\ Busy' /\ ClaimStep
    BY <1>1, <2>1, NobodyMoves DEF Busy
  <2> QED
    BY <1>1, <2>1, <2>2, <2>3 DEF Good, OtherTypes, RowStep, TrailStep
<1>3. ASSUME NEW d \in Desktops, Logout(d) PROVE Good
  <2>1. /\ UNCHANGED <<users, referenced, tokens, act, requests>>
        /\ act[d].at = "idle" /\ desk' = [desk EXCEPT ![d] = None]
    BY <1>3 DEF Logout, Idle
  <2>2. ActInv' /\ Busy' /\ ClaimStep
    BY <1>1, <2>1, NobodyMoves DEF Busy, OtherTypes
  <2>3. HandsStep
    BY <1>1, <2>1 DEF HandsStep, Access, OtherTypes
  <2> QED
    BY <1>1, <2>1, <2>2, <2>3 DEF Good, OtherTypes, RowStep, TrailStep
<1> QED
  BY <1>2, <1>3

-----------------------------------------------------------------------------
(* New accounts *)

LEMMA NewRows ==
    \A name \in Names, password \in Passwords, role \in Roles, flag \in BOOLEAN :
        LET row == NewRow(name, password, role, flag)
        IN  row \in Row /\ row.role = role
BY DEF NewRow, Row

\* The configured role of a registration is never that of an administrator.
LEMMA RegisteredRole == SelfRegisterRole \in Roles \ {"admin"}
BY AccountsAssumption DEF SelfRegisterRole

LEMMA CreatesGood ==
    ASSUME AccountsInv, NEW a \in Actors, Create(a) \/ (a \in Handlers /\ Register(a))
    PROVE  Good
<1>1. PICK caller \in Token \cup {None}, name \in Names, password \in Passwords,
           role \in Roles, flag \in BOOLEAN :
         /\ Start(a, caller, "insert", None, NewRow(name, password, role, flag))
         /\ role = "admin" => caller # None /\ caller.role = "admin"
         /\ caller # None => Claims(caller)
  <2>1. CASE Create(a)
    <3>1. PICK c \in Admins(a), name \in Names, password \in Passwords, role \in Roles :
             Start(a, c, "insert", None, NewRow(name, password, role, TRUE))
      BY <2>1 DEF Create
    <3>2. c \in Token /\ c # None /\ c.role = "admin" /\ Claims(c)
      BY Callers, NoneAssumption
    <3> QED
      BY <3>1, <3>2
  <2>2. CASE a \in Handlers /\ Register(a)
    <3>1. PICK name \in Names, password \in Passwords :
             Start(a, None, "insert", None, NewRow(name, password, SelfRegisterRole, FALSE))
      BY <2>2 DEF Register
    <3> QED
      BY <3>1, RegisteredRole
  <2> QED
    BY <2>1, <2>2
<1> DEFINE row == NewRow(name, password, role, flag)
<1>2. row \in Row /\ row.role = role
  BY NewRows
<1>3. UNCHANGED <<users, referenced, tokens, desk>>
  BY DEF Create, Register
<1>4. Start(a, caller, "insert", None, row)
  BY <1>1
<1> HIDE DEF row
<1>5. LET r == [at |-> "insert", caller |-> caller, target |-> None, data |-> row]
      IN  Carries(r) /\ MayDo(r)
  BY <1>1, <1>2 DEF Carries, MayDo, Working
<1>6. ActInv' /\ Busy' /\ ClaimStep /\ requests' \in 0 .. MaxRequests
  BY <1>1, <1>3, <1>4, <1>5, StartMoves DEF Steps
<1> QED
  BY <1>3, <1>6, Quiet

LEMMA InsertGood == ASSUME AccountsInv, NEW a \in Actors, Insert(a) PROVE Good
<1>1. /\ act[a].at = "insert" /\ UNCHANGED <<referenced, tokens, desk, requests>>
      /\ act[a].data \in Row /\ Fits(act[a]) /\ act = [b \in Actors |-> act[b]]
      /\ OtherTypes /\ users \in [Ids -> Row \cup {None, Gone}]
  BY TypesOf DEF Insert, ActInv, Fits, Carries
<1>2. CASE Done(a) /\ UNCHANGED users
  BY <1>1, <1>2, DoneMoves, Quiet DEF OtherTypes
<1>3. ASSUME NEW i \in Ids, users[i] = None, Holders(act[a].data.name) = {},
             users' = [users EXCEPT ![i] = act[a].data],
             IF act[a].caller = None
             THEN act' = [act EXCEPT ![a].at = "registered", ![a].target = i]
             ELSE Goto(a, "audit", None)
      PROVE  Good
  <2>1. ActInv' /\ Busy' /\ ClaimStep /\ act'[a].at # "insert"
    <3>1. CASE act[a].caller # None
      <4>1. LET r == [at |-> "audit", caller |-> act[a].caller, target |-> act[a].target,
                      data |-> None]
            IN  Carries(r) /\ MayDo(r)
        BY <1>1, <3>1 DEF Fits, Carries, MayDo, Working
      <4> QED
        BY <1>1, <1>3, <3>1, <4>1, GotoMoves DEF Steps
    <3>2. CASE act[a].caller = None
      <4> DEFINE r == [at |-> "registered", caller |-> act[a].caller, target |-> i,
                       data |-> act[a].data]
      <4>1. act' = [act EXCEPT ![a] = r]
        BY <1>1, <1>3, <3>2, Retargeted DEF Fits
      <4>2. Fits(r) /\ r.at = "registered" /\ MayTakeUp(a, r)
        BY <1>1, <3>2 DEF Fits, Whole, Carries, MayDo, Working, Steps, MayTakeUp
      <4> HIDE DEF r
      <4> QED
        BY <1>1, <4>1, <4>2, Moves
    <3> QED
      BY <3>1, <3>2
  <2>2. NewRowStep
    BY <1>1, <1>3, <2>1 DEF NewRowStep
  <2> QED
    BY <1>1, <2>1, <2>2, HandsKept DEF Good, OtherTypes, RowStep, TrailStep
<1> QED
  BY <1>2, <1>3 DEF Insert, NameFree

LEMMA RegisteredGood ==
    ASSUME AccountsInv, NEW h \in Handlers, Registered(h)
    PROVE  Good
<1> DEFINE i == act[h].target
           data == [name |-> act[h].data.name, password |-> act[h].data.password]
           r == [at |-> "login", caller |-> None, target |-> None, data |-> data]
<1>1. /\ h \in Actors /\ UNCHANGED <<users, tokens, desk, requests>>
      /\ act[h].at = "registered" /\ OtherTypes
  BY TypesOf DEF Registered, Actors
<1>2. act[h].data \in Row /\ i \in Ids
  BY <1>1, TypesOf DEF ActInv, Fits, Carries
<1>3. data \in [name : Names, password : Passwords]
  BY <1>2, RowFields
<1>4. [Idle EXCEPT !.at = "login", !.data = data] = r
  BY Rewritten, IdleFits DEF Fits, Idle
<1>5. TrailStep
  BY <1>1, <1>2 DEF Registered, TrailStep
<1>6. CASE Done(h)
  BY <1>1, <1>5, <1>6, DoneMoves, HandsKept DEF Good, OtherTypes, RowStep
<1>7. CASE act' = [act EXCEPT ![h] = r]
  <2> HIDE DEF data
  <2>1. Fits(r) /\ r.at = "login" /\ MayTakeUp(h, r)
    BY <1>3 DEF Fits, Whole, Carries, MayDo, Working, Steps, MayTakeUp
  <2> HIDE DEF r
  <2>2. ActInv' /\ Busy' /\ ClaimStep
    BY <1>1, <1>7, <2>1, Moves
  <2> QED
    BY <1>1, <1>5, <2>2, HandsKept DEF Good, OtherTypes, RowStep
<1> QED
  BY <1>4, <1>6, <1>7 DEF Registered

LEMMA AuditGood == ASSUME AccountsInv, NEW a \in Actors, Audit(a) PROVE Good
<1>1. /\ act[a].at = "audit" /\ Done(a) /\ UNCHANGED <<users, tokens, desk, requests>>
      /\ OtherTypes
  BY TypesOf DEF Audit
<1>2. act[a].caller \in Token
  BY <1>1, TypesOf DEF ActInv, Fits, Carries
<1>3. act[a].caller.id \in Ids
  BY <1>2 DEF Token
<1>4. TrailStep
  BY <1>1, <1>3 DEF Audit, TrailStep
<1>5. ActInv' /\ Busy' /\ ClaimStep
  BY <1>1, DoneMoves
<1> QED
  BY <1>1, <1>4, <1>5, HandsKept DEF Good, OtherTypes, RowStep

-----------------------------------------------------------------------------
(* Updates *)

\* An UPDATE of an account that is gone changes nothing.
LEMMA Updates ==
    ASSUME NEW i \in Ids, NEW row, Update(i, row), Exists(i) => UpdatedRow(i, row)
    PROVE  RowStep
BY DEF Update, RowStep, UpdatedRowStep, UpdatedRow

\* The fields an UPDATE does not name stay.
LEMMA FieldsSet ==
    ASSUME NEW row \in Row
    PROVE  /\ \A name \in Names : LET new == [row EXCEPT !.name = name]
                                  IN  /\ new \in Row /\ new.name = name
                                      /\ new.role = row.role /\ new.password = row.password
                                      /\ (row.deleted => new.deleted)
           /\ \A role \in Roles : LET new == [row EXCEPT !.role = role]
                                  IN  /\ new \in Row /\ new.name = row.name
                                      /\ new.role = role /\ new.password = row.password
                                      /\ (row.deleted => new.deleted)
           /\ \A active \in BOOLEAN : LET new == [row EXCEPT !.active = active]
                                      IN  /\ new \in Row /\ new.name = row.name
                                          /\ new.role = row.role
                                          /\ new.password = row.password
                                          /\ (row.deleted => new.deleted)
BY DEF Row

LEMMA PasswordSet ==
    ASSUME NEW row \in Row, NEW password \in Passwords, NEW flag \in BOOLEAN
    PROVE  LET new == [row EXCEPT !.password = password, !.mustChange = flag]
           IN  /\ new \in Row /\ new.name = row.name /\ new.role = row.role
               /\ new.mustChange = flag /\ (row.deleted => new.deleted)
<1> DEFINE mid == [row EXCEPT !.password = password]
<1>1. /\ mid \in Row /\ mid.name = row.name /\ mid.role = row.role
      /\ (row.deleted => mid.deleted)
  BY DEF Row
<1> HIDE DEF mid
<1>2. LET new == [mid EXCEPT !.mustChange = flag]
      IN  /\ new \in Row /\ new.name = row.name /\ new.role = row.role
          /\ new.mustChange = flag /\ (row.deleted => new.deleted)
  BY <1>1 DEF Row
<1> QED
  BY <1>2 DEF mid

\* The steps of PUT /api/admin/users/{id} are those of an admin's request.
LEMMA AdminSteps ==
    ASSUME NEW h \in Handlers, act[h].caller # None, act[h].caller.role = "admin",
           act'[h].at # act[h].at
    PROVE  AdminStep
BY DEF AdminStep, Actors

LEMMA BeginsGood ==
    ASSUME AccountsInv, NEW h \in Handlers, BeginUpdate(h) \/ BeginProfile(h)
    PROVE  Good
<1>1. h \in Actors /\ UNCHANGED <<users, referenced, tokens, desk>>
  BY DEF BeginUpdate, BeginProfile, Actors
<1>2. PICK c \in Token, i \in Ids, data \in {"admin", "self"} :
         /\ Start(h, c, "name", i, data) /\ Claims(c)
         /\ data = "admin" => c.role = "admin"
  <2>1. CASE BeginUpdate(h)
    <3>1. PICK c \in Admins(h), i \in Ids : Start(h, c, "name", i, "admin")
      BY <2>1 DEF BeginUpdate
    <3>2. c \in Token /\ c.role = "admin" /\ Claims(c)
      BY <1>1, Callers
    <3> QED
      BY <3>1, <3>2
  <2>2. CASE BeginProfile(h)
    <3>1. PICK c \in TokenCallers : Start(h, c, "name", c.id, "self")
      BY <2>2 DEF BeginProfile
    <3>2. c \in Token /\ c.id \in Ids /\ Claims(c)
      BY Callers DEF Token
    <3> QED
      BY <3>1, <3>2
  <2> QED
    BY <2>1, <2>2
<1>3. LET r == [at |-> "name", caller |-> c, target |-> i, data |-> data]
      IN  Carries(r) /\ MayDo(r)
  BY <1>2 DEF Carries, MayDo, Working
<1>4. ActInv' /\ Busy' /\ ClaimStep /\ requests' \in 0 .. MaxRequests
  BY <1>1, <1>2, <1>3, StartMoves DEF Steps
<1> QED
  BY <1>1, <1>4, Quiet

LEMMA CheckNameGood ==
    ASSUME AccountsInv, NEW h \in Handlers, CheckName(h)
    PROVE  Good
<1>1. /\ h \in Actors /\ UNCHANGED <<users, referenced, tokens, desk, requests>>
      /\ act[h].at = "name" /\ Fits(act[h]) /\ OtherTypes
  BY TypesOf DEF CheckName, Actors, ActInv
<1>2. AfterName(h) \in {"role", "audit"} /\ (AfterName(h) = "role" => act[h].data = "admin")
  BY DEF AfterName
<1>3. CASE Done(h)
  BY <1>1, <1>3, DoneMoves, Quiet DEF OtherTypes
<1>4. CASE Goto(h, AfterName(h), None)
  <2>1. LET r == [at |-> AfterName(h), caller |-> act[h].caller, target |-> act[h].target,
                  data |-> None]
        IN  Carries(r) /\ MayDo(r)
    BY <1>1, <1>2 DEF Fits, Carries, MayDo, Working
  <2> QED
    BY <1>1, <1>2, <1>4, <2>1, GotoMoves, Quiet DEF OtherTypes, Steps
<1>5. ASSUME NEW name \in Names, Goto(h, "rename", [name |-> name, then |-> AfterName(h)])
      PROVE  Good
  <2> DEFINE data == [name |-> name, then |-> AfterName(h)]
  <2>1. data \in [name : Names, then : {"role", "audit"}] /\ data.then = AfterName(h)
    BY <1>2
  <2>2. Goto(h, "rename", data)
    BY <1>5
  <2> HIDE DEF data
  <2>3. LET r == [at |-> "rename", caller |-> act[h].caller, target |-> act[h].target,
                  data |-> data]
        IN  Carries(r) /\ MayDo(r)
    BY <1>1, <1>2, <2>1 DEF Fits, Carries, MayDo, Working
  <2> QED
    BY <1>1, <2>2, <2>3, GotoMoves, Quiet DEF OtherTypes, Steps
<1> QED
  BY <1>3, <1>4, <1>5 DEF CheckName

LEMMA RenameGood ==
    ASSUME AccountsInv, NEW h \in Handlers, Rename(h)
    PROVE  Good
<1> DEFINE i == act[h].target
           name == act[h].data.name
           then == act[h].data.then
<1>1. /\ h \in Actors /\ UNCHANGED <<referenced, tokens, desk, requests>>
      /\ act[h].at = "rename" /\ Fits(act[h]) /\ OtherTypes
  BY TypesOf DEF Rename, Actors, ActInv
<1>2. /\ i \in Ids /\ name \in Names /\ then \in {"role", "audit"}
      /\ then = "role" => act[h].caller.role = "admin"
  BY <1>1 DEF Fits, Carries, MayDo, Working
<1>3. CASE Done(h) /\ UNCHANGED users
  BY <1>1, <1>3, DoneMoves, Quiet DEF OtherTypes
<1>4. CASE /\ ~(Exists(i) /\ Holders(name) \ {i} # {})
           /\ Update(i, [users[i] EXCEPT !.name = name]) /\ Goto(h, then, None)
  <2>1. LET r == [at |-> then, caller |-> act[h].caller, target |-> i, data |-> None]
        IN  Carries(r) /\ MayDo(r)
    BY <1>1, <1>2 DEF Fits, Carries, MayDo, Working
  <2>2. ActInv' /\ Busy' /\ ClaimStep
    BY <1>1, <1>2, <1>4, <2>1, GotoMoves DEF Steps
  <2>3. Exists(i) => UpdatedRow(i, [users[i] EXCEPT !.name = name])
    BY <1>2, <1>4, TypesOf, FieldsSet DEF UpdatedRow
  <2>4. RowStep
    BY <1>2, <1>4, <2>3, Updates
  <2> QED
    BY <1>1, <2>2, <2>4, HandsKept DEF Good, OtherTypes, TrailStep
<1> QED
  BY <1>3, <1>4 DEF Rename

\* The role, the flag and the password of PUT /api/admin/users/{id}.
LEMMA FieldGood ==
    ASSUME AccountsInv, NEW h \in Handlers, SetRole(h) \/ SetActive(h) \/ ResetPassword(h)
    PROVE  Good
<1> DEFINE i == act[h].target
<1>1. /\ h \in Actors /\ UNCHANGED <<referenced, tokens, desk, requests>>
      /\ act[h].at \in {"role", "active", "password"} /\ Fits(act[h]) /\ OtherTypes
  BY TypesOf DEF SetRole, SetActive, ResetPassword, Actors, ActInv
<1>2. /\ i \in Ids /\ act[h].caller \in Token /\ act[h].caller.role = "admin"
      /\ act[h].caller # None
  BY <1>1, NoneAssumption DEF Fits, Carries, MayDo, Working
<1>3. CASE Done(h) /\ UNCHANGED users
  BY <1>1, <1>3, DoneMoves, Quiet DEF OtherTypes
<1>4. ASSUME NEW at \in {"active", "password", "audit"}, at # act[h].at, Goto(h, at, None)
      PROVE  ActInv' /\ Busy' /\ ClaimStep /\ AdminStep
  <2>1. LET r == [at |-> at, caller |-> act[h].caller, target |-> i, data |-> None]
        IN  Carries(r) /\ MayDo(r)
    BY <1>1, <1>2 DEF Carries, MayDo, Working
  <2>2. ActInv' /\ Busy' /\ ClaimStep /\ act'[h].at = at
    BY <1>1, <1>4, <2>1, GotoMoves DEF Steps
  <2> QED
    BY <1>2, <1>4, <2>2, AdminSteps
<1>5. CASE ~(Done(h) /\ UNCHANGED users)
  <2>1. PICK at \in {"active", "password", "audit"} : at # act[h].at /\ Goto(h, at, None)
    BY <1>5 DEF SetRole, SetActive, ResetPassword
  <2>2. ActInv' /\ Busy' /\ ClaimStep /\ AdminStep
    BY <1>4, <2>1
  <2>3. RowStep
    <3>1. CASE UNCHANGED users
      BY <3>1 DEF RowStep
    <3>2. ASSUME NEW role \in Roles, Update(i, [users[i] EXCEPT !.role = role])
          PROVE  RowStep
      <4>1. Exists(i) => UpdatedRow(i, [users[i] EXCEPT !.role = role])
        BY <1>2, <2>2, TypesOf, FieldsSet DEF UpdatedRow
      <4> QED
        BY <1>2, <3>2, <4>1, Updates
    <3>3. ASSUME NEW active \in BOOLEAN, Update(i, ActivatedRow(users[i], active))
          PROVE  RowStep
      <4>1. Exists(i) => UpdatedRow(i, ActivatedRow(users[i], active))
        BY <1>2, TypesOf, FieldsSet DEF UpdatedRow, ActivatedRow
      <4> QED
        BY <1>2, <3>3, <4>1, Updates
    <3>4. ASSUME NEW password \in Passwords, Update(i, ResetRow(users[i], password))
          PROVE  RowStep
      <4>1. Exists(i) => UpdatedRow(i, ResetRow(users[i], password))
        BY <1>2, TypesOf, PasswordSet DEF UpdatedRow, ResetRow
      <4> QED
        BY <1>2, <3>4, <4>1, Updates
    <3> QED
      BY <1>5, <3>1, <3>2, <3>3, <3>4 DEF SetRole, SetActive, ResetPassword
  <2> QED
    BY <1>1, <2>2, <2>3, HandsKept DEF Good, OtherTypes, TrailStep
<1> QED
  BY <1>3, <1>5

-----------------------------------------------------------------------------
(* Passwords *)

LEMMA VerifyGood ==
    ASSUME AccountsInv, NEW a \in Actors, NEW c \in Token, Verify(a, c),
           UNCHANGED <<users, referenced, tokens, desk>>,
           a \in Desktops => desk[a] # None, Claims(c)
    PROVE  Good
<1>1. PICK password \in Passwords :
         /\ Exists(c.id)
         /\ Start(a, c, "change", c.id,
                  [verified |-> users[c.id].password, password |-> password])
  BY DEF Verify
<1> DEFINE data == [verified |-> users[c.id].password, password |-> password]
<1>2. c.id \in Ids
  BY DEF Token
<1>3. data \in [verified : Passwords, password : Passwords]
  BY <1>1, <1>2, TypesOf, RowFields
<1>4. Start(a, c, "change", c.id, data)
  BY <1>1
<1> HIDE DEF data
<1>5. LET r == [at |-> "change", caller |-> c, target |-> c.id, data |-> data]
      IN  Carries(r) /\ MayDo(r)
  BY <1>2, <1>3 DEF Carries, MayDo, Working
<1>6. ActInv' /\ Busy' /\ ClaimStep /\ requests' \in 0 .. MaxRequests
  BY <1>2, <1>4, <1>5, StartMoves DEF Steps
<1> QED
  BY <1>6, Quiet

LEMMA VerifiesGood ==
    ASSUME AccountsInv, \/ \E h \in Handlers : ChangeMine(h)
                        \/ \E d \in Desktops : ForcedChange(d)
    PROVE  Good
<1>1. ASSUME NEW h \in Handlers, ChangeMine(h) PROVE Good
  <2>1. h \in Actors /\ h \notin Desktops
    BY AccountsAssumption DEF Actors
  <2> QED
    BY <1>1, <2>1, Callers, VerifyGood DEF ChangeMine
<1>2. ASSUME NEW d \in Desktops, ForcedChange(d) PROVE Good
  <2> DEFINE c == [id |-> desk[d].id, role |-> desk[d].role]
  <2>1. /\ d \in Actors /\ desk[d] # None /\ Verify(d, c)
        /\ UNCHANGED <<users, referenced, tokens, desk>>
    BY <1>2 DEF ForcedChange, Actors
  <2>2. c \in Token /\ Claims(c)
    BY <2>1, TypesOf DEF OtherTypes, Session, Token, Claims
  <2> HIDE DEF c
  <2> QED
    BY <2>1, <2>2, VerifyGood
<1> QED
  BY <1>1, <1>2

LEMMA ChangePasswordGood ==
    ASSUME AccountsInv, NEW a \in Actors, ChangePassword(a)
    PROVE  Good
<1> DEFINE i == act[a].target
           password == act[a].data.password
<1>1. /\ act[a].at = "change" /\ Update(i, ChangedRow(users[i], password))
      /\ Goto(a, "audit", None)
      /\ desk' = IF a \in Desktops THEN [desk EXCEPT ![a].screen = "main"] ELSE desk
      /\ UNCHANGED <<referenced, tokens, requests>>
      /\ Fits(act[a]) /\ OtherTypes /\ Busy
  BY TypesOf DEF ChangePassword, ActInv
<1>2. i \in Ids /\ password \in Passwords /\ act[a].caller.id = i
  BY <1>1 DEF Fits, Carries, MayDo, Working
<1>3. LET r == [at |-> "audit", caller |-> act[a].caller, target |-> i, data |-> None]
      IN  Carries(r) /\ MayDo(r)
  BY <1>1 DEF Fits, Carries, MayDo, Working
<1>4. /\ desk' \in [Desktops -> Session \cup {None}]
      /\ \A d \in Desktops : d # a => desk'[d] = desk[d]
      /\ HandsStep
  <2>1. CASE a \in Desktops
    <3>1. desk[a] \in Session /\ desk[a] # None
      BY <1>1, <2>1 DEF Busy, OtherTypes
    <3> DEFINE s == [desk[a] EXCEPT !.screen = "main"]
    <3>2. s \in Session /\ s.id = desk[a].id
      BY <3>1 DEF Session
    <3>3. desk' = [desk EXCEPT ![a] = s]
      BY <1>1, <2>1
    <3> HIDE DEF s
    <3>4. HandsStep
      BY <1>1, <2>1, <3>1, <3>2, <3>3 DEF HandsStep, Access, OtherTypes
    <3> QED
      BY <1>1, <2>1, <3>2, <3>3, <3>4 DEF OtherTypes
  <2>2. CASE a \notin Desktops
    BY <1>1, <2>2, HandsKept DEF OtherTypes
  <2> QED
    BY <2>1, <2>2
<1>5. ActInv' /\ Busy' /\ ClaimStep /\ act'[a].at = "audit"
  BY <1>1, <1>3, <1>4, GotoMoves DEF Steps
<1>6. OwnChange(i)
  BY <1>1, <1>2, <1>5 DEF OwnChange
<1>7. Exists(i) => UpdatedRow(i, ChangedRow(users[i], password))
  BY <1>2, <1>6, TypesOf, PasswordSet DEF UpdatedRow, ChangedRow
<1>8. RowStep
  BY <1>1, <1>2, <1>7, Updates
<1> QED
  BY <1>1, <1>4, <1>5, <1>8 DEF Good, OtherTypes, TrailStep

-----------------------------------------------------------------------------
(* Deletions and the desktop's user tab *)

\* A request of an admin that only starts.
LEMMA StartGood ==
    ASSUME AccountsInv, NEW a \in Actors, NEW c \in Token,
           NEW at \in {"audit", "delete", "toggle"}, NEW target \in Ids \cup {None},
           NEW data, Start(a, c, at, target, data),
           at # "audit" => target \in Ids, at = "toggle" => data \in BOOLEAN,
           UNCHANGED <<referenced, tokens, desk>>, RowStep, Claims(c)
    PROVE  Good
<1>1. LET r == [at |-> at, caller |-> c, target |-> target, data |-> data]
      IN  Carries(r) /\ MayDo(r)
  BY DEF Carries, MayDo, Working
<1>2. ActInv' /\ Busy' /\ ClaimStep /\ requests' \in 0 .. MaxRequests
  BY <1>1, StartMoves DEF Steps
<1>3. OtherTypes
  BY TypesOf
<1> QED
  BY <1>2, <1>3, HandsKept DEF Good, OtherTypes, TrailStep

LEMMA DeletesGood ==
    ASSUME AccountsInv, NEW a \in Actors,
           ToolDelete(a) \/ (a \in Handlers /\ AdminDelete(a))
    PROVE  Good
<1>1. UNCHANGED <<users, referenced, tokens, desk>>
  BY DEF ToolDelete, AdminDelete
<1>2. PICK c \in Token, i \in Ids : Start(a, c, "delete", i, None) /\ Claims(c)
  BY Callers DEF ToolDelete, AdminDelete
<1> QED
  BY <1>1, <1>2, StartGood DEF RowStep

LEMMA SoftDeleteGood ==
    ASSUME AccountsInv, NEW a \in Actors, SoftDelete(a)
    PROVE  Good
<1> DEFINE i == act[a].target
<1>1. /\ act[a].at = "delete" /\ Goto(a, "audit", None)
      /\ UNCHANGED <<referenced, tokens, desk, requests>>
      /\ Fits(act[a]) /\ OtherTypes
  BY TypesOf DEF SoftDelete, ActInv
<1>2. i \in Ids
  BY <1>1 DEF Fits, Carries, Working
<1>3. LET r == [at |-> "audit", caller |-> act[a].caller, target |-> i, data |-> None]
      IN  Carries(r) /\ MayDo(r)
  BY <1>1 DEF Fits, Carries, MayDo, Working
<1>4. ActInv' /\ Busy' /\ ClaimStep
  BY <1>1, <1>3, GotoMoves DEF Steps
<1>5. RowStep
  <2>1. CASE UNCHANGED users
    BY <2>1 DEF RowStep
  <2>2. CASE Live(i) /\ users' = [users EXCEPT ![i].deleted = TRUE, ![i].active = FALSE]
    <3> DEFINE mid == [users[i] EXCEPT !.deleted = TRUE]
               row == [mid EXCEPT !.active = FALSE]
    <3>1. /\ users[i] \in Row /\ Exists(i)
          /\ users \in [Ids -> Row \cup {None, Gone}]
      BY <1>2, <2>2, TypesOf DEF Live
    <3>2. mid \in Row /\ mid.name = users[i].name /\ mid.role = users[i].role
          /\ mid.password = users[i].password /\ mid.deleted = TRUE
      BY <3>1 DEF Row
    <3>3. [users EXCEPT ![i].deleted = TRUE] = [users EXCEPT ![i] = mid]
      BY <1>2, <3>1
    <3> HIDE DEF mid
    <3>4. row \in Row /\ row.name = mid.name /\ row.role = mid.role
          /\ row.password = mid.password /\ row.deleted = mid.deleted
      BY <3>2 DEF Row
    <3>5. [[users EXCEPT ![i] = mid] EXCEPT ![i].active = FALSE] = [users EXCEPT ![i] = row]
      BY <1>2, <3>1
    <3> HIDE DEF row
    <3>6. users' = [users EXCEPT ![i] = row]
      BY <2>2, <3>3, <3>5, Zenon
    <3>7. UpdatedRow(i, row)
      BY <3>2, <3>4 DEF UpdatedRow
    <3> QED
      BY <1>2, <3>1, <3>4, <3>6, <3>7 DEF RowStep, UpdatedRowStep
  <2> QED
    BY <2>1, <2>2 DEF SoftDelete
<1> QED
  BY <1>1, <1>4, <1>5, HandsKept DEF Good, OtherTypes, TrailStep

LEMMA TabGood ==
    ASSUME AccountsInv, NEW d \in Desktops,
           \/ TabChangeRole(d) \/ TabReset(d) \/ TabToggle(d) \/ Toggle(d) \/ TabDelete(d)
    PROVE  Good
<1>1. d \in Actors /\ OtherTypes /\ Busy
  BY TypesOf DEF Actors
<1>2. CASE TabChangeRole(d)
  <2>1. /\ act[d] = Idle /\ Admins(d) # {} /\ Request
        /\ UNCHANGED <<referenced, tokens, act, desk>>
    BY <1>2 DEF TabChangeRole
  <2>2. PICK i \in Ids, role \in Roles : Exists(i) /\ Update(i, [users[i] EXCEPT !.role = role])
    BY <1>2 DEF TabChangeRole
  <2>3. AdminStep
    BY <1>1, <2>1 DEF AdminStep
  <2>4. UpdatedRow(i, [users[i] EXCEPT !.role = role])
    BY <2>2, <2>3, TypesOf, FieldsSet DEF UpdatedRow
  <2>5. RowStep
    BY <2>2, <2>4, Updates
  <2>6. ActInv' /\ Busy' /\ ClaimStep
    BY <1>1, <2>1, NobodyMoves DEF Busy
  <2>7. requests' \in 0 .. MaxRequests
    BY <1>1, <2>1, AccountsAssumption DEF Request, OtherTypes
  <2> QED
    BY <1>1, <2>1, <2>5, <2>6, <2>7, HandsKept DEF Good, OtherTypes, TrailStep
<1>3. CASE TabReset(d)
  <2>1. PICK c \in Token, i \in Ids, password \in Passwords :
           /\ Exists(i) /\ Update(i, ResetRow(users[i], password))
           /\ Start(d, c, "audit", None, None) /\ Claims(c)
    BY <1>1, <1>3, Callers DEF TabReset
  <2>2. UpdatedRow(i, ResetRow(users[i], password))
    BY <2>1, TypesOf, PasswordSet DEF UpdatedRow, ResetRow
  <2>3. RowStep
    BY <2>1, <2>2, Updates
  <2> QED
    BY <1>1, <1>3, <2>1, <2>3, StartGood DEF TabReset
<1>4. CASE TabToggle(d)
  <2>1. PICK c \in Token, i \in Ids :
           Exists(i) /\ Start(d, c, "toggle", i, ~users[i].active) /\ Claims(c)
    BY <1>1, <1>4, Callers DEF TabToggle
  <2>2. (~users[i].active) \in BOOLEAN
    OBVIOUS
  <2> QED
    BY <1>1, <1>4, <2>1, <2>2, StartGood DEF TabToggle, RowStep
<1>5. CASE Toggle(d)
  <2> DEFINE i == act[d].target
             active == act[d].data
  <2>1. /\ act[d].at = "toggle" /\ Update(i, ActivatedRow(users[i], active)) /\ Done(d)
        /\ UNCHANGED <<referenced, tokens, desk, requests>>
    BY <1>5 DEF Toggle
  <2>2. i \in Ids /\ active \in BOOLEAN
    BY <1>1, <2>1, TypesOf DEF ActInv, Fits, Carries, Working
  <2>3. Exists(i) => UpdatedRow(i, ActivatedRow(users[i], active))
    BY <2>2, TypesOf, FieldsSet DEF UpdatedRow, ActivatedRow
  <2>4. RowStep
    BY <2>1, <2>2, <2>3, Updates
  <2>5. ActInv' /\ Busy' /\ ClaimStep
    BY <1>1, <2>1, DoneMoves
  <2> QED
    BY <1>1, <2>1, <2>4, <2>5, HandsKept DEF Good, OtherTypes, TrailStep
<1>6. CASE TabDelete(d)
  <2>1. /\ RemovedRowStep /\ Request /\ UNCHANGED <<referenced, tokens, act, desk>>
    BY <1>6 DEF TabDelete, RemovedRowStep
  <2>2. ActInv' /\ Busy' /\ ClaimStep
    BY <1>1, <2>1, NobodyMoves DEF Busy
  <2>3. requests' \in 0 .. MaxRequests
    BY <1>1, <2>1, AccountsAssumption DEF Request, OtherTypes
  <2> QED
    BY <1>1, <2>1, <2>2, <2>3, HandsKept DEF Good, OtherTypes, RowStep, TrailStep
<1> QED
  BY <1>2, <1>3, <1>4, <1>5, <1>6

-----------------------------------------------------------------------------
(* The specification *)

LEMMA NextGood == ASSUME AccountsInv, Next PROVE Good
<1>1. CASE Expire
  BY <1>1, LeavesGood
<1>2. ASSUME NEW a \in Actors,
             \/ Login(a) \/ SignIn(a) \/ ToolCreate(a) \/ Insert(a) \/ Audit(a)
             \/ ChangePassword(a) \/ ToolDelete(a) \/ SoftDelete(a)
      PROVE  Good
  BY <1>2, LoginGood, SignInGood, CreatesGood, InsertGood, AuditGood, ChangePasswordGood,
     DeletesGood, SoftDeleteGood DEF ToolCreate
<1>3. ASSUME NEW h \in Handlers,
             \/ Register(h) \/ Registered(h) \/ LoginRegistered(h)
             \/ AdminCreate(h) \/ AdminDelete(h) \/ ChangeMine(h)
             \/ BeginUpdate(h) \/ BeginProfile(h) \/ CheckName(h) \/ Rename(h)
             \/ SetRole(h) \/ SetActive(h) \/ ResetPassword(h)
      PROVE  Good
  <2>1. h \in Actors
    BY DEF Actors
  <2> QED
    BY <1>3, <2>1, CreatesGood, RegisteredGood, LoginRegisteredGood, DeletesGood,
       VerifiesGood, BeginsGood, CheckNameGood, RenameGood, FieldGood DEF AdminCreate
<1>4. ASSUME NEW d \in Desktops,
             \/ Logout(d) \/ ForcedChange(d) \/ TabAdd(d)
             \/ TabChangeRole(d) \/ TabReset(d) \/ TabToggle(d) \/ Toggle(d) \/ TabDelete(d)
      PROVE  Good
  <2>1. d \in Actors
    BY DEF Actors
  <2> QED
    BY <1>4, <2>1, LeavesGood, VerifiesGood, CreatesGood, TabGood DEF TabAdd
<1> QED
  BY <1>1, <1>2, <1>3, <1>4 DEF Next

LEMMA InitInv == Init => AccountsInv
<1> SUFFICES ASSUME Init PROVE AccountsInv
  OBVIOUS
<1> USE DEF Init
<1> DEFINE row == NewRow(Name0, Password0, "admin", TRUE)
<1>1. row \in Row
  BY NewRows, AccountsAssumption
<1>2. \A i \in Ids : users[i] = IF i = Admin0 THEN row ELSE None
  OBVIOUS
<1> HIDE DEF row
<1>3. users \in [Ids -> Row \cup {None, Gone}] /\ referenced \subseteq Ids
  BY <1>1, <1>2, AccountsAssumption
<1>4. OtherTypes
  BY AccountsAssumption DEF OtherTypes
<1>5. ActInv /\ Busy
  BY IdleFits DEF ActInv, Busy, Idle, Actors
<1>6. NamesUnique
  BY <1>2 DEF NamesUnique, Exists
<1>7. TrailKept
  <2>1. Admin0 \in Ids
    BY AccountsAssumption
  <2>2. users[Admin0] = row
    BY <1>2, <2>1
  <2>3. Exists(Admin0)
    BY <1>1, <2>2, RowFields DEF Exists
  <2> QED
    BY <2>3 DEF TrailKept
<1> QED
  BY <1>3, <1>4, <1>5, <1>6, <1>7
  DEF AccountsInv, TypeOK, ActInv, Fits, OtherTypes, Steps

LEMMA StutterKeeps == ASSUME AccountsInv, UNCHANGED vars PROVE AccountsInv'
<1> USE DEF vars
<1>1. users' \in [Ids -> Row \cup {None, Gone}] /\ referenced' \subseteq Ids
  BY TypesOf
<1>2. ActInv' /\ Busy' /\ OtherTypes'
  BY TypesOf DEF ActInv, Busy, OtherTypes
<1>3. NamesUnique' /\ TrailKept'
  BY TypesOf DEF NamesUnique, TrailKept, Exists
<1> QED
  BY <1>1, <1>2, <1>3 DEF AccountsInv, TypeOK, ActInv, Fits, OtherTypes, Steps

LEMMA Invariant == Spec => []AccountsInv
<1>1. AccountsInv /\ [Next]_vars => AccountsInv'
  BY NextGood, GoodKeeps, StutterKeeps
<1> QED
  BY <1>1, InitInv, PTL DEF Spec

-----------------------------------------------------------------------------
(* The properties *)

\* Every variable, and what every actor is doing, keeps its type.
THEOREM AccountTypes == Spec => []TypeOK
BY Invariant, PTL DEF AccountsInv

\* No two accounts share a name, however registrations, additions and renames
\* overlap: what each looked up may be stale, the UNIQUE column decides
\* (chat_server.py, users_tab.py, repository.py: create_user, update_user_username).
THEOREM UserNamesUnique == Spec => []NamesUnique
BY Invariant, PTL DEF AccountsInv

\* An account that the trail or a screenshot names is never removed: the hard
\* delete of the user tab meets the foreign keys (users_tab.py: _delete_user).
THEOREM UserTrailKept == Spec => []TrailKept
BY Invariant, PTL DEF AccountsInv

\* Whatever the configuration says, an account becomes that of an administrator
\* only by a step of somebody who claims to be one (chat_server.py: register,
\* admin_create_user, admin_update_user; users_tab.py).
THEOREM UserAdminFromAdmin == Spec => AdminFromAdmin
<1> DEFINE Step == \A i \in Ids : ~IsAdmin(i) /\ IsAdmin(i)' => AdminStep
<1>1. ASSUME AccountsInv, Next PROVE Step
  <2> SUFFICES ASSUME NEW i \in Ids, ~IsAdmin(i), IsAdmin(i)' PROVE AdminStep
    OBVIOUS
  <2>1. RowStep /\ users \in [Ids -> Row \cup {None, Gone}]
    BY <1>1, NextGood, TypesOf DEF Good
  <2>2. CASE UNCHANGED users
    BY <2>2 DEF IsAdmin, Exists
  <2>3. CASE NewRowStep
    <3>1. PICK a \in Actors, k \in Ids :
             /\ act[a].at = "insert" /\ act'[a] # act[a]
             /\ users' = [users EXCEPT ![k] = act[a].data]
      BY <2>3 DEF NewRowStep
    <3>2. k = i
      BY <2>1, <3>1 DEF IsAdmin, Exists
    <3>3. act[a].data.role = "admin"
      BY <2>1, <3>1, <3>2 DEF IsAdmin
    <3>4. act[a].caller # None /\ act[a].caller.role = "admin"
      BY <1>1, <3>1, <3>3, TypesOf DEF ActInv, Fits, MayDo
    <3> QED
      BY <3>1, <3>4 DEF AdminStep
  <2>4. CASE UpdatedRowStep
    BY <2>1, <2>4 DEF UpdatedRowStep, UpdatedRow, IsAdmin, Exists
  <2>5. CASE RemovedRowStep
    BY <2>1, <2>5 DEF RemovedRowStep, IsAdmin, Exists
  <2> QED
    BY <2>1, <2>2, <2>3, <2>4, <2>5 DEF RowStep
<1>2. AccountsInv /\ [Next]_vars => [Step]_vars
  BY <1>1
<1> QED
  BY <1>2, Invariant, PTL DEF Spec, AdminFromAdmin

\* A deleted account whose tokens and sessions have ended, and for which
\* nobody is at work, is out for ever: no update that was under way revives the
\* row, and no step makes a claim to it again (auth.py: login; chat_server.py:
\* _require_auth; repository.py: the updates of users; users_tab.py).
THEOREM UserLockoutLasts == Spec => LockoutLasts
<1> DEFINE Step == \A i \in Ids : LockedOut(i) => LockedOut(i)'
<1>1. ASSUME AccountsInv, Next PROVE Step
  <2> SUFFICES ASSUME NEW i \in Ids, LockedOut(i) PROVE LockedOut(i)'
    OBVIOUS
  <2>1. RowStep /\ ClaimStep /\ HandsStep /\ users \in [Ids -> Row \cup {None, Gone}]
    BY <1>1, NextGood, TypesOf DEF Good
  <2>2. users[i] # None /\ ~Live(i) /\ ~Access(i)
    BY DEF LockedOut
  <2>3. (users[i] # None /\ ~Live(i))'
    <3>1. CASE UNCHANGED users
      BY <2>2, <3>1 DEF Live, Exists
    <3>2. CASE NewRowStep
      BY <2>1, <2>2, <3>2 DEF NewRowStep, Live, Exists
    <3>3. CASE UpdatedRowStep
      BY <2>1, <2>2, <3>3, RowFields DEF UpdatedRowStep, UpdatedRow, Live, Exists
    <3>4. CASE RemovedRowStep
      BY <2>1, <2>2, <3>4, NoneAssumption, AccountsAssumption
      DEF RemovedRowStep, Live, Exists
    <3> QED
      BY <2>1, <3>1, <3>2, <3>3, <3>4 DEF RowStep
  <2>4. \A t \in tokens' : t.id # i
    BY <2>1, <2>2 DEF HandsStep
  <2>5. \A d \in Desktops : desk'[d] # None => desk'[d].id # i
    BY <2>1, <2>2 DEF HandsStep
  <2>6. \A a \in Actors : ~(act'[a].at = "sign_in" /\ act'[a].target = i)
    BY <2>1, <2>2 DEF ClaimStep, MayTakeUp, Access
  <2>7. \A a \in Actors : ~(act'[a].caller # None /\ act'[a].caller.id = i)
    BY <2>1, <2>2 DEF ClaimStep, MayTakeUp, Claims, Access
  <2> QED
    BY <2>3, <2>4, <2>5, <2>6, <2>7 DEF LockedOut, Access
<1>2. AccountsInv /\ [Next]_vars => [Step]_vars
  BY <1>1
<1> QED
  BY <1>2, Invariant, PTL DEF Spec, LockoutLasts

\* A password that changes by any step but the end of the owner's own change is
\* one the owner is told to replace at the next sign-in (auth.py:
\* change_password; chat_server.py and users_tab.py: the resets).
THEOREM UserForeignPasswordFlagged == Spec => ForeignPasswordFlagged
<1> DEFINE Step == \A i \in Ids : /\ Exists(i) /\ Exists(i)'
                                  /\ users[i].password # users'[i].password
                                  => OwnChange(i) \/ users'[i].mustChange
<1>1. ASSUME AccountsInv, Next PROVE Step
  <2> SUFFICES ASSUME NEW i \in Ids, Exists(i), Exists(i)',
                      users[i].password # users'[i].password
               PROVE  OwnChange(i) \/ users'[i].mustChange
    OBVIOUS
  <2>1. RowStep /\ users \in [Ids -> Row \cup {None, Gone}]
    BY <1>1, NextGood, TypesOf DEF Good
  <2>2. CASE NewRowStep
    BY <2>1, <2>2 DEF NewRowStep, Exists
  <2>3. CASE UpdatedRowStep
    BY <2>1, <2>3 DEF UpdatedRowStep, UpdatedRow
  <2>4. CASE RemovedRowStep
    BY <2>1, <2>4 DEF RemovedRowStep, Exists
  <2> QED
    BY <2>1, <2>2, <2>3, <2>4 DEF RowStep
<1>2. AccountsInv /\ [Next]_vars => [Step]_vars
  BY <1>1
<1> QED
  BY <1>2, Invariant, PTL DEF Spec, ForeignPasswordFlagged
=============================================================================
