---------------------------- MODULE IntakeProofs ----------------------------
(***************************************************************************)
(* Theorems about Intake for any number of requests, at once and in all.    *)
(***************************************************************************)
EXTENDS Intake, FiniteSetTheorems, TLAPS

Job == [pc : {"idle", "save", "ladders", "analyse", "store", "latest"},
        kind : {"none", "submit", "refresh", "reset", "status"},
        op : Op \cup {0}, prof : Op \cup {None}, new : BOOLEAN, done : BOOLEAN,
        own : SUBSET Row, base : SUBSET Row, ladder : SUBSET Row, saw : SUBSET Row]

Active(j) == j.pc # "idle"
Computing(j) == j.pc \in {"analyse", "store"} /\ j.kind # "reset"

(* What a request is by itself.                                              *)
Plain(j) ==
  /\ ~Active(j) => j = Idle
  /\ Active(j) => j.op \in Op
  /\ j.kind \in {"submit", "reset"} => j.prof \in Op
  /\ j.new => j.kind = "submit"
  /\ \A r \in j.own : r[1] = j.op

(* What it found in the tables is still there, what it read still contains    *)
(* what it has to, and its number is on no row yet.                          *)
Against(j) ==
  /\ Active(j) =>
       /\ j.op <= ops
       /\ \A r \in vault : r[1] # j.op
       /\ \A a \in archives : a.op # j.op
  /\ \A r \in j.base : r[1] <= ops
  /\ j.kind \in {"submit", "reset"} /\ ~j.new => j.prof \in profiles
  /\ j.new /\ ~raced => profiles = {}
  /\ Computing(j) => (j.base \cap vault) \cup j.own \subseteq j.ladder
  /\ Computing(j) /\ j.pc = "store" => (j.base \cap vault) \cup j.own \subseteq j.saw
  /\ j.pc = "latest" /\ j.done => snaps # {}

(* Two requests have different numbers, k had no row of j before it, and two  *)
(* that both bring a profile are marked.                                     *)
Apart(j, k) ==
  /\ Active(j) => /\ Active(k) => j.op # k.op
                  /\ \A r \in k.base : r[1] # j.op
  /\ j.new /\ k.new => raced

Tables ==
  /\ \A r \in vault : r[1] <= ops
  /\ \A a \in archives : a.op <= ops
  /\ complete # {} => snaps # {}
  /\ ~raced => \A p, q \in profiles : p = q

IInv ==
  /\ TypeOK /\ Tables /\ ArchivedIsAnalysed /\ StatusConsistent
  /\ \A t \in Tx : Plain(req[t]) /\ Against(req[t])
  /\ \A t, u \in Tx : t # u => Apart(req[t], req[u])

LEMMA Numbers ==
  /\ MaxOps \in Nat /\ Op \subseteq Nat /\ None = 0 /\ None \notin Op
  /\ \A n \in Op : n <= MaxOps
  /\ \A r \in Row : r[1] \in Op
BY IntakeAssumption DEF Op, None, Row

LEMMA Types ==
  ASSUME TypeOK
  PROVE  /\ profiles \subseteq Op /\ complete \subseteq profiles /\ vault \subseteq Row
         /\ \A s \in snaps : s.at \in Op
         /\ \A a \in archives : a.op \in Op /\ a.snap \in Op
         /\ req \in [Tx -> Job] /\ ops \in Nat /\ ops <= MaxOps
         /\ raced \in BOOLEAN
BY Numbers DEF TypeOK, Job, Snapshot

LEMMA IdleFacts ==
  /\ Idle \in Job /\ ~Active(Idle) /\ Plain(Idle) /\ Against(Idle)
  /\ \A j : Apart(Idle, j)
  /\ \A j : Apart(j, Idle)
BY DEF Idle, Job, Active, Plain, Against, Apart, Computing, None

LEMMA InitInv == Init => IInv
<1> SUFFICES ASSUME Init PROVE IInv
  OBVIOUS
<1>1. TypeOK
  <2>1. req \in [Tx -> Job]
    BY IdleFacts DEF Init
  <2>2. holder \in [Op -> SUBSET Tx]
    BY DEF Init
  <2>3. ops \in 0 .. MaxOps
    BY Numbers DEF Init
  <2>4. QED
    BY <2>1, <2>2, <2>3 DEF Init, TypeOK, Job
<1>2. \A t \in Tx : req[t] = Idle
  BY DEF Init
<1>3. Tables /\ ArchivedIsAnalysed /\ StatusConsistent
  BY DEF Init, Tables, ArchivedIsAnalysed, StatusConsistent
<1>4. \A t \in Tx : Plain(req[t]) /\ Against(req[t])
  BY <1>2, IdleFacts
<1>5. \A t, u \in Tx : Apart(req[t], req[u])
  BY <1>2, IdleFacts
<1>6. QED
  BY <1>1, <1>3, <1>4, <1>5 DEF IInv

(* The looked-up profile is one of the table.                                *)
LEMMA Profile == (TheProfile = None /\ profiles = {}) \/ TheProfile \in profiles
BY DEF TheProfile, LookedUp

-----------------------------------------------------------------------------
(* A request that goes on, or ends, without a change of the tables.          *)

LEMMA OnwardStep ==
  ASSUME IInv, NEW t \in Tx, NEW j \in Job,
         req' = [req EXCEPT ![t] = j],
         UNCHANGED <<tables, answers, ops, raced>>, TypeOK',
         \/ j = Idle
         \/ /\ Plain(j) /\ Against(j) /\ Active(req[t])
            /\ j.op = req[t].op /\ j.base = req[t].base /\ j.new = req[t].new
  PROVE  IInv'
<1> DEFINE old == req[t]
<1>1. \A u \in Tx : req'[u] = IF u = t THEN j ELSE req[u]
  BY Types DEF IInv
<1>2. Plain(j) /\ Against(j)
  BY IdleFacts
<1>3. \A u \in Tx : u # t => Apart(j, req[u]) /\ Apart(req[u], j)
  BY IdleFacts DEF IInv, Apart
<1>4. \A u \in Tx : Plain(req'[u]) /\ Against(req'[u])
  BY <1>1, <1>2 DEF IInv
<1>5. (\A u \in Tx : Plain(req[u]) /\ Against(req[u]))'
  BY <1>4 DEF Plain, Against, tables
<1>6. \A u, v \in Tx : u # v => Apart(req'[u], req'[v])
  BY <1>1, <1>3 DEF IInv
<1>7. (\A u, v \in Tx : u # v => Apart(req[u], req[v]))'
  BY <1>6 DEF Apart
<1>8. (Tables /\ ArchivedIsAnalysed /\ StatusConsistent)'
  BY DEF IInv, Tables, ArchivedIsAnalysed, StatusConsistent, tables
<1>9. QED
  BY <1>5, <1>7, <1>8 DEF IInv

(* A request that begins: its number is a new one.                           *)
LEMMA BeginStep ==
  ASSUME IInv, NEW t \in Tx, NEW j \in Job, req[t].pc = "idle",
         req' = [req EXCEPT ![t] = j], ops' = ops + 1, ops < MaxOps,
         UNCHANGED <<tables, answers>>, raced => raced', TypeOK',
         Plain(j), j.op = ops + 1, j.base = vault, ~Computing(j),
         j.kind \in {"submit", "reset"} /\ ~j.new => j.prof \in profiles,
         j.new => profiles = {} /\ (raced' \/ \A u \in Tx \ {t} : ~req[u].new),
         j.pc = "latest" /\ j.done => snaps # {}
  PROVE  IInv'
<1>1. \A u \in Tx : req'[u] = IF u = t THEN j ELSE req[u]
  BY Types DEF IInv
<1>2. /\ ops \in Nat /\ \A u \in Tx : req[u] \in Job
      /\ \A r \in vault : r[1] \in Nat /\ r[1] <= ops
      /\ \A a \in archives : a.op \in Nat /\ a.op <= ops
  BY Types, Numbers DEF IInv, Tables
<1>3. \A u \in Tx : Active(req[u]) => req[u].op \in Nat /\ req[u].op <= ops
  BY Numbers DEF IInv, Plain, Against
<1>4. \A u \in Tx : \A r \in req[u].base : r[1] \in Nat /\ r[1] <= ops
  BY <1>2, Numbers DEF IInv, Against, Job
<1>5. /\ \A r \in vault : r[1] <= ops + 1 /\ r[1] # ops + 1
      /\ \A a \in archives : a.op <= ops + 1 /\ a.op # ops + 1
  BY <1>2
<1>6. Against(j)'
  BY <1>2, <1>5 DEF Against, Computing, tables
<1>7. ASSUME NEW u \in Tx PROVE Against(req[u]) => /\ Active(req[u]) => req[u].op <= ops + 1
                                            /\ \A r \in req[u].base : r[1] <= ops + 1
  BY <1>2, <1>3, <1>4
<1>8. ASSUME NEW u \in Tx, u # t
      PROVE  Plain(req'[u]) /\ Against(req[u])'
  <2>1. req'[u] = req[u] /\ Against(req[u]) /\ Plain(req[u])
    BY <1>1, <1>8 DEF IInv
  <2>2. QED
    BY <2>1, <1>7 DEF Against, tables
<1>9. (\A u \in Tx : Plain(req[u]) /\ Against(req[u]))'
  BY <1>1, <1>6, <1>8 DEF Against, Plain
<1>10. ASSUME NEW u \in Tx, u # t
       PROVE  /\ Active(req[u]) => req[u].op # j.op /\ \A r \in j.base : r[1] # req[u].op
              /\ \A r \in req[u].base : r[1] # j.op
  <2>1. Active(req[u]) => req[u].op # j.op
    BY <1>2, <1>3
  <2>2. Active(req[u]) => \A r \in j.base : r[1] # req[u].op
    BY DEF IInv, Against
  <2>3. \A r \in req[u].base : r[1] # j.op
    BY <1>2, <1>4
  <2>4. QED
    BY <2>1, <2>2, <2>3
<1>11. \A u, v \in Tx : u # v =>
         (Active(req'[u]) => /\ Active(req'[v]) => req'[u].op # req'[v].op
                             /\ \A r \in req'[v].base : r[1] # req'[u].op)
  BY <1>1, <1>10 DEF IInv, Apart
<1>12. \A u, v \in Tx : u # v => (req'[u].new /\ req'[v].new => raced')
  BY <1>1 DEF IInv, Apart
<1>13. (\A u, v \in Tx : u # v => Apart(req[u], req[v]))'
  BY <1>11, <1>12 DEF Apart, Active
<1>14. (Tables /\ ArchivedIsAnalysed /\ StatusConsistent)'
  BY <1>5 DEF IInv, Tables, ArchivedIsAnalysed, StatusConsistent, tables
<1>15. QED
  BY <1>9, <1>13, <1>14 DEF IInv

(* A request commits: it adds its rows, and a profile only if it brought one. *)
LEMMA CommitStep ==
  ASSUME IInv, NEW t \in Tx, Active(req[t]),
         req' = [req EXCEPT ![t] = Idle], UNCHANGED <<ops, raced>>, TypeOK',
         profiles' = profiles \/ (req[t].new /\ profiles' = profiles \cup {req[t].prof}),
         vault' \subseteq vault \cup req[t].own, snaps \subseteq snaps',
         \A a \in archives' : a \in archives \/ a.op = req[t].op,
         complete' # {} => snaps' # {}, ArchivedIsAnalysed', StatusConsistent'
  PROVE  IInv'
<1>1. \A u \in Tx : req'[u] = IF u = t THEN Idle ELSE req[u]
  BY Types DEF IInv
<1>2. Plain(req[t]) /\ Against(req[t])
  BY DEF IInv
<1>3. \A r \in vault' : r \in vault \/ r[1] = req[t].op
  BY <1>2 DEF Plain
<1>4. ASSUME NEW u \in Tx, u # t PROVE Plain(req'[u]) /\ Against(req[u])'
  <2>1. req'[u] = req[u] /\ Plain(req[u]) /\ Against(req[u])
        /\ Apart(req[t], req[u]) /\ Apart(req[u], req[t])
    BY <1>1, <1>4 DEF IInv
  <2>2. Active(req[u]) => /\ \A r \in vault' : r[1] # req[u].op
                          /\ \A a \in archives' : a.op # req[u].op
    BY <1>3, <2>1 DEF Against, Apart
  <2>3. req[u].base \cap vault' \subseteq req[u].base \cap vault
    BY <1>3, <2>1 DEF Apart
  <2>4. req[u].new /\ ~raced => profiles' = {}
    BY <2>1 DEF Against, Apart
  <2>5. /\ req[u].kind \in {"submit", "reset"} /\ ~req[u].new => req[u].prof \in profiles'
        /\ req[u].pc = "latest" /\ req[u].done => snaps' # {}
    BY <2>1 DEF Against
  <2>6. /\ Computing(req[u]) => (req[u].base \cap vault') \cup req[u].own \subseteq req[u].ladder
        /\ Computing(req[u]) /\ req[u].pc = "store" =>
             (req[u].base \cap vault') \cup req[u].own \subseteq req[u].saw
    BY <2>1, <2>3 DEF Against
  <2>7. /\ Active(req[u]) => req[u].op <= ops
        /\ \A r \in req[u].base : r[1] <= ops
    BY <2>1 DEF Against
  <2>8. QED
    BY <2>1, <2>2, <2>4, <2>5, <2>6, <2>7 DEF Against
<1>5. (\A u \in Tx : Plain(req[u]) /\ Against(req[u]))'
  <2>1. Plain(Idle) /\ Against(Idle)'
    BY IdleFacts DEF Against, Active, Computing, Idle
  <2>2. QED
    BY <1>1, <1>4, <2>1 DEF Against, Plain
<1>6. \A u, v \in Tx : u # v => Apart(req'[u], req'[v])
  BY <1>1, IdleFacts DEF IInv
<1>7. (\A u, v \in Tx : u # v => Apart(req[u], req[v]))'
  BY <1>6 DEF Apart
<1>8. Tables'
  <2>1. \A r \in vault' : r[1] <= ops
    BY <1>2, <1>3 DEF IInv, Tables, Against
  <2>2. \A a \in archives' : a.op <= ops
    BY <1>2 DEF IInv, Tables, Against
  <2>3. ~raced => \A p, q \in profiles' : p = q
    BY <1>2 DEF IInv, Tables, Against
  <2>4. QED
    BY <2>1, <2>2, <2>3 DEF Tables
<1>9. QED
  BY <1>5, <1>7, <1>8 DEF IInv

(* A vault request: it deletes rows, or inserts some under a new number.     *)
LEMMA EditStep ==
  ASSUME IInv, ops' = ops + 1, TypeOK',
         \A r \in vault' : r \in vault \/ r[1] = ops + 1,
         UNCHANGED <<profiles, complete, snaps, archives, req, answers, raced>>
  PROVE  IInv'
<1>1. /\ ops \in Nat /\ \A u \in Tx : req[u] \in Job
      /\ \A r \in vault : r[1] \in Nat /\ r[1] <= ops
      /\ \A a \in archives : a.op \in Nat /\ a.op <= ops
  BY Types, Numbers DEF IInv, Tables
<1>2. ASSUME NEW u \in Tx PROVE Against(req[u])'
  <2>1. Against(req[u]) /\ Plain(req[u])
    BY DEF IInv
  <2>2. /\ Active(req[u]) => req[u].op \in Nat /\ req[u].op <= ops
        /\ \A r \in req[u].base : r[1] \in Nat /\ r[1] <= ops
    BY <2>1, <1>1, Numbers DEF Plain, Against, Job
  <2>3. Active(req[u]) => req[u].op <= ops + 1 /\ \A r \in vault' : r[1] # req[u].op
    BY <2>1, <2>2, <1>1 DEF Against
  <2>4. /\ \A r \in req[u].base : r[1] <= ops + 1
        /\ req[u].base \cap vault' \subseteq req[u].base \cap vault
    BY <2>2, <1>1
  <2>5. QED
    BY <2>1, <2>3, <2>4 DEF Against
<1>3. (\A u \in Tx : Plain(req[u]) /\ Against(req[u]))'
  BY <1>2 DEF IInv, Plain, Against
<1>4. (\A u, v \in Tx : u # v => Apart(req[u], req[v]))'
  BY DEF IInv, Apart
<1>5. Tables'
  BY <1>1 DEF IInv, Tables
<1>6. ArchivedIsAnalysed'
  <2> SUFFICES ASSUME NEW a \in archives
               PROVE  \E s \in snaps : /\ s.at = a.snap
                        /\ {r \in vault' : r[1] = a.op} \subseteq s.ladder \cap s.saw
    BY DEF ArchivedIsAnalysed
  <2>1. {r \in vault' : r[1] = a.op} \subseteq {r \in vault : r[1] = a.op}
    BY <1>1
  <2>2. QED
    BY <2>1 DEF IInv, ArchivedIsAnalysed
<1>7. StatusConsistent'
  BY DEF IInv, StatusConsistent
<1>8. QED
  BY <1>3, <1>4, <1>5, <1>6, <1>7 DEF IInv

-----------------------------------------------------------------------------
(* The actions.                                                              *)

(* The tables keep their types while nothing changes them.                   *)
LEMMA SameTypes ==
  ASSUME IInv, UNCHANGED <<tables, answers>>, req' \in [Tx -> Job], raced' \in BOOLEAN,
         holder' \in [Op -> SUBSET Tx], ops' \in 0 .. MaxOps
  PROVE  TypeOK'
BY DEF IInv, TypeOK, tables, Job

LEMMA HolderTypes ==
  ASSUME IInv
  PROVE  /\ holder \in [Op -> SUBSET Tx] /\ raced \in BOOLEAN /\ ops \in 0 .. MaxOps
         /\ \A t \in Tx : Release(t) => holder' \in [Op -> SUBSET Tx]
         /\ \A t \in Tx : End(t) => holder' \in [Op -> SUBSET Tx] /\ req' \in [Tx -> Job]
<1>1. holder \in [Op -> SUBSET Tx] /\ raced \in BOOLEAN /\ ops \in 0 .. MaxOps
  BY DEF IInv, TypeOK
<1>2. ASSUME NEW t \in Tx, Release(t) PROVE holder' \in [Op -> SUBSET Tx]
  BY <1>1, <1>2 DEF Release
<1>3. ASSUME NEW t \in Tx, End(t) PROVE req' \in [Tx -> Job]
  BY <1>3, IdleFacts, Types DEF End, IInv
<1>4. QED
  BY <1>1, <1>2, <1>3 DEF End

LEMMA NextNumber ==
  ASSUME IInv, ops < MaxOps
  PROVE  ops + 1 \in Op /\ ops + 1 \in 0 .. MaxOps
BY Numbers DEF IInv, TypeOK, Op

(* The record of a request that begins.                                      *)
LEMMA BeginRecord ==
  ASSUME IInv, NEW t \in Tx, NEW x \in Job, Begin(t, x)
  PROVE  \E j \in Job :
           /\ req' = [req EXCEPT ![t] = j] /\ req' \in [Tx -> Job]
           /\ req[t].pc = "idle" /\ ops < MaxOps /\ ops' = ops + 1
           /\ j.op = ops + 1 /\ j.base = vault
           /\ j.pc = x.pc /\ j.kind = x.kind /\ j.prof = x.prof /\ j.new = x.new
           /\ j.done = x.done /\ j.own = x.own
<1> DEFINE j == [x EXCEPT !.op = ops + 1, !.base = vault]
<1>1. req[t].pc = "idle" /\ ops < MaxOps /\ ops' = ops + 1 /\ req' = [req EXCEPT ![t] = j]
  BY DEF Begin
<1>2. vault \subseteq Row /\ ops + 1 \in Op
  BY <1>1, Types, NextNumber DEF IInv
<1>3. j \in Job
  BY <1>2 DEF Job
<1>4. /\ j.op = ops + 1 /\ j.base = vault
      /\ j.pc = x.pc /\ j.kind = x.kind /\ j.prof = x.prof /\ j.new = x.new
      /\ j.done = x.done /\ j.own = x.own
  BY DEF Job
<1> HIDE DEF j
<1>5. req' \in [Tx -> Job]
  BY <1>1, <1>3, Types DEF IInv
<1>6. QED
  BY <1>1, <1>3, <1>4, <1>5

LEMMA BeginSubmitInv ==
  ASSUME IInv, NEW t \in Tx, NEW sections \in SUBSET Kind, BeginSubmit(t, sections)
  PROVE  IInv'
<1> DEFINE p == TheProfile
           x == [Idle EXCEPT !.pc = "save", !.kind = "submit",
                   !.prof = IF p = None THEN ops + 1 ELSE p, !.new = (p = None),
                   !.done = p \in complete, !.own = {<<ops + 1, k>> : k \in sections}]
<1>1. Begin(t, x)
  BY Zenon DEF BeginSubmit
<1>2. /\ raced' = (raced \/ (p = None /\ \E u \in Tx \ {t} : req[u].new))
      /\ UNCHANGED <<tables, holder, answers>>
  BY DEF BeginSubmit
<1>3. (p = None /\ profiles = {}) \/ (p \in profiles /\ p \in Op /\ p # None)
  BY Profile, Types, Numbers DEF IInv
<1>4. ops + 1 \in Op
  BY <1>1, NextNumber DEF Begin
<1>5. x \in Job
  <2>1. {<<ops + 1, k>> : k \in sections} \subseteq Row
    BY <1>4 DEF Row
  <2>2. (p \in complete) \in BOOLEAN /\ (p = None) \in BOOLEAN
    OBVIOUS
  <2>3. (IF p = None THEN ops + 1 ELSE p) \in Op \cup {None}
    BY <1>3, <1>4
  <2>4. QED
    BY <2>1, <2>2, <2>3, IdleFacts DEF Job
<1>6. /\ x.pc = "save" /\ x.kind = "submit" /\ x.new = (p = None)
      /\ x.prof = IF p = None THEN ops + 1 ELSE p
      /\ x.own = {<<ops + 1, k>> : k \in sections}
  BY IdleFacts DEF Job
<1> HIDE DEF x
<1>7. PICK j \in Job :
           /\ req' = [req EXCEPT ![t] = j] /\ req' \in [Tx -> Job]
           /\ req[t].pc = "idle" /\ ops < MaxOps /\ ops' = ops + 1
           /\ j.op = ops + 1 /\ j.base = vault
           /\ j.pc = x.pc /\ j.kind = x.kind /\ j.prof = x.prof /\ j.new = x.new
           /\ j.done = x.done /\ j.own = x.own
  BY <1>1, <1>5, BeginRecord
<1>8. TypeOK'
  <2>1. raced' \in BOOLEAN
    BY <1>2, HolderTypes
  <2>2. QED
    BY <1>2, <1>7, <2>1, SameTypes, HolderTypes, NextNumber
<1>9. Plain(j)
  <2>1. \A r \in j.own : r[1] = j.op
    BY <1>6, <1>7
  <2>2. QED
    BY <1>3, <1>4, <1>6, <1>7, <2>1 DEF Plain, Active
<1>10. /\ ~Computing(j) /\ j.pc = "save"
       /\ j.kind \in {"submit", "reset"} /\ ~j.new => j.prof \in profiles
  BY <1>3, <1>6, <1>7 DEF Computing
<1>11. j.new => profiles = {} /\ (raced' \/ \A u \in Tx \ {t} : ~req[u].new)
  BY <1>2, <1>3, <1>6, <1>7
<1>12. raced => raced'
  BY <1>2
<1>13. QED
  BY <1>2, <1>7, <1>8, <1>9, <1>10, <1>11, <1>12, BeginStep

(* Refresh, reset and status begin without a profile of their own.           *)
LEMMA BeginOther ==
  ASSUME IInv, NEW t \in Tx, NEW x \in Job, Begin(t, x),
         x.pc \in {"ladders", "store", "latest"}, x.kind \in {"refresh", "reset", "status"},
         ~x.new, x.own = {}, UNCHANGED <<tables, holder, answers, raced>>,
         x.kind = "reset" => x.prof \in profiles, x.pc = "store" => x.kind = "reset",
         x.pc = "latest" /\ x.done => complete # {}
  PROVE  IInv'
<1>1. PICK j \in Job :
           /\ req' = [req EXCEPT ![t] = j] /\ req' \in [Tx -> Job]
           /\ req[t].pc = "idle" /\ ops < MaxOps /\ ops' = ops + 1
           /\ j.op = ops + 1 /\ j.base = vault
           /\ j.pc = x.pc /\ j.kind = x.kind /\ j.prof = x.prof /\ j.new = x.new
           /\ j.done = x.done /\ j.own = x.own
  BY BeginRecord
<1>2. TypeOK'
  BY <1>1, SameTypes, HolderTypes, NextNumber
<1>3. Plain(j)
  BY <1>1, NextNumber, Types DEF Plain, Active, IInv
<1>4. /\ ~Computing(j) /\ ~j.new
      /\ j.kind \in {"submit", "reset"} => j.prof \in profiles
      /\ j.pc = "latest" /\ j.done => snaps # {}
  BY <1>1 DEF Computing, IInv, Tables
<1>5. QED
  BY <1>1, <1>2, <1>3, <1>4, BeginStep

LEMMA BeginOtherInv ==
  ASSUME IInv, NEW t \in Tx, BeginRefresh(t) \/ BeginReset(t) \/ BeginStatus(t)
  PROVE  IInv'
<1>1. CASE BeginRefresh(t)
  <2> DEFINE x == [Idle EXCEPT !.pc = "ladders", !.kind = "refresh"]
  <2>1. Begin(t, x) /\ UNCHANGED <<tables, holder, answers, raced>>
    BY <1>1, Zenon DEF BeginRefresh
  <2>2. x \in Job /\ x.pc = "ladders" /\ x.kind = "refresh"
    BY IdleFacts DEF Job
  <2>3. ~x.new /\ x.own = {}
    BY DEF Idle
  <2> HIDE DEF x
  <2>4. QED
    BY <2>1, <2>2, <2>3, BeginOther
<1>2. CASE BeginReset(t)
  <2> DEFINE x == [Idle EXCEPT !.pc = "store", !.kind = "reset", !.prof = TheProfile,
                               !.done = TheProfile \in complete]
  <2>1. Begin(t, x) /\ UNCHANGED <<tables, holder, answers, raced>>
    BY <1>2, Zenon DEF BeginReset
  <2>2. TheProfile \in profiles /\ TheProfile \in Op
    BY <1>2, Profile, Types DEF BeginReset, IInv
  <2>3. /\ x \in Job /\ x.pc = "store" /\ x.kind = "reset"
        /\ x.prof = TheProfile
    <3>1. (TheProfile \in complete) \in BOOLEAN
      OBVIOUS
    <3>2. QED
      BY <2>2, <3>1, IdleFacts DEF Job
  <2>4. ~x.new /\ x.own = {}
    BY DEF Idle
  <2> HIDE DEF x
  <2>5. QED
    BY <2>1, <2>2, <2>3, <2>4, BeginOther
<1>3. CASE BeginStatus(t)
  <2> DEFINE x == [Idle EXCEPT !.pc = "latest", !.kind = "status",
                               !.done = TheProfile \in complete]
  <2>1. Begin(t, x) /\ UNCHANGED <<tables, holder, answers, raced>>
    BY <1>3, Zenon DEF BeginStatus
  <2>2. /\ x \in Job /\ x.pc = "latest" /\ x.kind = "status"
        /\ x.done => complete # {}
    <3>1. (TheProfile \in complete) \in BOOLEAN
      OBVIOUS
    <3>2. QED
      BY <3>1, IdleFacts DEF Job
  <2>3. ~x.new /\ x.own = {}
    BY DEF Idle
  <2> HIDE DEF x
  <2>4. QED
    BY <2>1, <2>2, <2>3, BeginOther
<1>4. QED
  BY <1>1, <1>2, <1>3

(* Save and the two passes of the engine.                                    *)
LEMMA WorkInv ==
  ASSUME IInv, NEW t \in Tx, Save(t) \/ ReadLadders(t) \/ Analyse(t)
  PROVE  IInv'
<1> DEFINE old == req[t]
<1>1. /\ old \in Job /\ Plain(old) /\ Against(old) /\ Visible(t) \subseteq Row
      /\ req \in [Tx -> Job]
  BY Types DEF IInv, Visible, Job
<1>2. CASE Save(t)
  <2> DEFINE j == [old EXCEPT !.pc = "ladders"]
  <2>1. /\ req' = [req EXCEPT ![t] = j] /\ old.pc = "save"
        /\ UNCHANGED <<tables, answers, ops, raced>>
    BY <1>2 DEF Save
  <2>2. /\ j \in Job /\ j.pc = "ladders" /\ j.op = old.op /\ j.base = old.base /\ j.new = old.new
        /\ j.kind = old.kind /\ j.prof = old.prof /\ j.own = old.own
    BY <1>1 DEF Job
  <2> HIDE DEF j
  <2>3. Active(old) /\ Plain(j) /\ Against(j)
    BY <1>1, <2>1, <2>2 DEF Active, Plain, Against, Computing
  <2>4. holder' \in [Op -> SUBSET Tx]
    BY <1>2, HolderTypes DEF Save
  <2>5. TypeOK'
    <3>1. req' \in [Tx -> Job]
      BY <1>1, <2>1, <2>2
    <3>2. QED
      BY <2>1, <2>4, <3>1, SameTypes, HolderTypes
  <2>6. QED
    BY <2>1, <2>2, <2>3, <2>5, OnwardStep
<1>3. CASE ReadLadders(t)
  <2> DEFINE j == [old EXCEPT !.pc = "analyse", !.ladder = Visible(t)]
  <2>1. /\ req' = [req EXCEPT ![t] = j] /\ old.pc = "ladders"
        /\ UNCHANGED <<tables, holder, answers, ops, raced>>
    BY <1>3 DEF ReadLadders
  <2>2. /\ j \in Job /\ j.pc = "analyse" /\ j.op = old.op /\ j.base = old.base /\ j.new = old.new
        /\ j.kind = old.kind /\ j.prof = old.prof /\ j.own = old.own /\ j.ladder = vault \cup old.own
    BY <1>1 DEF Job, Visible
  <2> HIDE DEF j
  <2>3. Active(old) /\ Plain(j) /\ Against(j)
    BY <1>1, <2>1, <2>2 DEF Active, Plain, Against, Computing
  <2>4. TypeOK'
    <3>1. req' \in [Tx -> Job]
      BY <1>1, <2>1, <2>2
    <3>2. QED
      BY <2>1, <3>1, SameTypes, HolderTypes
  <2>5. QED
    BY <2>1, <2>2, <2>3, <2>4, OnwardStep
<1>4. CASE Analyse(t)
  <2> DEFINE j == [old EXCEPT !.pc = "store", !.saw = Visible(t)]
  <2>1. /\ req' = [req EXCEPT ![t] = j] /\ old.pc = "analyse"
        /\ UNCHANGED <<tables, holder, answers, ops, raced>>
    BY <1>4 DEF Analyse
  <2>2. /\ j \in Job /\ j.pc = "store" /\ j.op = old.op /\ j.base = old.base /\ j.new = old.new
        /\ j.kind = old.kind /\ j.prof = old.prof /\ j.own = old.own
        /\ j.ladder = old.ladder /\ j.saw = vault \cup old.own
    BY <1>1 DEF Job, Visible
  <2> HIDE DEF j
  <2>3. Active(old) /\ Plain(j) /\ Against(j)
    BY <1>1, <2>1, <2>2 DEF Active, Plain, Against, Computing
  <2>4. TypeOK'
    <3>1. req' \in [Tx -> Job]
      BY <1>1, <2>1, <2>2
    <3>2. QED
      BY <2>1, <3>1, SameTypes, HolderTypes
  <2>5. QED
    BY <2>1, <2>2, <2>3, <2>4, OnwardStep
<1>5. QED
  BY <1>2, <1>3, <1>4

(* A request that ends without a commit.                                     *)
LEMMA GiveUpInv ==
  ASSUME IInv, NEW t \in Tx, Refused(t) \/ Abort(t)
  PROVE  IInv'
<1>1. End(t) /\ UNCHANGED <<tables, answers, ops, raced>>
  BY DEF Refused, Abort
<1>2. TypeOK'
  BY <1>1, SameTypes, HolderTypes
<1>3. QED
  BY <1>1, <1>2, IdleFacts, OnwardStep DEF End

(* The commit of a submission.                                               *)
LEMMA StoreInv ==
  ASSUME IInv, NEW t \in Tx, Store(t)
  PROVE  IInv'
<1> DEFINE old == req[t]
<1>1. /\ old \in Job /\ Plain(old) /\ Against(old) /\ Active(old)
      /\ Computing(old) /\ old.pc = "store"
      /\ old.op \in Op /\ old.prof \in Op /\ old.own \subseteq Row
      /\ old.ladder \subseteq Row /\ old.saw \subseteq Row
  <2>1. old \in Job /\ Plain(old) /\ Against(old)
    BY Types DEF IInv
  <2>2. old.pc = "store" /\ old.kind = "submit"
    BY DEF Store
  <2>3. QED
    BY <2>1, <2>2 DEF Plain, Job, Active, Computing
<1> DEFINE s == Result(t)
           a == [op |-> old.op, snap |-> old.op]
<1>2. s.at = old.op /\ s.ladder = old.ladder /\ s.saw = old.saw /\ s \in Snapshot
  BY <1>1 DEF Result, Snapshot
<1>3. a.op = old.op /\ a.snap = old.op /\ a \in [op : Op, snap : Op]
  BY <1>1
<1>4. /\ profiles' = profiles \cup {old.prof} /\ complete' = complete \cup {old.prof}
      /\ vault' = vault \cup old.own /\ snaps' = snaps \cup {s}
      /\ archives' = archives \cup {a} /\ End(t)
      /\ UNCHANGED <<answers, ops, raced>>
  BY DEF Store
<1> HIDE DEF s, a
<1>6. TypeOK'
  BY <1>1, <1>2, <1>3, <1>4, HolderTypes DEF IInv, TypeOK, Job
<1>7. ArchivedIsAnalysed'
  <2>1. old.own \subseteq old.ladder \cap old.saw
    BY <1>1 DEF Against
  <2>2. \A r \in vault : r[1] # old.op
    BY <1>1 DEF Against
  <2>3. {r \in vault' : r[1] = a.op} \subseteq s.ladder \cap s.saw
    BY <1>2, <1>3, <1>4, <2>1, <2>2
  <2>4. ASSUME NEW b \in archives
        PROVE  \E z \in snaps : /\ z.at = b.snap
                 /\ {r \in vault' : r[1] = b.op} \subseteq z.ladder \cap z.saw
    <3>1. b.op # old.op
      BY <1>1 DEF Against
    <3>2. {r \in vault' : r[1] = b.op} \subseteq {r \in vault : r[1] = b.op}
      BY <1>1, <1>4, <3>1 DEF Plain
    <3>3. QED
      BY <3>2 DEF IInv, ArchivedIsAnalysed
  <2>5. QED
    BY <1>2, <1>3, <1>4, <2>3, <2>4 DEF ArchivedIsAnalysed
<1>8. profiles' = profiles \/ (old.new /\ profiles' = profiles \cup {old.prof})
  <2>1. old.kind = "submit"
    BY DEF Store
  <2>2. QED
    BY <1>1, <1>4, <2>1 DEF Against
<1>9. StatusConsistent'
  BY <1>4 DEF IInv, StatusConsistent
<1>10. req' = [req EXCEPT ![t] = Idle]
  BY <1>4 DEF End
<1>11. \A b \in archives' : b \in archives \/ b.op = old.op
  BY <1>3, <1>4
<1>12. snaps \subseteq snaps' /\ snaps' # {} /\ vault' \subseteq vault \cup old.own
  BY <1>4
<1>13. QED
  BY <1>1, <1>4, <1>6, <1>7, <1>8, <1>9, <1>10, <1>11, <1>12, CommitStep

(* The commits that bring no row.                                            *)
LEMMA OtherCommits ==
  ASSUME IInv, NEW t \in Tx, StoreRefresh(t) \/ StoreReset(t) \/ AnswerStatus(t)
  PROVE  IInv'
<1> DEFINE old == req[t]
<1>1. /\ old \in Job /\ Plain(old) /\ Against(old) /\ Active(old) /\ old.op \in Op
      /\ old.ladder \subseteq Row /\ old.saw \subseteq Row /\ old.done \in BOOLEAN
  <2>1. old \in Job /\ Plain(old) /\ Against(old)
    BY Types DEF IInv
  <2>2. Active(old)
    BY DEF StoreRefresh, StoreReset, AnswerStatus, Active
  <2>3. QED
    BY <2>1, <2>2 DEF Plain, Job
<1>2. End(t) /\ UNCHANGED <<profiles, vault, archives, ops, raced>>
  BY DEF StoreRefresh, StoreReset, AnswerStatus, tables
<1>3. /\ snaps' = snaps \/ snaps' = snaps \cup {Result(t)}
      /\ complete' \subseteq complete
  BY DEF StoreRefresh, StoreReset, AnswerStatus, tables
<1>4. Result(t) \in Snapshot
  BY <1>1 DEF Result, Snapshot
<1>5. /\ answers' \subseteq [completed : BOOLEAN, snapshot : BOOLEAN]
      /\ StatusConsistent'
  <2>1. CASE AnswerStatus(t)
    <3> DEFINE a == [completed |-> old.done, snapshot |-> snaps # {}]
    <3>1. a.completed = old.done /\ a.snapshot = (snaps # {})
      OBVIOUS
    <3>2. answers' = answers \cup {a} /\ old.pc = "latest"
      BY <2>1 DEF AnswerStatus
    <3>3. (snaps # {}) \in BOOLEAN
      OBVIOUS
    <3>4. a \in [completed : BOOLEAN, snapshot : BOOLEAN]
      BY <1>1, <3>3
    <3> HIDE DEF a
    <3>5. ~(a.completed = TRUE /\ a.snapshot = FALSE)
      BY <1>1, <3>1, <3>2 DEF Against
    <3>6. a # [completed |-> TRUE, snapshot |-> FALSE]
      BY <3>5
    <3>7. QED
      BY <3>2, <3>4, <3>6 DEF IInv, TypeOK, StatusConsistent
  <2>2. CASE UNCHANGED answers
    BY <2>2 DEF IInv, TypeOK, StatusConsistent
  <2>3. QED
    BY <2>1, <2>2 DEF StoreRefresh, StoreReset
<1>6. TypeOK'
  BY <1>2, <1>3, <1>4, <1>5, HolderTypes DEF IInv, TypeOK, Job
<1>7. ArchivedIsAnalysed'
  BY <1>2, <1>3 DEF IInv, ArchivedIsAnalysed
<1>8. snaps \subseteq snaps' /\ (complete' # {} => snaps' # {})
  BY <1>3 DEF IInv, Tables
<1>9. req' = [req EXCEPT ![t] = Idle]
  BY <1>2 DEF End
<1>10. QED
  BY <1>1, <1>2, <1>5, <1>6, <1>7, <1>8, <1>9, CommitStep

LEMMA VaultInv ==
  ASSUME IInv, (\E k \in Edit : VaultCreate(k)) \/ (\E r \in vault : VaultDelete(r))
  PROVE  IInv'
<1>1. /\ ops < MaxOps /\ ops' = ops + 1
      /\ UNCHANGED <<profiles, complete, snaps, archives, holder, req, answers, raced>>
  BY DEF VaultCreate, VaultDelete
<1>2. ops + 1 \in Op /\ ops + 1 \in 0 .. MaxOps
  BY <1>1, NextNumber
<1>3. vault' \subseteq Row /\ \A r \in vault' : r \in vault \/ r[1] = ops + 1
  BY <1>1, <1>2, Types, IntakeAssumption DEF VaultCreate, VaultDelete, Row, IInv
<1>4. TypeOK'
  BY <1>1, <1>2, <1>3 DEF IInv, TypeOK
<1>5. QED
  BY <1>1, <1>3, <1>4, EditStep

LEMMA Invariance == Spec => []IInv
<1>1. IInv /\ [Next]_vars => IInv'
  <2> SUFFICES ASSUME IInv, [Next]_vars PROVE IInv'
    OBVIOUS
  <2>1. CASE UNCHANGED vars
    BY <2>1 DEF vars, IInv, TypeOK, Tables, ArchivedIsAnalysed, StatusConsistent, Plain,
                Against, Apart
  <2>2. CASE Quiet \/ Wedged
    BY <2>1, <2>2 DEF Quiet, Wedged
  <2>3. ASSUME NEW t \in Tx, Advance(t) PROVE IInv'
    BY <2>3, WorkInv, GiveUpInv, StoreInv, OtherCommits DEF Advance
  <2>4. QED
    BY <2>1, <2>2, <2>3, BeginSubmitInv, BeginOtherInv, GiveUpInv, VaultInv DEF Next
<1>2. QED
  BY <1>1, InitInv, PTL DEF Spec

-----------------------------------------------------------------------------
(* Every variable keeps its type.                                            *)
THEOREM TypeCorrect == Spec => []TypeOK
<1>1. IInv => TypeOK
  BY DEF IInv
<1>2. QED
  BY <1>1, Invariance, PTL

(* submit_intake: the archived snapshot was made of what was submitted.      *)
THEOREM SubmissionIsAnalysed == Spec => []ArchivedIsAnalysed
<1>1. IInv => ArchivedIsAnalysed
  BY DEF IInv
<1>2. QED
  BY <1>1, Invariance, PTL

(* financial_snapshot.py: a snapshot misses nothing older than itself.       *)
THEOREM SnapshotIsComplete == Spec => []NothingOlderIsMissing
<1>1. IInv => NothingOlderIsMissing
  BY DEF IInv, NothingOlderIsMissing, Against, Computing
<1>2. QED
  BY <1>1, Invariance, PTL

(* get_intake_status: complete only with a snapshot.                         *)
THEOREM StatusIsTrue == Spec => []StatusConsistent
<1>1. IInv => StatusConsistent
  BY DEF IInv
<1>2. QED
  BY <1>1, Invariance, PTL

(* A second profile takes two first submissions that overlap.                *)
THEOREM OneProfile == Spec => []SecondProfileOnlyRaced
<1>1. IInv => SecondProfileOnlyRaced
  <2> SUFFICES ASSUME IInv, ~raced PROVE ~(Cardinality(profiles) > 1)
    BY DEF SecondProfileOnlyRaced
  <2>1. \A p, q \in profiles : p = q
    BY DEF IInv, Tables
  <2>2. CASE profiles = {}
    <3>1. Cardinality(profiles) = 0
      BY <2>2, FS_EmptySet
    <3>2. QED
      BY <3>1
  <2>3. CASE profiles # {}
    <3>1. PICK p \in profiles : profiles = {p}
      BY <2>1, <2>3
    <3>2. Cardinality(profiles) = 1
      BY <3>1, FS_Singleton
    <3>3. QED
      BY <3>2
  <2>4. QED
    BY <2>2, <2>3
<1>2. QED
  BY <1>1, Invariance, PTL
=============================================================================
