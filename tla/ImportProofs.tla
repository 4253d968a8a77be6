---------------------------- MODULE ImportProofs ----------------------------
(***************************************************************************)
(* Theorems about Import for every number of concurrent uploads, every       *)
(* length of file and every set of accounts and lines.                       *)
(***************************************************************************)
EXTENDS Import, FiniteSetTheorems, TLAPS

(* The first rows of a file are a sequence of at most MaxLines lines.         *)
LEMMA FileFacts ==
  /\ <<>> \in File /\ DOMAIN <<>> = {}
  /\ \A f \in File : \E n \in 0 .. MaxLines : f \in [1 .. n -> Line] /\ DOMAIN f = 1 .. n
<1>1. <<>> \in [1 .. 0 -> Line] /\ DOMAIN <<>> = {}
  OBVIOUS
<1>2. 0 \in 0 .. MaxLines
  BY ImportAssumption
<1>3. QED
  BY <1>1, <1>2 DEF File

LEMMA IdleIsUpload == Idle \in Upload
<1>1. (CHOOSE a \in Account : TRUE) \in Account
  BY ImportAssumption
<1>2. 1 \in 1 .. MaxLines + 1
  BY ImportAssumption
<1>3. QED
  BY <1>1, <1>2, FileFacts DEF Idle, Upload

-----------------------------------------------------------------------------
(* The inductive invariant.                                                  *)

(* What is true of an upload by itself: the lines it is past are stored or    *)
(* inserted, each insertion went with a line, and what it thinks is stored is.*)
LineDone(u, i) == ComputeHash(u.acct, u.lines[i]) \in u.known \cup u.own
Bookkeeping(u) ==
  /\ IsFiniteSet(u.own) /\ Cardinality(u.own) < u.next
  /\ u.pc # "insert" => u.next = 1 /\ u.own = {}
  /\ u.pc # "idle" => u.id \in Batch
  /\ \A i \in DOMAIN u.lines : i < u.next => LineDone(u, i)

(* What relates it to the tables: it knows only stored hashes, inserts only   *)
(* others, and without a race it knows all of its account.                    *)
AgainstTables(u) ==
  /\ u.known \subseteq Stored
  /\ u.own \cap Stored = {}
  /\ u.pc = "insert" /\ ~u.raced => {h \in Stored : h[1] = u.acct} \subseteq u.known

(* What relates two uploads: nobody inserts what another one inserted, and an *)
(* upload that is not marked as raced is the only one.                        *)
Apart(u, v) ==
  /\ u.own \cap v.own = {}
  /\ u.pc # "idle" /\ ~u.raced => v.pc = "idle"

IInv ==
  /\ TypeOK
  /\ \A t \in Tx : Bookkeeping(up[t]) /\ AgainstTables(up[t])
  /\ \A t, u \in Tx : t # u => Apart(up[t], up[u])
  /\ StoredOnce
  /\ NothingLost
  /\ RefusedOnlyIfRaced

LEMMA IdleFacts ==
  /\ Bookkeeping(Idle) /\ Idle.own = {} /\ Idle.known = {} /\ Idle.pc = "idle"
  /\ Idle.raced = FALSE
<1>1. IsFiniteSet({}) /\ Cardinality({}) = 0
  BY FS_EmptySet
<1>2. QED
  BY <1>1, FileFacts DEF Idle, Bookkeeping, LineDone

LEMMA InitIInv == Init => IInv
<1> SUFFICES ASSUME Init PROVE IInv
  OBVIOUS
<1>1. TypeOK
  BY IdleIsUpload, ImportAssumption DEF Init, TypeOK
<1>2. \A t \in Tx : up[t] = Idle
  BY DEF Init
<1>3. \A t \in Tx : Bookkeeping(up[t]) /\ AgainstTables(up[t])
  BY <1>2, IdleFacts DEF AgainstTables
<1>4. \A t, u \in Tx : t # u => Apart(up[t], up[u])
  BY <1>2, IdleFacts DEF Apart
<1>5. StoredOnce /\ NothingLost /\ RefusedOnlyIfRaced
  BY DEF Init, StoredOnce, NothingLost, RefusedOnlyIfRaced
<1>6. QED
  BY <1>1, <1>3, <1>4, <1>5 DEF IInv

(* A step that changes one upload and no table keeps the invariant when that  *)
(* upload is in order afterwards.                                             *)
LEMMA OneUpload ==
  ASSUME IInv, NEW t \in Tx, NEW v \in Upload,
         up' = [up EXCEPT ![t] = v],
         Bookkeeping(v), AgainstTables(v),
         \A u \in Tx \ {t} : Apart(v, up[u]) /\ Apart(up[u], v),
         UNCHANGED <<tables, uploads, whole>>,
         refused' \in SUBSET [id : Batch, raced : BOOLEAN],
         \A r \in refused' : r.raced
  PROVE  IInv'
<1>1. Stored' = Stored /\ tables' = tables
  BY DEF tables, Stored
<1>2. TypeOK'
  BY DEF IInv, TypeOK, tables
<1>3. \A s \in Tx : up'[s] = IF s = t THEN v ELSE up[s]
  BY DEF IInv, TypeOK
<1>4. \A s \in Tx : Bookkeeping(up'[s]) /\ AgainstTables(up'[s])
  BY <1>3 DEF IInv
<1>5. (\A s \in Tx : Bookkeeping(up[s]) /\ AgainstTables(up[s]))'
  BY <1>1, <1>4 DEF AgainstTables
<1>6. (\A s, u \in Tx : s # u => Apart(up[s], up[u]))'
  BY <1>3 DEF IInv
<1>7. StoredOnce' /\ NothingLost' /\ RefusedOnlyIfRaced'
  BY <1>1 DEF IInv, StoredOnce, NothingLost, RefusedOnlyIfRaced, tables
<1>8. QED
  BY <1>2, <1>5, <1>6, <1>7 DEF IInv

(* An upload that ends without a commit.                                      *)
LEMMA EndStep ==
  ASSUME IInv, NEW t \in Tx, End(t), UNCHANGED <<tables, uploads, whole>>,
         refused' \in SUBSET [id : Batch, raced : BOOLEAN],
         \A r \in refused' : r.raced
  PROVE  IInv'
<1>1. up' = [up EXCEPT ![t] = Idle]
  BY DEF End
<1>2. AgainstTables(Idle)
  BY IdleFacts DEF AgainstTables
<1>3. \A u \in Tx \ {t} : Apart(Idle, up[u]) /\ Apart(up[u], Idle)
  BY IdleFacts DEF Apart
<1>4. QED
  BY <1>1, <1>2, <1>3, IdleFacts, IdleIsUpload, OneUpload

(* The refusals so far are of the right type and raced.                       *)
LEMMA Refusals ==
  ASSUME IInv, UNCHANGED refused
  PROVE  refused' \in SUBSET [id : Batch, raced : BOOLEAN] /\ \A r \in refused' : r.raced
BY DEF IInv, TypeOK, RefusedOnlyIfRaced

(* The current line has a hash of the upload's account.                       *)
LEMMA LineFacts ==
  ASSUME IInv, NEW t \in Tx
  PROVE  /\ up[t] \in Upload
         /\ \E n \in 0 .. MaxLines : up[t].lines \in [1 .. n -> Line]
                                     /\ DOMAIN up[t].lines = 1 .. n
         /\ up[t].next \in 1 .. MaxLines + 1
         /\ More(t) => HashNow(t) \in Hash /\ HashNow(t)[1] = up[t].acct
<1>1. up[t] \in Upload
  BY DEF IInv, TypeOK
<1>2. up[t].lines \in File /\ up[t].acct \in Account /\ up[t].next \in 1 .. MaxLines + 1
  BY <1>1 DEF Upload
<1>3. PICK n \in 0 .. MaxLines : up[t].lines \in [1 .. n -> Line]
                                 /\ DOMAIN up[t].lines = 1 .. n
  BY <1>2, FileFacts
<1>4. More(t) => up[t].lines[up[t].next] \in Line
  BY <1>3 DEF More
<1>5. QED
  BY <1>1, <1>2, <1>3, <1>4 DEF HashNow, ComputeHash, Hash

LEMMA SkipLineStep ==
  ASSUME IInv, NEW t \in Tx, SkipLine(t)
  PROVE  IInv'
<1> DEFINE v == [up[t] EXCEPT !.next = up[t].next + 1]
<1>1. up' = [up EXCEPT ![t] = v]
  BY DEF SkipLine, NextLine
<1>2. v \in Upload /\ up[t].next \in Nat /\ v.next = up[t].next + 1
  BY LineFacts, ImportAssumption DEF SkipLine, More, Upload
<1>3. /\ v.own = up[t].own /\ v.known = up[t].known /\ v.pc = up[t].pc
      /\ v.lines = up[t].lines /\ v.acct = up[t].acct /\ v.raced = up[t].raced
      /\ v.id = up[t].id
  BY LineFacts DEF Upload
<1> HIDE DEF v
<1>4. Bookkeeping(v)
  <2>1. Bookkeeping(up[t])
    BY DEF IInv
  <2>2. Cardinality(v.own) < v.next
    BY <1>2, <1>3, <2>1, FS_CardinalityType DEF Bookkeeping
  <2>3. LineDone(up[t], up[t].next)
    BY DEF SkipLine, Known, HashNow, LineDone
  <2>4. \A i \in DOMAIN v.lines : i < v.next => LineDone(v, i)
    <3> SUFFICES ASSUME NEW i \in DOMAIN up[t].lines, i < up[t].next + 1
                 PROVE  LineDone(up[t], i)
      BY <1>2, <1>3 DEF LineDone
    <3>1. i \in Nat
      BY LineFacts
    <3>2. i < up[t].next \/ i = up[t].next
      BY <1>2, <3>1
    <3>3. QED
      BY <2>1, <2>3, <3>2 DEF Bookkeeping
  <2>5. QED
    BY <1>3, <2>1, <2>2, <2>4 DEF Bookkeeping, SkipLine
<1>5. AgainstTables(v)
  BY <1>3 DEF IInv, AgainstTables
<1>6. \A u \in Tx \ {t} : Apart(v, up[u]) /\ Apart(up[u], v)
  BY <1>3 DEF IInv, Apart
<1>7. UNCHANGED <<tables, uploads, whole>> /\ UNCHANGED refused
  BY DEF SkipLine
<1>8. QED
  BY <1>1, <1>2, <1>4, <1>5, <1>6, <1>7, Refusals, OneUpload

LEMMA InsertRowStep ==
  ASSUME IInv, NEW t \in Tx, InsertRow(t)
  PROVE  IInv'
<1> DEFINE h == HashNow(t)
           v == [up[t] EXCEPT !.next = up[t].next + 1, !.own = up[t].own \cup {h}]
<1>1. up' = [up EXCEPT ![t] = v]
  BY DEF InsertRow
<1>2. v \in Upload /\ up[t].next \in Nat /\ v.next = up[t].next + 1
  <2>1. h \in Hash
    BY LineFacts DEF InsertRow
  <2>2. up[t].next \in Nat /\ up[t].next + 1 \in 1 .. MaxLines + 1
    BY LineFacts, ImportAssumption DEF InsertRow, More
  <2>3. up[t].own \cup {h} \in SUBSET Hash
    BY <2>1, LineFacts DEF Upload
  <2>4. QED
    BY <2>2, <2>3, LineFacts DEF Upload
<1>3. /\ v.own = up[t].own \cup {h} /\ v.known = up[t].known /\ v.pc = "insert"
      /\ v.lines = up[t].lines /\ v.acct = up[t].acct /\ v.raced = up[t].raced
      /\ v.id = up[t].id
      /\ up[t].pc = "insert"
  BY LineFacts DEF Upload, InsertRow
<1> HIDE DEF v
<1>4. Bookkeeping(v)
  <2>1. Bookkeeping(up[t])
    BY DEF IInv
  <2>2. IsFiniteSet(v.own) /\ Cardinality(v.own) < v.next
    <3>1. /\ IsFiniteSet(up[t].own) /\ Cardinality(up[t].own) \in Nat
          /\ Cardinality(up[t].own) < up[t].next
      BY <2>1, FS_CardinalityType DEF Bookkeeping
    <3>2. /\ IsFiniteSet(up[t].own \cup {h})
          /\ Cardinality(up[t].own \cup {h}) \in {Cardinality(up[t].own), Cardinality(up[t].own) + 1}
      BY <3>1, FS_AddElement
    <3>3. QED
      BY <1>2, <1>3, <3>1, <3>2
  <2>3. LineDone(v, up[t].next)
    BY <1>3 DEF HashNow, LineDone
  <2>4. \A i \in DOMAIN v.lines : i < v.next => LineDone(v, i)
    <3> SUFFICES ASSUME NEW i \in DOMAIN up[t].lines, i < up[t].next + 1
                 PROVE  LineDone(v, i)
      BY <1>2, <1>3
    <3>1. i \in Nat
      BY LineFacts
    <3>2. i < up[t].next \/ i = up[t].next
      BY <1>2, <3>1
    <3>3. i < up[t].next => LineDone(up[t], i)
      BY <2>1 DEF Bookkeeping
    <3>4. QED
      BY <1>3, <2>3, <3>2, <3>3 DEF LineDone
  <2>5. QED
    BY <1>3, <2>1, <2>2, <2>4 DEF Bookkeeping
<1>5. AgainstTables(v)
  BY <1>3 DEF IInv, AgainstTables, InsertRow, Taken
<1>6. \A u \in Tx \ {t} : Apart(v, up[u]) /\ Apart(up[u], v)
  BY <1>3 DEF IInv, Apart, InsertRow, Waits
<1>7. UNCHANGED <<tables, uploads, whole>> /\ UNCHANGED refused
  BY DEF InsertRow
<1>8. QED
  BY <1>1, <1>2, <1>4, <1>5, <1>6, <1>7, Refusals, OneUpload

(* A duplicate that was neither preloaded nor seen is a race.                 *)
LEMMA DuplicateStep ==
  ASSUME IInv, NEW t \in Tx, Duplicate(t)
  PROVE  IInv'
<1>1. up[t] \in Upload /\ HashNow(t)[1] = up[t].acct
  BY LineFacts DEF Duplicate
<1>2. HashNow(t) \in Stored /\ HashNow(t) \notin up[t].known
  BY DEF Duplicate, Taken, Known
<1>3. up[t].raced
  BY <1>1, <1>2 DEF IInv, AgainstTables, Duplicate, Upload
<1>4. up[t].id \in Batch
  BY DEF Duplicate, IInv, Bookkeeping
<1>5. refused' = refused \cup {[id |-> up[t].id, raced |-> TRUE]}
  BY <1>1, <1>3 DEF Duplicate, Upload
<1>6. refused' \in SUBSET [id : Batch, raced : BOOLEAN]
  <2>1. refused \in SUBSET [id : Batch, raced : BOOLEAN]
    BY DEF IInv, TypeOK
  <2>2. [id |-> up[t].id, raced |-> TRUE] \in [id : Batch, raced : BOOLEAN]
    BY <1>4
  <2>3. QED
    BY <1>5, <2>1, <2>2
<1>7. \A r \in refused' : r.raced
  BY <1>5 DEF IInv, RefusedOnlyIfRaced
<1>8. QED
  BY <1>6, <1>7, EndStep DEF Duplicate

LEMMA ReadHashesStep ==
  ASSUME IInv, NEW t \in Tx, ReadHashes(t)
  PROVE  IInv'
<1> DEFINE v == [up[t] EXCEPT !.pc = "insert",
                              !.known = {h \in Stored : h[1] = up[t].acct}]
<1>1. up' = [up EXCEPT ![t] = v]
  BY DEF ReadHashes
<1>2. Stored \subseteq Hash
  BY DEF IInv, TypeOK, Stored
<1>3. v \in Upload
  BY <1>2, LineFacts DEF Upload
<1>4. /\ v.own = up[t].own /\ v.known = {h \in Stored : h[1] = up[t].acct} /\ v.pc = "insert"
      /\ v.lines = up[t].lines /\ v.acct = up[t].acct /\ v.raced = up[t].raced
      /\ v.id = up[t].id
      /\ v.next = up[t].next /\ up[t].pc = "hashes"
  BY LineFacts DEF Upload, ReadHashes
<1> HIDE DEF v
<1>5. Bookkeeping(v)
  <2>1. Bookkeeping(up[t])
    BY DEF IInv
  <2>2. v.next = 1 /\ v.own = {} /\ up[t].own = {}
    BY <1>4, <2>1 DEF Bookkeeping
  <2>3. \A i \in DOMAIN v.lines : ~(i < v.next)
    BY <1>4, <2>2, LineFacts
  <2>4. QED
    BY <1>4, <2>1, <2>2, <2>3 DEF Bookkeeping
<1>6. AgainstTables(v)
  BY <1>4 DEF IInv, AgainstTables
<1>7. \A u \in Tx \ {t} : Apart(v, up[u]) /\ Apart(up[u], v)
  BY <1>4 DEF IInv, Apart
<1>8. UNCHANGED <<tables, uploads, whole>> /\ UNCHANGED refused
  BY DEF ReadHashes
<1>9. QED
  BY <1>1, <1>3, <1>5, <1>6, <1>7, <1>8, Refusals, OneUpload

LEMMA InsertBatchStep ==
  ASSUME IInv, NEW t \in Tx, InsertBatch(t)
  PROVE  IInv'
<1> DEFINE v == [up[t] EXCEPT !.pc = "hashes"]
<1>1. up' = [up EXCEPT ![t] = v]
  BY DEF InsertBatch
<1>2. v \in Upload
  BY LineFacts DEF Upload
<1>3. /\ v.own = up[t].own /\ v.known = up[t].known /\ v.pc = "hashes"
      /\ v.lines = up[t].lines /\ v.acct = up[t].acct /\ v.raced = up[t].raced
      /\ v.id = up[t].id /\ v.next = up[t].next /\ up[t].pc = "parse"
  BY LineFacts DEF Upload, InsertBatch
<1> HIDE DEF v
<1>4. Bookkeeping(v)
  <2>1. Bookkeeping(up[t])
    BY DEF IInv
  <2>2. \A i \in DOMAIN v.lines : ~(i < v.next)
    BY <1>3, <2>1, LineFacts DEF Bookkeeping
  <2>3. QED
    BY <1>3, <2>1, <2>2 DEF Bookkeeping
<1>5. AgainstTables(v)
  BY <1>3 DEF IInv, AgainstTables
<1>6. \A u \in Tx \ {t} : Apart(v, up[u]) /\ Apart(up[u], v)
  BY <1>3 DEF IInv, Apart
<1>7. UNCHANGED <<tables, uploads, whole>> /\ UNCHANGED refused
  BY DEF InsertBatch
<1>8. QED
  BY <1>1, <1>2, <1>4, <1>5, <1>6, <1>7, Refusals, OneUpload

(* An upload begins: it and all those in progress are marked as raced, unless *)
(* it is alone.                                                               *)
LEMMA StartStep ==
  ASSUME IInv, NEW t \in Tx, NEW a \in Account, NEW lines \in File, Start(t, a, lines)
  PROVE  IInv'
<1> DEFINE alone == \A u \in Tx \ {t} : ~Open(u)
           v == [Idle EXCEPT !.pc = "parse", !.id = uploads + 1, !.acct = a,
                             !.lines = lines, !.raced = ~alone]
           w(u) == [up[u] EXCEPT !.raced = Open(u)]
<1>1. up' = [u \in Tx |-> IF u = t THEN v ELSE w(u)]
  BY DEF Start
<1>2. uploads' \in 0 .. MaxUploads /\ uploads + 1 \in Batch
  <2>1. uploads \in 0 .. MaxUploads /\ uploads < MaxUploads /\ uploads' = uploads + 1
    BY DEF Start, IInv, TypeOK
  <2>2. QED
    BY <2>1, ImportAssumption DEF Batch
<1>3. v \in Upload
  BY <1>2, IdleIsUpload DEF Upload
<1>4. /\ v.own = {} /\ v.known = {} /\ v.pc = "parse" /\ v.lines = lines
      /\ v.next = 1 /\ v.id = uploads + 1 /\ v.raced = ~alone
  BY DEF Idle
<1>5. ASSUME NEW u \in Tx
      PROVE  /\ w(u) \in Upload
             /\ w(u).own = up[u].own /\ w(u).known = up[u].known /\ w(u).pc = up[u].pc
             /\ w(u).lines = up[u].lines /\ w(u).acct = up[u].acct
             /\ w(u).id = up[u].id /\ w(u).next = up[u].next
             /\ w(u).raced = (up[u].pc # "idle")
  BY LineFacts DEF Upload, Open
<1> HIDE DEF v, w, alone
<1>6. Bookkeeping(v)
  <2>1. \A i \in DOMAIN v.lines : ~(i < v.next)
    BY <1>4, FileFacts
  <2>2. QED
    BY <1>2, <1>4, <2>1, FS_EmptySet DEF Bookkeeping
<1>7. AgainstTables(v)
  BY <1>4 DEF AgainstTables
<1>8. ASSUME NEW u \in Tx PROVE Bookkeeping(w(u)) /\ AgainstTables(w(u))
  <2>1. Bookkeeping(up[u]) /\ AgainstTables(up[u])
    BY DEF IInv
  <2>2. Bookkeeping(w(u))
    BY <1>5, <2>1 DEF Bookkeeping, LineDone
  <2>3. AgainstTables(w(u))
    BY <1>5, <2>1 DEF AgainstTables
  <2>4. QED
    BY <2>2, <2>3
<1>9. \A u, s \in Tx : u # s => Apart(up'[u], up'[s])
  <2> SUFFICES ASSUME NEW u \in Tx, NEW s \in Tx, u # s PROVE Apart(up'[u], up'[s])
    OBVIOUS
  <2>1. CASE u = t
    <3>1. v.pc # "idle" /\ ~v.raced => up[s].pc = "idle"
      BY <1>4, <2>1 DEF alone, Open
    <3>2. QED
      BY <1>1, <1>4, <1>5, <2>1, <3>1 DEF Apart
  <2>2. CASE u # t /\ s = t
    BY <1>1, <1>4, <1>5, <2>2 DEF Apart
  <2>3. CASE u # t /\ s # t
    BY <1>1, <1>5, <2>3 DEF Apart, IInv
  <2>4. QED
    BY <2>1, <2>2, <2>3
<1>10. UNCHANGED <<tables, whole, refused>> /\ Stored' = Stored
  BY DEF Start, Stored, tables
<1>11. TypeOK'
  BY <1>1, <1>2, <1>3, <1>5, <1>10 DEF IInv, TypeOK, tables
<1>12. (\A u \in Tx : Bookkeeping(up[u]) /\ AgainstTables(up[u]))'
  <2>1. \A u \in Tx : Bookkeeping(up'[u]) /\ AgainstTables(up'[u])
    BY <1>1, <1>6, <1>7, <1>8
  <2>2. QED
    BY <1>10, <2>1 DEF AgainstTables
<1>13. StoredOnce' /\ NothingLost' /\ RefusedOnlyIfRaced'
  BY <1>10 DEF IInv, StoredOnce, NothingLost, RefusedOnlyIfRaced, tables
<1>14. QED
  BY <1>9, <1>11, <1>12, <1>13 DEF IInv

(* The rows of a committed upload are new, and with them the file is whole.   *)
LEMMA CommitStep ==
  ASSUME IInv, NEW t \in Tx, Commit(t)
  PROVE  IInv'
<1> DEFINE new == {[batch |-> up[t].id, hash |-> h] : h \in up[t].own}
<1>1. rows' = rows \cup new /\ up' = [up EXCEPT ![t] = Idle]
  BY DEF Commit, End
<1>2. Stored' = Stored \cup up[t].own
  <2>1. {r.hash : r \in new} = up[t].own
    <3>1. ASSUME NEW h \in up[t].own PROVE \E r \in new : r.hash = h
      <4>1. [batch |-> up[t].id, hash |-> h] \in new
        OBVIOUS
      <4>2. [batch |-> up[t].id, hash |-> h].hash = h
        OBVIOUS
      <4>3. QED
        BY <4>1, <4>2
    <3>2. \A r \in new : r.hash \in up[t].own
      OBVIOUS
    <3>3. QED
      BY <3>1, <3>2
  <2>2. Stored' = Stored \cup {r.hash : r \in new}
    BY <1>1 DEF Stored
  <2>3. QED
    BY <2>1, <2>2
<1>3. Bookkeeping(up[t]) /\ AgainstTables(up[t]) /\ up[t].pc = "insert"
  BY DEF IInv, Commit
<1>4. up[t].id \in Batch /\ up[t].own \in SUBSET Hash /\ up[t].acct \in Account
  BY <1>3, LineFacts DEF Bookkeeping, Upload
<1>5. PICK n \in 0 .. MaxLines : up[t].lines \in [1 .. n -> Line]
                                 /\ DOMAIN up[t].lines = 1 .. n
  BY LineFacts
<1>6. up[t].next \in 1 .. MaxLines + 1 /\ \A i \in 1 .. n : i < up[t].next
  BY <1>5, LineFacts, ImportAssumption DEF Commit, More
<1>7. TypeOK'
  <2>1. RowCount(t) \in 0 .. MaxLines
    BY <1>3, <1>6, FS_CardinalityType, ImportAssumption DEF RowCount, Bookkeeping
  <2>2. batches' \in SUBSET [id : Batch, account : Account, row_count : 0 .. MaxLines]
    BY <1>4, <2>1 DEF Commit, IInv, TypeOK
  <2>3. rows' \in SUBSET [batch : Batch, hash : Hash]
    BY <1>1, <1>4 DEF IInv, TypeOK
  <2>4. whole' \in SUBSET Hash
    <3>1. \A i \in DOMAIN up[t].lines : <<up[t].acct, up[t].lines[i]>> \in Hash
      BY <1>4, <1>5 DEF Hash
    <3>2. QED
      BY <3>1 DEF Commit, IInv, TypeOK
  <2>5. up' \in [Tx -> Upload]
    BY <1>1, IdleIsUpload DEF IInv, TypeOK
  <2>6. QED
    BY <2>2, <2>3, <2>4, <2>5 DEF Commit, IInv, TypeOK
<1>8. \A u \in Tx : Bookkeeping(up'[u])
  BY <1>1, IdleFacts DEF IInv, TypeOK
<1>9. ASSUME NEW u \in Tx
      PROVE  /\ up'[u].known \subseteq Stored'
             /\ up'[u].own \cap Stored' = {}
             /\ up'[u].pc = "insert" /\ ~up'[u].raced =>
                  {h \in Stored' : h[1] = up'[u].acct} \subseteq up'[u].known
  <2>1. CASE u = t
    <3>1. up'[u] = Idle
      BY <1>1, <2>1 DEF IInv, TypeOK
    <3>2. QED
      BY <3>1, IdleFacts
  <2>2. CASE u # t
    <3>1. up'[u] = up[u] /\ AgainstTables(up[u])
      BY <1>1, <2>2 DEF IInv, TypeOK
    <3>2. Apart(up[u], up[t])
      BY <2>2 DEF IInv
    <3>3. up[u].pc = "insert" => up[u].raced
      BY <1>3, <3>2 DEF Apart
    <3>4. QED
      BY <1>2, <3>1, <3>2, <3>3 DEF AgainstTables, Apart
  <2>3. QED
    BY <2>1, <2>2
<1>10. (\A u \in Tx : Bookkeeping(up[u]) /\ AgainstTables(up[u]))'
  BY <1>8, <1>9 DEF AgainstTables
<1>11. (\A u, s \in Tx : u # s => Apart(up[u], up[s]))'
  BY <1>1, IdleFacts DEF IInv, TypeOK, Apart
<1>12. StoredOnce'
  <2>1. \A r \in rows, s \in new : r.hash # s.hash
    BY <1>3 DEF AgainstTables, Stored
  <2>2. \A r, s \in new : r.hash = s.hash => r = s
    OBVIOUS
  <2>3. QED
    BY <1>1, <2>1, <2>2 DEF IInv, StoredOnce
<1>13. NothingLost'
  <2>1. \A i \in DOMAIN up[t].lines : <<up[t].acct, up[t].lines[i]>> \in Stored'
    BY <1>2, <1>3, <1>5, <1>6 DEF Bookkeeping, LineDone, ComputeHash, AgainstTables
  <2>2. whole \subseteq Stored'
    BY <1>2 DEF IInv, NothingLost
  <2>3. whole' \subseteq Stored'
    BY <2>1, <2>2 DEF Commit
  <2>4. QED
    BY <2>3 DEF NothingLost
<1>14. RefusedOnlyIfRaced'
  BY DEF Commit, IInv, RefusedOnlyIfRaced
<1>15. QED
  BY <1>7, <1>10, <1>11, <1>12, <1>13, <1>14 DEF IInv

LEMMA DeleteAccountStep ==
  ASSUME IInv, NEW a \in Account, DeleteAccount(a)
  PROVE  IInv'
<1>1. UNCHANGED <<batches, rows, up, uploads, whole, refused>> /\ Stored' = Stored
  BY DEF DeleteAccount, Stored
<1>2. TypeOK'
  BY <1>1 DEF DeleteAccount, IInv, TypeOK
<1>3. QED
  BY <1>1, <1>2 DEF IInv, AgainstTables, StoredOnce, NothingLost, RefusedOnlyIfRaced

LEMMA StutterStep == IInv /\ UNCHANGED vars => IInv'
<1> SUFFICES ASSUME IInv, UNCHANGED vars PROVE IInv'
  OBVIOUS
<1>1. Stored' = Stored
  BY DEF vars, Stored
<1>2. QED
  BY <1>1 DEF vars, IInv, TypeOK, AgainstTables, StoredOnce, NothingLost, RefusedOnlyIfRaced

LEMMA NextIInv == IInv /\ [Next]_vars => IInv'
<1> SUFFICES ASSUME IInv, [Next]_vars PROVE IInv'
  OBVIOUS
<1>1. ASSUME NEW t \in Tx, NEW a \in Account, NEW lines \in File, Start(t, a, lines)
      PROVE  IInv'
  BY <1>1, StartStep
<1>2. ASSUME NEW t \in Tx, Unparsable(t) \/ AccountGone(t) \/ Abort(t) \/ Victim(t)
      PROVE  IInv'
  <2>1. End(t) /\ UNCHANGED <<tables, uploads, whole>> /\ UNCHANGED refused
    BY <1>2 DEF Unparsable, AccountGone, Abort, Victim
  <2>2. QED
    BY <2>1, Refusals, EndStep
<1>3. ASSUME NEW t \in Tx, Advance(t) PROVE IInv'
  BY <1>2, <1>3, InsertBatchStep, ReadHashesStep, SkipLineStep, InsertRowStep,
     DuplicateStep, CommitStep DEF Advance
<1>4. ASSUME NEW a \in Account, DeleteAccount(a) PROVE IInv'
  BY <1>4, DeleteAccountStep
<1>5. CASE UNCHANGED vars
  BY <1>5, StutterStep
<1>6. QED
  BY <1>1, <1>2, <1>3, <1>4, <1>5 DEF Next, Quiet

-----------------------------------------------------------------------------
(* Theorems.                                                                 *)

(* Every variable keeps its type, the counts of the batches included.         *)
THEOREM TypeCorrect == Spec => []TypeOK
<1>1. IInv => TypeOK
  BY DEF IInv
<1>2. QED
  BY <1>1, InitIInv, NextIInv, PTL DEF Spec

(* No two rows of transactions have one hash, however many uploads of however *)
(* long files overlap.                                                        *)
THEOREM NoDoubleImport == Spec => []StoredOnce
<1>1. IInv => StoredOnce
  BY DEF IInv
<1>2. QED
  BY <1>1, InitIInv, NextIInv, PTL DEF Spec

(* Every line of a file that was answered with 201 is stored.                 *)
THEOREM ImportComplete == Spec => []NothingLost
<1>1. IInv => NothingLost
  BY DEF IInv
<1>2. QED
  BY <1>1, InitIInv, NextIInv, PTL DEF Spec

(* An upload that nothing overlapped is never refused by the unique index.    *)
THEOREM RefusalMeansRace == Spec => []RefusedOnlyIfRaced
<1>1. IInv => RefusedOnlyIfRaced
  BY DEF IInv
<1>2. QED
  BY <1>1, InitIInv, NextIInv, PTL DEF Spec

-----------------------------------------------------------------------------
(* The counts of the batches rest on a second invariant: an upload's number   *)
(* is its own, every row points to a stored batch, and the account of an      *)
(* upload that has inserted its batch row is there.                           *)

Holding(u) == u.pc \in {"hashes", "insert"}

Numbered ==
  /\ \A t \in Tx : Open(t) => up[t].id <= uploads
  /\ \A t, u \in Tx : t # u /\ Open(t) /\ Open(u) => up[t].id # up[u].id
  /\ \A b \in batches : b.id <= uploads /\ \A t \in Tx : Open(t) => b.id # up[t].id
  /\ \A r \in rows : \E b \in batches : b.id = r.batch
  /\ \A t \in Tx : Holding(up[t]) => up[t].acct \in accounts

BInv == IInv /\ Numbered /\ BatchesRight

(* Steps that open no upload, change no number and store nothing.             *)
LEMMA CalmStep ==
  ASSUME BInv, UNCHANGED <<tables, uploads>>,
         \A u \in Tx : Open(u)' => Open(u) /\ up'[u].id = up[u].id,
         \A u \in Tx : Holding(up'[u]) => up'[u].acct \in accounts
  PROVE  Numbered' /\ BatchesRight'
<1>1. batches' = batches /\ rows' = rows /\ accounts' = accounts /\ uploads' = uploads
  BY DEF tables
<1>2. Numbered'
  BY <1>1 DEF BInv, Numbered
<1>3. BatchesRight'
  BY <1>1 DEF BInv, BatchesRight
<1>4. QED
  BY <1>2, <1>3

(* Every step of an upload in progress but its commit is calm.                *)
LEMMA EndIsCalm ==
  ASSUME BInv, NEW t \in Tx, End(t), UNCHANGED <<tables, uploads>>
  PROVE  Numbered' /\ BatchesRight'
<1>1. \A u \in Tx : up'[u] = IF u = t THEN Idle ELSE up[u]
  BY DEF End, BInv, IInv, TypeOK
<1>2. \A u \in Tx : Open(u)' => Open(u) /\ up'[u].id = up[u].id
  BY <1>1, IdleFacts DEF Open
<1>3. \A u \in Tx : Holding(up'[u]) => up'[u].acct \in accounts
  BY <1>1, IdleFacts DEF Holding, BInv, Numbered
<1>4. QED
  BY <1>2, <1>3, CalmStep

LEMMA ProgressIsCalm ==
  ASSUME BInv, NEW t \in Tx,
         InsertBatch(t) \/ ReadHashes(t) \/ SkipLine(t) \/ InsertRow(t)
  PROVE  Numbered' /\ BatchesRight'
<1>1. up[t] \in Upload
  BY DEF BInv, IInv, TypeOK
<1>2. /\ UNCHANGED <<tables, uploads>>
      /\ \A u \in Tx \ {t} : up'[u] = up[u]
      /\ up'[t].id = up[t].id /\ up'[t].acct = up[t].acct
      /\ up[t].pc # "idle"
      /\ Holding(up[t]) \/ up[t].acct \in accounts
  <2>1. CASE InsertBatch(t)
    BY <1>1, <2>1 DEF InsertBatch, BInv, IInv, TypeOK, Upload
  <2>2. CASE ReadHashes(t)
    BY <1>1, <2>2 DEF ReadHashes, BInv, IInv, TypeOK, Upload, Holding
  <2>3. CASE SkipLine(t)
    BY <1>1, <2>3 DEF SkipLine, BInv, IInv, TypeOK, Upload, Holding
  <2>4. CASE InsertRow(t)
    BY <1>1, <2>4 DEF InsertRow, BInv, IInv, TypeOK, Upload, Holding
  <2>5. QED
    BY <2>1, <2>2, <2>3, <2>4
<1>3. \A u \in Tx : Open(u)' => Open(u) /\ up'[u].id = up[u].id
  BY <1>2 DEF Open
<1>4. up[t].acct \in accounts
  BY <1>2 DEF BInv, Numbered
<1>5. \A u \in Tx : Holding(up'[u]) => up'[u].acct \in accounts
  BY <1>2, <1>4 DEF BInv, Numbered
<1>6. QED
  BY <1>2, <1>3, <1>5, CalmStep

(* A new upload has the next number.                                          *)
LEMMA StartNumbered ==
  ASSUME BInv, NEW t \in Tx, NEW a \in Account, NEW lines \in File, Start(t, a, lines)
  PROVE  Numbered' /\ BatchesRight'
<1> DEFINE alone == \A u \in Tx \ {t} : ~Open(u)
           v == [Idle EXCEPT !.pc = "parse", !.id = uploads + 1, !.acct = a,
                             !.lines = lines, !.raced = ~alone]
<1>1. /\ up'[t].id = uploads + 1 /\ up'[t].pc = "parse"
      /\ \A u \in Tx \ {t} : up'[u] = [up[u] EXCEPT !.raced = Open(u)]
  <2>1. up' = [u \in Tx |-> IF u = t THEN v ELSE [up[u] EXCEPT !.raced = Open(u)]]
    BY DEF Start
  <2>2. v.id = uploads + 1 /\ v.pc = "parse"
    BY DEF Idle
  <2>3. QED
    BY <2>1, <2>2
<1> HIDE DEF alone, v
<1>2. \A u \in Tx \ {t} :
        up'[u].pc = up[u].pc /\ up'[u].id = up[u].id /\ up'[u].acct = up[u].acct
  <2>1. \A u \in Tx : up[u] \in Upload
    BY LineFacts DEF BInv
  <2>2. QED
    BY <1>1, <2>1 DEF Upload
<1>3. /\ UNCHANGED <<accounts, batches, rows>> /\ uploads' = uploads + 1
      /\ uploads \in Nat
      /\ \A u \in Tx : up[u].id \in Nat
      /\ \A b \in batches : b.id \in Nat
  <2>1. UNCHANGED <<accounts, batches, rows>> /\ uploads' = uploads + 1
    BY DEF Start, tables
  <2>2. uploads \in Nat
    BY ImportAssumption DEF BInv, IInv, TypeOK
  <2>3. Batch \subseteq Nat
    BY ImportAssumption DEF Batch
  <2>4. \A u \in Tx : up[u].id \in Nat
    <3>1. \A u \in Tx : up[u] \in Upload
      BY LineFacts DEF BInv
    <3>2. \A u \in Tx : up[u].id \in Batch \cup {0}
      BY <3>1 DEF Upload
    <3>3. QED
      BY <2>3, <3>2, 0 \in Nat
  <2>5. \A b \in batches : b.id \in Batch
    BY DEF BInv, IInv, TypeOK
  <2>6. QED
    BY <2>1, <2>2, <2>3, <2>4, <2>5
<1>4. Numbered'
  <2>1. \A u \in Tx : Open(u)' => up'[u].id <= uploads + 1
    BY <1>1, <1>2, <1>3 DEF Open, BInv, Numbered
  <2>2. \A u, s \in Tx : u # s /\ Open(u)' /\ Open(s)' => up'[u].id # up'[s].id
    <3>1. \A u \in Tx \ {t} : Open(u)' => up'[u].id # uploads + 1
      BY <1>2, <1>3 DEF Open, BInv, Numbered
    <3>2. QED
      BY <1>1, <1>2, <3>1 DEF Open, BInv, Numbered
  <2>3. \A b \in batches :
          b.id <= uploads + 1 /\ \A u \in Tx : Open(u)' => b.id # up'[u].id
    BY <1>1, <1>2, <1>3 DEF Open, BInv, Numbered
  <2>4. \A u \in Tx : Holding(up'[u]) => up'[u].acct \in accounts
    BY <1>1, <1>2 DEF Holding, BInv, Numbered
  <2>5. QED
    BY <1>3, <2>1, <2>2, <2>3, <2>4 DEF BInv, Numbered
<1>5. BatchesRight'
  BY <1>3 DEF BInv, BatchesRight
<1>6. QED
  BY <1>4, <1>5

(* As many rows as hashes.                                                    *)
LEMMA RowsOfHashes ==
  ASSUME NEW i, NEW H, IsFiniteSet(H)
  PROVE  Cardinality({[batch |-> i, hash |-> h] : h \in H}) = Cardinality(H)
<1> DEFINE R == {[batch |-> i, hash |-> h] : h \in H}
           f == [h \in H |-> [batch |-> i, hash |-> h]]
<1>1. f \in [H -> R]
  OBVIOUS
<1>2. \A x, y \in H : f[x] = f[y] => x = y
  OBVIOUS
<1>3. \A r \in R : \E h \in H : f[h] = r
  OBVIOUS
<1>4. f \in Bijection(H, R)
  BY <1>1, <1>2, <1>3 DEF Bijection, Injection, Surjection, IsInjective
<1>5. QED
  BY <1>4, FS_Bijection DEF ExistsBijection

LEMMA CommitCounts ==
  ASSUME BInv, NEW t \in Tx, Commit(t)
  PROVE  Numbered' /\ BatchesRight'
<1> DEFINE new == {[batch |-> up[t].id, hash |-> h] : h \in up[t].own}
           b0 == [id |-> up[t].id, account |-> up[t].acct, row_count |-> RowCount(t)]
<1>1. /\ rows' = rows \cup new /\ batches' = batches \cup {b0}
      /\ accounts' = accounts /\ uploads' = uploads
      /\ up[t].pc = "insert"
  BY DEF Commit
<1>2. \A u \in Tx : up'[u] = IF u = t THEN Idle ELSE up[u]
  BY DEF Commit, End, BInv, IInv, TypeOK
<1>3. Open(t) /\ up[t].acct \in accounts
  BY <1>1 DEF Open, Holding, BInv, Numbered
<1>4. \A r \in new : r.batch = up[t].id
  OBVIOUS
<1>5. \A r \in rows : r.batch # up[t].id
  BY <1>3 DEF BInv, Numbered
<1>6. Numbered'
  <2>1. \A u \in Tx : Open(u)' => u # t /\ Open(u) /\ up'[u] = up[u]
    BY <1>2, IdleFacts DEF Open
  <2>2. \A u \in Tx : Holding(up'[u]) => up'[u].acct \in accounts
    BY <1>2, IdleFacts DEF Holding, BInv, Numbered
  <2>3. \A b \in batches' :
          b.id <= uploads /\ \A u \in Tx : Open(u)' => b.id # up'[u].id
    BY <1>1, <1>3, <2>1 DEF BInv, Numbered
  <2>4. \A r \in rows' : \E b \in batches' : b.id = r.batch
    <3>1. \A r \in rows : \E b \in batches : b.id = r.batch
      BY DEF BInv, Numbered
    <3>2. b0 \in batches' /\ b0.id = up[t].id
      BY <1>1
    <3>3. QED
      BY <1>1, <1>4, <3>1, <3>2
  <2>5. QED
    BY <1>1, <2>1, <2>2, <2>3, <2>4 DEF BInv, Numbered
<1>7. ASSUME NEW b \in batches'
      PROVE  b.row_count = Cardinality({r \in rows' : r.batch = b.id}) /\ b.account \in accounts
  <2>1. CASE b = b0
    <3>1. {r \in rows' : r.batch = up[t].id} = new
      BY <1>1, <1>4, <1>5
    <3>2. IsFiniteSet(up[t].own)
      BY DEF BInv, IInv, Bookkeeping
    <3>3. Cardinality(new) = Cardinality(up[t].own)
      BY <3>2, RowsOfHashes
    <3>4. QED
      BY <1>3, <2>1, <3>1, <3>3 DEF RowCount
  <2>2. CASE b \in batches
    <3>1. b.id # up[t].id
      BY <1>3, <2>2 DEF BInv, Numbered
    <3>2. {r \in rows' : r.batch = b.id} = {r \in rows : r.batch = b.id}
      BY <1>1, <1>4, <3>1
    <3>3. QED
      BY <2>2, <3>2 DEF BInv, BatchesRight
  <2>3. QED
    BY <1>1, <2>1, <2>2
<1>8. BatchesRight'
  BY <1>1, <1>7 DEF BatchesRight
<1>9. QED
  BY <1>6, <1>8

LEMMA DeleteKeepsBatches ==
  ASSUME BInv, NEW a \in Account, DeleteAccount(a)
  PROVE  Numbered' /\ BatchesRight'
<1>1. UNCHANGED <<batches, rows, up, uploads>> /\ accounts' = accounts \ {a}
  BY DEF DeleteAccount
<1>2. \A t \in Tx : Holding(up[t]) => up[t].acct # a
  BY DEF DeleteAccount, Unreferenced, HoldsAccount, Holding
<1>3. Numbered'
  BY <1>1, <1>2 DEF BInv, Numbered, Open
<1>4. BatchesRight'
  BY <1>1 DEF DeleteAccount, Unreferenced, BInv, BatchesRight
<1>5. QED
  BY <1>3, <1>4

LEMMA NextBInv == BInv /\ [Next]_vars => BInv'
<1> SUFFICES ASSUME BInv, [Next]_vars PROVE Numbered' /\ BatchesRight'
  BY NextIInv DEF BInv
<1>1. ASSUME NEW t \in Tx, NEW a \in Account, NEW lines \in File, Start(t, a, lines)
      PROVE  Numbered' /\ BatchesRight'
  BY <1>1, StartNumbered
<1>2. ASSUME NEW t \in Tx,
             Unparsable(t) \/ AccountGone(t) \/ Abort(t) \/ Victim(t) \/ Duplicate(t)
      PROVE  Numbered' /\ BatchesRight'
  <2>1. End(t) /\ UNCHANGED <<tables, uploads>>
    BY <1>2 DEF Unparsable, AccountGone, Abort, Victim, Duplicate
  <2>2. QED
    BY <2>1, EndIsCalm
<1>3. ASSUME NEW t \in Tx, Advance(t) PROVE Numbered' /\ BatchesRight'
  BY <1>2, <1>3, ProgressIsCalm, CommitCounts DEF Advance
<1>4. ASSUME NEW a \in Account, DeleteAccount(a) PROVE Numbered' /\ BatchesRight'
  BY <1>4, DeleteKeepsBatches
<1>5. CASE UNCHANGED vars
  BY <1>5, CalmStep DEF vars, tables, Open, BInv, Numbered
<1>6. QED
  BY <1>1, <1>2, <1>3, <1>4, <1>5 DEF Next, Quiet

LEMMA InitBInv == Init => BInv
<1> SUFFICES ASSUME Init PROVE Numbered /\ BatchesRight
  BY InitIInv DEF BInv
<1>1. \A t \in Tx : up[t] = Idle
  BY DEF Init
<1>2. QED
  BY <1>1, IdleFacts DEF Init, Numbered, BatchesRight, Open, Holding

(* Every batch counts its rows and belongs to an account that exists.         *)
THEOREM BatchCounts == Spec => []BatchesRight
<1>1. BInv => BatchesRight
  BY DEF BInv
<1>2. QED
  BY <1>1, InitBInv, NextBInv, PTL DEF Spec

-----------------------------------------------------------------------------
(* Uploads are serializable.  The third invariant says where the hashes come  *)
(* from: an upload inserts hashes of lines of its file only.                  *)

FileHashes(u) == {ComputeHash(u.acct, u.lines[i]) : i \in DOMAIN u.lines}

FromFile == \A t \in Tx : up[t].own \subseteq FileHashes(up[t])

LEMMA InitFromFile == Init => FromFile
BY IdleFacts DEF Init, FromFile

LEMMA NextFromFile == BInv /\ FromFile /\ [Next]_vars => FromFile'
<1> SUFFICES ASSUME BInv, FromFile, [Next]_vars PROVE FromFile'
  OBVIOUS
<1>1. \A t \in Tx : up[t] \in Upload
  BY DEF BInv, IInv, TypeOK
<1>2. ASSUME NEW t \in Tx, NEW a \in Account, NEW lines \in File, Start(t, a, lines)
      PROVE  FromFile'
  <2>1. \A u \in Tx : \/ up'[u].own = {}
                     \/ /\ up'[u].own = up[u].own /\ up'[u].acct = up[u].acct
                        /\ up'[u].lines = up[u].lines
    <3>1. \A u \in Tx : up'[u] = IF u = t THEN [Idle EXCEPT !.pc = "parse", !.id = uploads + 1,
                              !.acct = a, !.lines = lines,
                              !.raced = ~(\A v \in Tx \ {t} : ~Open(v))]
                            ELSE [up[u] EXCEPT !.raced = Open(u)]
      BY <1>2 DEF Start
    <3>2. up'[t].own = {}
      BY <3>1 DEF Idle
    <3>3. \A u \in Tx \ {t} : /\ up'[u].own = up[u].own /\ up'[u].acct = up[u].acct
                              /\ up'[u].lines = up[u].lines
      BY <1>1, <3>1 DEF Upload
    <3>4. QED
      BY <3>2, <3>3
  <2>2. QED
    BY <2>1 DEF FromFile, FileHashes
<1>3. ASSUME NEW t \in Tx, End(t) PROVE FromFile'
  <2>1. \A u \in Tx : up'[u] = IF u = t THEN Idle ELSE up[u]
    BY <1>3 DEF End, BInv, IInv, TypeOK
  <2>2. QED
    BY <2>1, IdleFacts DEF FromFile
<1>4. ASSUME NEW t \in Tx, InsertBatch(t) \/ ReadHashes(t) \/ SkipLine(t) \/ InsertRow(t)
      PROVE  FromFile'
  <2>1. /\ \A u \in Tx \ {t} : up'[u] = up[u]
        /\ up'[t].acct = up[t].acct /\ up'[t].lines = up[t].lines
        /\ \/ up'[t].own = up[t].own
           \/ More(t) /\ up'[t].own = up[t].own \cup {HashNow(t)}
    <3>1. CASE InsertBatch(t) \/ ReadHashes(t) \/ SkipLine(t)
      BY <1>1, <3>1 DEF InsertBatch, ReadHashes, SkipLine, BInv, IInv, TypeOK, Upload
    <3>2. CASE InsertRow(t)
      BY <1>1, <3>2 DEF InsertRow, BInv, IInv, TypeOK, Upload
    <3>3. QED
      BY <1>4, <3>1, <3>2
  <2>2. More(t) => HashNow(t) \in FileHashes(up[t])
    BY DEF More, HashNow, FileHashes
  <2>3. FileHashes(up'[t]) = FileHashes(up[t])
    BY <2>1 DEF FileHashes
  <2>4. \A u \in Tx : up'[u].own \subseteq FileHashes(up'[u])
    BY <2>1, <2>2, <2>3 DEF FromFile
  <2>5. QED
    BY <2>4 DEF FromFile, FileHashes
<1>5. ASSUME UNCHANGED up PROVE FromFile'
  BY <1>5 DEF FromFile, FileHashes
<1>6. ASSUME NEW t \in Tx, Advance(t) \/ Abort(t) PROVE FromFile'
  <2>1. End(t) \/ InsertBatch(t) \/ ReadHashes(t) \/ SkipLine(t) \/ InsertRow(t)
    BY <1>6 DEF Advance, Abort, Unparsable, AccountGone, Duplicate, Commit, Victim
  <2>2. QED
    BY <1>3, <1>4, <2>1
<1>7. ASSUME UNCHANGED vars \/ Quiet \/ \E a \in Account : DeleteAccount(a) PROVE FromFile'
  <2>1. UNCHANGED up
    BY <1>7 DEF vars, Quiet, DeleteAccount
  <2>2. QED
    BY <1>5, <2>1
<1>8. QED
  BY <1>2, <1>6, <1>7 DEF Next

(* What an upload has inserted when it commits is what its file has and the   *)
(* table has not, at this moment.                                             *)
LEMMA InsertedIsNew ==
  ASSUME BInv, FromFile, NEW t \in Tx, Commit(t)
  PROVE  up[t].own = FileHashes(up[t]) \ Stored
<1>1. Bookkeeping(up[t]) /\ AgainstTables(up[t]) /\ up[t].own \subseteq FileHashes(up[t])
  BY DEF BInv, IInv, FromFile
<1>2. up[t].next \in 1 .. MaxLines + 1 /\ ~(up[t].next \in DOMAIN up[t].lines)
  BY LineFacts DEF BInv, Commit, More
<1>3. \A i \in DOMAIN up[t].lines : i < up[t].next
  BY <1>2, LineFacts, ImportAssumption DEF BInv
<1>4. \A i \in DOMAIN up[t].lines : ComputeHash(up[t].acct, up[t].lines[i]) \in up[t].known \cup up[t].own
  BY <1>1, <1>3 DEF Bookkeeping, LineDone
<1>5. QED
  BY <1>1, <1>4 DEF FileHashes, AgainstTables

LEMMA SameCardinality == \A S : Serial!Cardinality(S) = Cardinality(S)
BY DEF Serial!Cardinality, Cardinality

LEMMA CommitIsUpload ==
  ASSUME BInv, FromFile, NEW t \in Tx, Commit(t)
  PROVE  Serial!Next
<1> DEFINE u == up[t]
           lines == {u.lines[i] : i \in DOMAIN u.lines}
           new == ({u.acct} \X lines) \ Stored
<1>1. u \in Upload /\ u.pc = "insert" /\ lines \in SUBSET Line
  BY LineFacts DEF BInv, IInv, TypeOK, Commit
<1>2. u.id \in Batch /\ u.acct \in Account /\ u.acct \in accounts
  BY <1>1 DEF BInv, IInv, Bookkeeping, Numbered, Holding, Upload
<1>3. \A b \in batches : b.id # u.id
  BY <1>1 DEF BInv, Numbered, Open
<1>4. u.own = new
  <2>1. FileHashes(u) = {u.acct} \X lines
    BY DEF FileHashes, ComputeHash
  <2>2. QED
    BY <2>1, InsertedIsNew
<1>5. /\ batches' = batches \cup {[id |-> u.id, account |-> u.acct, row_count |-> Cardinality(new)]}
      /\ rows' = rows \cup {[batch |-> u.id, hash |-> h] : h \in new}
      /\ accounts' = accounts
  BY <1>4 DEF Commit, RowCount
<1> HIDE DEF u, lines
<1>6. Serial!Upload(u.id, u.acct, lines)
  BY <1>2, <1>3, <1>5, SameCardinality DEF Serial!Upload, Serial!Stored, Stored
<1>7. QED
  BY <1>1, <1>2, <1>6 DEF Serial!Next

(* Though uploads overlap in a READ COMMITTED database, and fail at any       *)
(* stage, what is committed is what uploads one at a time leave (SerialImport).*)
THEOREM UploadsSerializable == Spec => SerialSpec
<1>1. Init => Serial!Init
  BY DEF Init, Serial!Init
<1>2. BInv /\ FromFile /\ [Next]_vars => [Serial!Next]_Serial!vars
  <2> SUFFICES ASSUME BInv, FromFile, [Next]_vars PROVE Serial!Next \/ UNCHANGED tables
    BY DEF Serial!vars, tables
  <2>1. ASSUME NEW t \in Tx, NEW a \in Account, NEW lines \in File, Start(t, a, lines)
        PROVE  UNCHANGED tables
    BY <2>1 DEF Start
  <2>2. ASSUME NEW t \in Tx, Abort(t) \/ Advance(t) PROVE UNCHANGED tables \/ Commit(t)
    BY <2>2 DEF Advance, Abort, Unparsable, InsertBatch, AccountGone, ReadHashes, SkipLine,
                InsertRow, Duplicate, Victim
  <2>3. ASSUME NEW a \in Account, DeleteAccount(a) PROVE Serial!Next
    <3>1. Serial!Delete(a)
      BY <2>3 DEF DeleteAccount, Unreferenced, Serial!Delete
    <3>2. QED
      BY <3>1 DEF Serial!Next
  <2>4. ASSUME UNCHANGED vars \/ Quiet PROVE UNCHANGED tables
    BY <2>4 DEF Quiet, vars, tables
  <2>5. QED
    BY <2>1, <2>2, <2>3, <2>4, CommitIsUpload DEF Next
<1>3. QED
  BY <1>1, <1>2, InitBInv, NextBInv, InitFromFile, NextFromFile, PTL DEF Spec, SerialSpec, Serial!Spec

=============================================================================
