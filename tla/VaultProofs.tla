----------------------------- MODULE VaultProofs -----------------------------
(***************************************************************************)
(* Theorems about Vault for any rows, columns, values, keys and requests.    *)
(***************************************************************************)
EXTENDS Vault, TLAPS

(* Two requests never hold conflicting locks on a row.                       *)
LocksOK == \A r \in Row : \A k, l \in lock[r] : k[1] # l[1] => ~Conflict(k[2], l[2])

(* A request that is over has left nothing behind.                           *)
Clean(t) ==
  pc[t] = "idle" => /\ todo[t] = {} /\ entries[t] = <<>>
                    /\ \A r \in Row : writes[t][r] = NoWrite

(* The row's beginning is known: logged, or archived with the intake.        *)
Known(r) == Logged("create", r) \/ seeded[r] # Absent

(* What it has still to write existed when it was loaded or found.           *)
TodoOK(t) ==
  \A r \in todo[t] : /\ seen[t][r] \in Image /\ Known(r)
                     /\ \A i \in DOMAIN entries[t] : entries[t][i].row # r
                     /\ kind[t] = "prices" => Key \cap DOMAIN patch[t][r] = {}

(* It has an entry for the write of r that holds the values f it sets.       *)
Noted(t, act, r, f) ==
  \E i \in DOMAIN entries[t] :
    /\ entries[t][i].act = act /\ entries[t][i].row = r
    /\ \A c \in DOMAIN f : entries[t][i].after[c] = f[c]

Unlogged(r) == \A i \in DOMAIN audit : audit[i].row # r

(* p cannot go away before t ends: t keeps it from being deleted, or has      *)
(* inserted it.                                                              *)
Anchored(t, p) ==
  \/ Exists(p) /\ <<t, "key share">> \in lock[p]
  \/ writes[t][p].op = "insert"

KeysOK(t, r, f) ==
  \A k \in Key \cap DOMAIN f : f[k] \in Target[r][k] /\ (f[k] # NoRow => Anchored(t, f[k]))

(* What it wrote and not committed is backed by its locks and its entries.   *)
InsertOK(t, r) ==
  /\ kind[t] \in {"create", "intake"} /\ r \in born
  /\ ~Exists(r) /\ Unlogged(r) /\ seeded[r] = Absent
  /\ kind[t] = "create" => Noted(t, "create", r, writes[t][r].cols)
  /\ KeysOK(t, r, writes[t][r].cols)

SetOK(t, r) ==
  /\ kind[t] \in {"update", "values", "price", "prices"}
  /\ Exists(r) /\ Known(r) /\ <<t, "no key update">> \in lock[r]
  /\ kind[t] \notin {"price", "prices"} => Noted(t, "update", r, writes[t][r].cols)
  /\ \A c \in DOMAIN writes[t][r].cols :
       c \in DOMAIN patch[t][r] /\ writes[t][r].cols[c] = patch[t][r][c]
  /\ KeysOK(t, r, writes[t][r].cols)

DeleteOK(t, r) ==
  /\ kind[t] = "delete" /\ Exists(r) /\ Known(r)
  /\ <<t, "update">> \in lock[r] /\ Children(r) = {}
  /\ Noted(t, "delete", r, <<>>)

WriteOK(t, r) ==
  /\ writes[t][r].op = "insert" => InsertOK(t, r)
  /\ writes[t][r].op = "set" => SetOK(t, r)
  /\ writes[t][r].op = "delete" => DeleteOK(t, r)

(* An entry it has noted is true of what it wrote, or of a row that is gone.  *)
EntryOK(t, e) ==
  /\ kind[t] \notin {"intake", "price", "prices"}
  /\ e.act = "create" => kind[t] = "create" /\ writes[t][e.row].op = "insert"
  /\ e.act # "create" => Known(e.row)
  /\ e.act = "delete" => writes[t][e.row].op = "delete" \/ ~Exists(e.row)

(* Ids are handed out once.                                                  *)
IdsOK ==
  /\ \A r \in Row : Exists(r) \/ seeded[r] # Absent => r \in born
  /\ \A i \in DOMAIN audit : audit[i].row \in born
  /\ \A t, u \in Tx, r \in Row :
       writes[t][r].op = "insert" /\ writes[u][r].op = "insert" => t = u

(* What holds of each request.                                               *)
Sound(t) ==
  /\ Clean(t) /\ TodoOK(t)
  /\ \A r \in Row : WriteOK(t, r)
  /\ \A i \in DOMAIN entries[t] : EntryOK(t, entries[t][i])

IInv ==
  /\ TypeOK /\ LocksOK /\ IdsOK /\ LifecycleAudited /\ NoOrphans
  /\ \A t \in Tx : Sound(t)

-----------------------------------------------------------------------------
(* Rows, writes and sequences.                                               *)

LEMMA WriteFacts ==
  /\ NoWrite \in WriteOps /\ NoWrite.op = "none"
  /\ Deletion \in WriteOps /\ Deletion.op = "delete"
  /\ \A img \in Image : /\ Insert(img) \in WriteOps
                        /\ Insert(img).op = "insert" /\ Insert(img).cols = img
  /\ \A f \in Patch : SetTo(f) \in WriteOps /\ SetTo(f).op = "set" /\ SetTo(f).cols = f
  /\ \A w \in WriteOps : /\ w.op \in {"none", "delete", "insert", "set"}
                         /\ w.op = "insert" => w.cols \in Image
                         /\ w.op = "set" => w.cols \in Patch
<1>1. /\ NoWrite \in WriteOps /\ NoWrite.op = "none"
      /\ Deletion \in WriteOps /\ Deletion.op = "delete"
  BY DEF WriteOps, NoWrite, Deletion
<1>2. \A img \in Image : /\ Insert(img) \in WriteOps
                         /\ Insert(img).op = "insert" /\ Insert(img).cols = img
  BY DEF WriteOps, Insert
<1>3. \A f \in Patch : SetTo(f) \in WriteOps /\ SetTo(f).op = "set" /\ SetTo(f).cols = f
  BY DEF WriteOps, SetTo
<1>4. ASSUME NEW w \in WriteOps
      PROVE  /\ w.op \in {"none", "delete", "insert", "set"}
             /\ w.op = "insert" => w.cols \in Image
             /\ w.op = "set" => w.cols \in Patch
  <2>1. CASE w \in {NoWrite, Deletion}
    BY <2>1 DEF NoWrite, Deletion
  <2>2. CASE \E img \in Image : w = Insert(img)
    BY <2>2 DEF Insert
  <2>3. CASE \E f \in Patch : w = SetTo(f)
    BY <2>3 DEF SetTo
  <2>4. QED
    BY <2>1, <2>2, <2>3 DEF WriteOps
<1>5. QED
  BY <1>1, <1>2, <1>3, <1>4

LEMMA PatchFacts ==
  /\ <<>> \in Patch /\ Image \subseteq Patch
  /\ \A v \in Val : PriceOf(v) \in Patch
  /\ \A f \in Patch : DOMAIN f \subseteq Col /\ \A c \in DOMAIN f : f[c] \in Cell(c)
  /\ \A f \in Patch : \A k \in Key \cap DOMAIN f : f[k] \in Row \cup {NoRow}
  /\ \A img \in Image : DOMAIN img = Col /\ \A k \in Key : img[k] \in Row \cup {NoRow}
  /\ \A f \in Patch, img \in Image : Over(f, img) \in Image
<1>1. \A f \in Patch : DOMAIN f \subseteq Col /\ \A c \in DOMAIN f : f[c] \in Cell(c)
  BY DEF Patch, Typed
<1>2. \A img \in Image : /\ img \in [Col -> Cells] /\ \A c \in Col : img[c] \in Cell(c)
  BY DEF Image, Typed
<1>3. ASSUME NEW f \in Patch, NEW img \in Image PROVE Over(f, img) \in Image
  <2>1. \A c \in Col : Over(f, img)[c] \in Cell(c)
    BY <1>1, <1>2 DEF Over
  <2>2. \A c \in Col : Cell(c) \subseteq Cells
    BY DEF Cell, Cells
  <2>3. Over(f, img) \in [Col -> Cells]
    BY <2>1, <2>2 DEF Over
  <2>4. QED
    BY <2>1, <2>3 DEF Image, Typed
<1>4. <<>> \in Patch
  <2>1. <<>> \in [{} -> Cells] /\ DOMAIN <<>> = {}
    OBVIOUS
  <2>2. QED
    BY <2>1 DEF Patch, Typed
<1>5. ASSUME NEW v \in Val PROVE PriceOf(v) \in Patch
  <2>1. /\ PriceOf(v) \in [{Price} -> Cells] /\ DOMAIN PriceOf(v) = {Price}
        /\ PriceOf(v)[Price] = v
    BY DEF PriceOf, Cells
  <2>2. {Price} \in SUBSET Col /\ Price \notin Key
    BY VaultAssumption
  <2>3. Typed(PriceOf(v))
    BY <2>1, <2>2 DEF Typed, Cell
  <2>4. QED
    BY <2>1, <2>2, <2>3 DEF Patch
<1>6. Image \subseteq Patch
  BY DEF Image, Patch
<1>7. \A k \in Key : k \in Col /\ Cell(k) = Row \cup {NoRow}
  BY VaultAssumption DEF Cell
<1>8. QED
  BY <1>1, <1>2, <1>3, <1>4, <1>5, <1>6, <1>7

LEMMA ConcatFacts ==
  ASSUME NEW S, NEW s \in Seq(S), NEW e \in Seq(S)
  PROVE  /\ s \o e \in Seq(S)
         /\ \A i \in DOMAIN s : i \in DOMAIN (s \o e) /\ (s \o e)[i] = s[i]
         /\ \A i \in DOMAIN e : Len(s) + i \in DOMAIN (s \o e) /\ (s \o e)[Len(s) + i] = e[i]
         /\ \A i \in DOMAIN (s \o e) : \/ i \in DOMAIN s
                                       \/ i - Len(s) \in DOMAIN e /\ (s \o e)[i] = e[i - Len(s)]
OBVIOUS

LEMMA AppendFacts ==
  ASSUME NEW S, NEW s \in Seq(S), NEW e \in S
  PROVE  /\ Append(s, e) \in Seq(S)
         /\ \A i \in DOMAIN s : i \in DOMAIN Append(s, e) /\ Append(s, e)[i] = s[i]
         /\ Len(s) + 1 \in DOMAIN Append(s, e) /\ Append(s, e)[Len(s) + 1] = e
         /\ \A i \in DOMAIN Append(s, e) : i \in DOMAIN s \/ Append(s, e)[i] = e
OBVIOUS

LEMMA EntryFacts ==
  /\ \A a \in {"create", "update", "delete"}, r \in Row, b, c \in Image \cup {Absent} :
       [act |-> a, row |-> r, before |-> b, after |-> c] \in Entry
  /\ \A e \in Entry : e.act \in {"create", "update", "delete"} /\ e.row \in Row
BY DEF Entry

LEMMA Types ==
  ASSUME TypeOK
  PROVE  /\ store \in [Row -> Image \cup {Absent}] /\ audit \in Seq(Entry)
         /\ writes \in [Tx -> [Row -> WriteOps]] /\ entries \in [Tx -> Seq(Entry)]
         /\ todo \in [Tx -> SUBSET Row] /\ lock \in [Row -> SUBSET (Tx \X Modes)]
         /\ seen \in [Tx -> [Row -> Image \cup {Absent}]]
         /\ patch \in [Tx -> [Row -> Patch]]
         /\ \A r \in Row : Exists(r) <=> store[r] \in Image
BY VaultAssumption DEF TypeOK, Exists

LEMMA InitInv == Init => IInv
<1> SUFFICES ASSUME Init PROVE IInv
  OBVIOUS
<1>1. TypeOK
  <2>1. NoRows \in [Row -> Image \cup {Absent}] /\ NoPatch \in [Row -> Patch]
    BY PatchFacts DEF NoRows, NoPatch
  <2>2. NothingWritten \in [Row -> WriteOps]
    BY WriteFacts DEF NothingWritten
  <2>3. QED
    BY <2>1, <2>2, VaultAssumption DEF Init, TypeOK, Kinds
<1>2. /\ \A t \in Tx, r \in Row : writes[t][r] = NoWrite
      /\ \A t \in Tx : entries[t] = <<>> /\ todo[t] = {}
      /\ \A r \in Row : ~Exists(r) /\ lock[r] = {} /\ seeded[r] = Absent
      /\ audit = <<>>
  BY DEF Init, NothingWritten, NoRows, Exists
<1>3. LocksOK /\ IdsOK /\ LifecycleAudited /\ NoOrphans
  BY <1>2, WriteFacts DEF LocksOK, IdsOK, LifecycleAudited, NoOrphans, Logged
<1>4. \A t \in Tx, r \in Row : WriteOK(t, r)
  BY <1>2, WriteFacts DEF WriteOK
<1>5. QED
  BY <1>1, <1>2, <1>3, <1>4 DEF IInv, Sound, Clean, TodoOK

-----------------------------------------------------------------------------
(* Steps that leave the tables alone.                                        *)

TablesRest ==
  store' = store /\ audit' = audit /\ seeded' = seeded /\ born \subseteq born'

LEMMA TablesFacts ==
  ASSUME TablesRest
  PROVE  /\ \A r \in Row : (Exists(r)' <=> Exists(r)) /\ (Unlogged(r)' <=> Unlogged(r))
         /\ \A r \in Row : Children(r)' = Children(r)
         /\ \A r \in Row : Known(r)' <=> Known(r)
         /\ \A r \in Row : r \in born => r \in born'
BY DEF TablesRest, Exists, Unlogged, Children, Logged, Known

(* What t has written of r is still backed.                                  *)
LEMMA WriteKept ==
  ASSUME TypeOK, NEW t \in Tx, NEW r \in Row, WriteOK(t, r), TablesRest,
         writes'[t][r] = writes[t][r], kind'[t] = kind[t], patch'[t][r] = patch[t][r],
         \A s \in Row, m \in Modes : <<t, m>> \in lock[s] => <<t, m>> \in lock'[s],
         \A a, f : Noted(t, a, r, f) => Noted(t, a, r, f)',
         \A p \in Row : writes[t][p].op = "insert" => writes'[t][p].op = "insert"
  PROVE  WriteOK(t, r)'
<1>1. \A p \in Row : Anchored(t, p) => Anchored(t, p)'
  <2>1. "key share" \in Modes
    BY DEF Modes
  <2>2. QED
    BY <2>1, TablesFacts DEF Anchored
<1>2. /\ writes[t][r].op = "insert" => writes[t][r].cols \in Patch
      /\ writes[t][r].op = "set" => writes[t][r].cols \in Patch
  BY Types, WriteFacts, PatchFacts
<1>3. ASSUME NEW f \in Patch, KeysOK(t, r, f) PROVE KeysOK(t, r, f)'
  BY <1>1, <1>3, PatchFacts DEF KeysOK
<1>4. CASE writes[t][r].op = "insert"
  <2>1. InsertOK(t, r)
    BY <1>4 DEF WriteOK
  <2>2. seeded' = seeded
    BY DEF TablesRest
  <2>3. KeysOK(t, r, writes[t][r].cols)'
    BY <1>2, <1>3, <1>4, <2>1 DEF InsertOK
  <2>4. InsertOK(t, r)'
    BY <2>1, <2>2, <2>3, TablesFacts DEF InsertOK
  <2>5. QED
    BY <1>4, <2>4 DEF WriteOK
<1>5. CASE writes[t][r].op = "set"
  <2>1. SetOK(t, r)
    BY <1>5 DEF WriteOK
  <2>2. "no key update" \in Modes
    BY DEF Modes
  <2>3. KeysOK(t, r, writes[t][r].cols)'
    BY <1>2, <1>3, <1>5, <2>1 DEF SetOK
  <2>4. SetOK(t, r)'
    BY <2>1, <2>2, <2>3, TablesFacts DEF SetOK
  <2>5. QED
    BY <1>5, <2>4 DEF WriteOK
<1>6. CASE writes[t][r].op = "delete"
  <2>1. DeleteOK(t, r) /\ "update" \in Modes
    BY <1>6 DEF WriteOK, Modes
  <2>2. DeleteOK(t, r)'
    BY <2>1, TablesFacts DEF DeleteOK
  <2>3. QED
    BY <1>6, <2>2 DEF WriteOK
<1>7. QED
  BY <1>4, <1>5, <1>6 DEF WriteOK

(* The requests other than t stay as they are and keep their locks.          *)
OthersRest(t) ==
  /\ \A u \in Tx \ {t} :
       /\ pc'[u] = pc[u] /\ kind'[u] = kind[u] /\ patch'[u] = patch[u]
       /\ seen'[u] = seen[u] /\ todo'[u] = todo[u]
       /\ writes'[u] = writes[u] /\ entries'[u] = entries[u]
  /\ \A r \in Row : \A l \in lock[r] : l[1] # t => l \in lock'[r]

LEMMA OthersSound ==
  ASSUME IInv, NEW t \in Tx, OthersRest(t), TablesRest
  PROVE  \A u \in Tx \ {t} : Sound(u)'
<1> SUFFICES ASSUME NEW u \in Tx \ {t} PROVE Sound(u)'
  OBVIOUS
<1>1. Sound(u) /\ TypeOK
  BY DEF IInv
<1>2. /\ pc'[u] = pc[u] /\ kind'[u] = kind[u] /\ patch'[u] = patch[u]
      /\ seen'[u] = seen[u] /\ todo'[u] = todo[u]
      /\ writes'[u] = writes[u] /\ entries'[u] = entries[u]
      /\ \A r \in Row : \A l \in lock[r] : l[1] # t => l \in lock'[r]
  BY DEF OthersRest
<1>3. \A a, r, f : Noted(u, a, r, f) => Noted(u, a, r, f)'
  BY <1>2 DEF Noted
<1>4. Clean(u)' /\ TodoOK(u)'
  BY <1>1, <1>2, TablesFacts, Types DEF Sound, Clean, TodoOK
<1>5. ASSUME NEW r \in Row PROVE WriteOK(u, r)'
  <2>1. WriteOK(u, r)
    BY <1>1 DEF Sound
  <2>2. \A s \in Row, m \in Modes : <<u, m>> \in lock[s] => <<u, m>> \in lock'[s]
    BY <1>2
  <2>3. QED
    BY <1>1, <1>2, <1>3, <2>1, <2>2, WriteKept
<1>6. ASSUME NEW i \in DOMAIN entries'[u] PROVE EntryOK(u, entries[u][i])'
  <2>1. EntryOK(u, entries[u][i]) /\ entries[u][i].row \in Row
    BY <1>1, <1>2, Types, EntryFacts DEF Sound
  <2>2. QED
    BY <1>2, <2>1, TablesFacts DEF EntryOK
<1>7. QED
  BY <1>4, <1>5, <1>6 DEF Sound

LEMMA TablesSame ==
  ASSUME IInv, TablesRest
  PROVE  /\ LifecycleAudited' /\ NoOrphans'
         /\ \A r \in Row : (Exists(r) \/ seeded[r] # Absent)' => r \in born'
         /\ \A i \in DOMAIN audit' : audit'[i].row \in born'
<1>1. LifecycleAudited'
  BY DEF IInv, TablesRest, LifecycleAudited, Exists, Logged
<1>2. NoOrphans'
  BY DEF IInv, TablesRest, NoOrphans, Exists
<1>3. QED
  BY <1>1, <1>2 DEF IInv, TablesRest, IdsOK, Exists

LEMMA QuietStep ==
  ASSUME IInv, NEW t \in Tx, OthersRest(t), TablesRest, TypeOK', LocksOK', Sound(t)',
         \A r \in Row : writes'[t][r].op = "insert" => writes[t][r].op = "insert" \/ r \notin born
  PROVE  IInv'
<1>1. \A u \in Tx : Sound(u)'
  BY OthersSound
<1>2. IdsOK'
  <2>1. \A u \in Tx, r \in Row : writes[u][r].op = "insert" => r \in born
    BY DEF IInv, Sound, WriteOK, InsertOK
  <2>2. \A u \in Tx \ {t} : writes'[u] = writes[u]
    BY DEF OthersRest
  <2>3. QED
    BY <2>1, <2>2, TablesSame DEF IInv, IdsOK
<1>3. QED
  BY <1>1, <1>2, TablesSame DEF IInv

(* Locks that were free to take conflict with none.                          *)
LEMMA LockFacts ==
  ASSUME TypeOK, LocksOK, NEW t \in Tx, NEW need \in SUBSET (Row \X Modes),
         Free(t, need), Take(t, need)
  PROVE  /\ lock' \in [Row -> SUBSET (Tx \X Modes)] /\ LocksOK'
         /\ \A s \in Row : lock[s] \subseteq lock'[s]
         /\ \A s \in Row, m \in Modes : <<s, m>> \in need => <<t, m>> \in lock'[s]
<1>1. \A s \in Row : lock[s] \subseteq Tx \X Modes
  BY DEF TypeOK
<1> DEFINE mine(s) == {<<t, m>> : m \in {n \in Modes : <<s, n>> \in need}}
<1>2. ASSUME NEW s \in Row
      PROVE  \A l : l \in mine(s) <=> \E n \in Modes : <<s, n>> \in need /\ l = <<t, n>>
  OBVIOUS
<1>3. /\ lock' = [s \in Row |-> lock[s] \cup mine(s)]
      /\ \A s \in Row : lock'[s] = lock[s] \cup mine(s)
  BY DEF Take
<1> HIDE DEF mine
<1>4. \A s \in Row : mine(s) \subseteq Tx \X Modes
  <2> SUFFICES ASSUME NEW s \in Row, NEW l \in mine(s) PROVE l \in Tx \X Modes
    OBVIOUS
  <2>1. PICK n \in Modes : l = <<t, n>>
    BY <1>2
  <2>2. QED
    BY <2>1
<1>5. lock' \in [Row -> SUBSET (Tx \X Modes)]
  <2>1. \A s \in Row : lock[s] \cup mine(s) \in SUBSET (Tx \X Modes)
    BY <1>1, <1>4
  <2>2. QED
    BY <1>3, <2>1
<1>6. ASSUME NEW s \in Row, NEW k \in lock'[s], NEW l \in lock'[s], k[1] # l[1]
      PROVE  ~Conflict(k[2], l[2])
  <2>1. \A n, p : Conflict(n, p) <=> Conflict(p, n)
    BY DEF Conflict
  <2>2. ASSUME NEW n \in Modes, <<s, n>> \in need, NEW h \in lock[s], h[1] # t
        PROVE  ~Conflict(n, h[2])
    <3>1. <<s, n>>[1] = s /\ <<s, n>>[2] = n
      OBVIOUS
    <3>2. QED
      BY <2>2, <3>1 DEF Free
  <2>3. \/ k \in lock[s]
        \/ \E n \in Modes : <<s, n>> \in need /\ k = <<t, n>>
    BY <1>2, <1>3
  <2>4. \/ l \in lock[s]
        \/ \E n \in Modes : <<s, n>> \in need /\ l = <<t, n>>
    BY <1>2, <1>3
  <2>5. CASE k \in lock[s] /\ l \in lock[s]
    BY <1>6, <2>5 DEF LocksOK
  <2>6. CASE \E n \in Modes : <<s, n>> \in need /\ k = <<t, n>>
    <3>1. PICK n \in Modes : <<s, n>> \in need /\ k = <<t, n>>
      BY <2>6
    <3>2. k[1] = t /\ k[2] = n
      BY <3>1
    <3>3. l \in lock[s] /\ l[1] # t
      <4>1. \A n2 \in Modes : <<t, n2>>[1] = t
        OBVIOUS
      <4>2. QED
        BY <1>6, <2>4, <3>2, <4>1
    <3>4. QED
      BY <2>2, <3>1, <3>2, <3>3
  <2>7. CASE \E n \in Modes : <<s, n>> \in need /\ l = <<t, n>>
    <3>1. PICK n \in Modes : <<s, n>> \in need /\ l = <<t, n>>
      BY <2>7
    <3>2. l[1] = t /\ l[2] = n
      BY <3>1
    <3>3. k \in lock[s] /\ k[1] # t
      <4>1. \A n2 \in Modes : <<t, n2>>[1] = t
        OBVIOUS
      <4>2. QED
        BY <1>6, <2>3, <3>2, <4>1
    <3>4. QED
      BY <2>1, <2>2, <3>1, <3>2, <3>3
  <2>8. QED
    BY <2>3, <2>4, <2>5, <2>6, <2>7
<1>7. LocksOK'
  BY <1>6 DEF LocksOK
<1>8. QED
  BY <1>5, <1>7, <1>2, <1>3

(* Rollback: the request forgets what it did and its locks go.               *)
LEMMA CloseFacts ==
  ASSUME TypeOK, NEW t \in Tx, Close(t)
  PROVE  /\ OthersRest(t)
         /\ pc'[t] = "idle" /\ kind'[t] = "none" /\ todo'[t] = {} /\ entries'[t] = <<>>
         /\ \A r \in Row : writes'[t][r] = NoWrite /\ lock'[r] \subseteq lock[r]
         /\ pc' \in [Tx -> {"idle", "open"}] /\ kind' \in [Tx -> Kinds]
         /\ patch' \in [Tx -> [Row -> Patch]] /\ seen' \in [Tx -> [Row -> Image \cup {Absent}]]
         /\ todo' \in [Tx -> SUBSET Row] /\ writes' \in [Tx -> [Row -> WriteOps]]
         /\ entries' \in [Tx -> Seq(Entry)] /\ lock' \in [Row -> SUBSET (Tx \X Modes)]
<1>1. /\ NoRows \in [Row -> Image \cup {Absent}] /\ NoPatch \in [Row -> Patch]
      /\ NothingWritten \in [Row -> WriteOps]
      /\ \A r \in Row : NothingWritten[r] = NoWrite
  BY WriteFacts, PatchFacts DEF NoRows, NoPatch, NothingWritten
<1>2. /\ lock' \in [Row -> SUBSET (Tx \X Modes)]
      /\ \A r \in Row : lock'[r] \subseteq lock[r]
      /\ \A r \in Row : \A l \in lock[r] : l[1] # t => l \in lock'[r]
  BY DEF Close, Release, TypeOK
<1>3. <<>> \in Seq(Entry)
  OBVIOUS
<1>4. pc' \in [Tx -> {"idle", "open"}] /\ kind' \in [Tx -> Kinds]
  BY DEF Close, TypeOK, Kinds
<1>5. /\ patch' \in [Tx -> [Row -> Patch]] /\ todo' \in [Tx -> SUBSET Row]
      /\ entries' \in [Tx -> Seq(Entry)]
  BY <1>1, <1>3 DEF Close, TypeOK
<1>6. /\ seen' \in [Tx -> [Row -> Image \cup {Absent}]]
      /\ writes' \in [Tx -> [Row -> WriteOps]]
  BY <1>1 DEF Close, TypeOK
<1>7. /\ pc'[t] = "idle" /\ kind'[t] = "none" /\ todo'[t] = {} /\ entries'[t] = <<>>
      /\ writes'[t] = NothingWritten
  BY DEF Close, TypeOK
<1>8. OthersRest(t)
  BY <1>2 DEF OthersRest, Close, TypeOK
<1>9. QED
  BY <1>1, <1>2, <1>4, <1>5, <1>6, <1>7, <1>8

LEMMA RollbackStep ==
  ASSUME IInv, NEW t \in Tx, Rollback(t)
  PROVE  IInv'
<1>1. TypeOK /\ Close(t) /\ TablesRest
  BY DEF IInv, Rollback, TablesRest, history
<1>2. /\ OthersRest(t)
      /\ kind'[t] = "none" /\ todo'[t] = {} /\ entries'[t] = <<>>
      /\ \A r \in Row : writes'[t][r] = NoWrite
  BY <1>1, CloseFacts
<1>3. TypeOK'
  BY <1>1, CloseFacts DEF TypeOK, Rollback, history
<1>4. LocksOK'
  BY <1>1, CloseFacts DEF IInv, LocksOK
<1>5. Sound(t)'
  <2>1. \A r \in Row : WriteOK(t, r)'
    BY <1>2, WriteFacts DEF WriteOK
  <2>2. QED
    BY <1>2, <2>1 DEF Sound, Clean, TodoOK
<1>6. QED
  BY <1>1, <1>2, <1>3, <1>4, <1>5, QuietStep, WriteFacts

(* A request that begins with rows it has loaded.                            *)
LEMMA BeginFacts ==
  ASSUME TypeOK, NEW t \in Tx, NEW k \in Kinds, NEW rows \in SUBSET Row,
         NEW f \in [Row -> Patch], Begin(t, k, rows, f)
  PROVE  /\ \A u \in Tx \ {t} :
              /\ pc'[u] = pc[u] /\ kind'[u] = kind[u] /\ patch'[u] = patch[u]
              /\ seen'[u] = seen[u] /\ todo'[u] = todo[u]
         /\ pc[t] = "idle" /\ pc'[t] = "open" /\ kind'[t] = k /\ patch'[t] = f /\ todo'[t] = rows
         /\ \A r \in rows : seen'[t][r] = store[r]
         /\ pc' \in [Tx -> {"idle", "open"}] /\ kind' \in [Tx -> Kinds]
         /\ patch' \in [Tx -> [Row -> Patch]] /\ seen' \in [Tx -> [Row -> Image \cup {Absent}]]
         /\ todo' \in [Tx -> SUBSET Row] /\ ops' \in 0 .. MaxOps
<1> DEFINE loaded == [r \in Row |-> IF r \in rows THEN store[r] ELSE Absent]
<1>1. loaded \in [Row -> Image \cup {Absent}] /\ \A r \in rows : loaded[r] = store[r]
  BY DEF TypeOK
<1>2. seen' = [seen EXCEPT ![t] = loaded]
  BY DEF Begin
<1> HIDE DEF loaded
<1>3. seen' \in [Tx -> [Row -> Image \cup {Absent}]] /\ seen'[t] = loaded
  BY <1>1, <1>2 DEF TypeOK
<1>4. ops' \in 0 .. MaxOps
  BY VaultAssumption DEF Begin, TypeOK
<1>5. pc' \in [Tx -> {"idle", "open"}] /\ kind' \in [Tx -> Kinds]
  BY DEF Begin, TypeOK
<1>6. patch' \in [Tx -> [Row -> Patch]] /\ todo' \in [Tx -> SUBSET Row]
  BY DEF Begin, TypeOK
<1>7. \A u \in Tx \ {t} :
        /\ pc'[u] = pc[u] /\ kind'[u] = kind[u] /\ patch'[u] = patch[u]
        /\ seen'[u] = seen[u] /\ todo'[u] = todo[u]
  BY DEF Begin, TypeOK
<1>8. pc[t] = "idle" /\ pc'[t] = "open" /\ kind'[t] = k /\ patch'[t] = f /\ todo'[t] = rows
  BY DEF Begin, TypeOK
<1>9. QED
  BY <1>1, <1>3, <1>4, <1>5, <1>6, <1>7, <1>8

(* A row that exists has a known beginning.                                  *)
LEMMA ExistsKnown ==
  ASSUME IInv, NEW r \in Row, Exists(r)
  PROVE  Known(r) /\ store[r] \in Image
BY Types DEF IInv, LifecycleAudited, Known

LEMMA LoadStep ==
  ASSUME IInv, NEW t \in Tx, NEW k \in Kinds, NEW rows \in SUBSET Row,
         NEW f \in [Row -> Patch], Begin(t, k, rows, f), \A r \in rows : Exists(r),
         rows = {} \/ k # "prices",
         UNCHANGED <<store, born, audit, lock, writes, entries, history>>
  PROVE  IInv'
<1>1. TypeOK /\ UNCHANGED <<raced, seeded, repriced>>
  BY DEF IInv, history
<1>2. TypeOK'
  BY <1>1, BeginFacts DEF TypeOK
<1>3. OthersRest(t) /\ TablesRest
  BY <1>1, BeginFacts DEF OthersRest, TablesRest
<1>4. LocksOK'
  BY DEF IInv, LocksOK
<1>5. Sound(t)'
  <2>1. entries'[t] = <<>> /\ \A r \in Row : writes'[t][r] = NoWrite
    <3>1. pc[t] = "idle" /\ Clean(t)
      BY DEF Begin, IInv, Sound
    <3>2. QED
      BY <3>1 DEF Clean
  <2>2. \A r \in Row : WriteOK(t, r)'
    BY <2>1, WriteFacts DEF WriteOK
  <2>3. \A r \in rows : store[r] \in Image /\ Known(r)
    BY ExistsKnown
  <2>4. \A r \in rows : Known(r)'
    BY <1>3, <2>3, TablesFacts
  <2>5. /\ pc'[t] = "open" /\ kind'[t] = k /\ todo'[t] = rows
        /\ \A r \in rows : seen'[t][r] = store[r]
    BY <1>1, BeginFacts
  <2>6. QED
    BY <2>1, <2>2, <2>3, <2>4, <2>5 DEF Sound, Clean, TodoOK
<1>6. QED
  BY <1>2, <1>3, <1>4, <1>5, QuietStep

(* The locks that the keys of an image need.                                 *)
LEMMA SharesFacts ==
  ASSUME NEW f \in Patch
  PROVE  /\ Shares(f) \in SUBSET (Row \X Modes)
         /\ \A k \in Key \cap DOMAIN f : f[k] # NoRow => <<f[k], "key share">> \in Shares(f)
<1>1. \A k \in Key \cap DOMAIN f : f[k] \in Row \cup {NoRow}
  BY PatchFacts
<1>2. Parents(f) \subseteq Row /\ \A k \in Key \cap DOMAIN f : f[k] # NoRow => f[k] \in Parents(f)
  BY <1>1 DEF Parents
<1>3. \A p \in Parents(f) : <<p, "key share">> \in Row \X Modes
  BY <1>2 DEF Modes
<1>4. Shares(f) \in SUBSET (Row \X Modes) /\ \A p \in Parents(f) : <<p, "key share">> \in Shares(f)
  BY <1>3 DEF Shares
<1>5. QED
  BY <1>2, <1>4

LEMMA CreateStep ==
  ASSUME IInv, NEW t \in Tx, NEW r \in Row, NEW img \in Image, Create(t, r, img)
  PROVE  IInv'
<1> DEFINE e == [act |-> "create", row |-> r, before |-> Absent, after |-> img]
<1>1. /\ TypeOK /\ Begin(t, "create", {}, NoPatch) /\ r \notin born
      /\ writes' = [writes EXCEPT ![t][r] = Insert(img)] /\ entries' = [entries EXCEPT ![t] = <<e>>]
      /\ born' = born \cup {r} /\ UNCHANGED <<store, audit, raced, seeded, repriced>>
      /\ Free(t, Shares(img)) /\ Take(t, Shares(img)) /\ Fits(r, img)
  BY DEF IInv, Create, history
<1>2. e \in Entry /\ e.act = "create" /\ e.row = r /\ e.after = img
  BY EntryFacts
<1> HIDE DEF e
<1>3. Insert(img) \in WriteOps /\ Insert(img).op = "insert" /\ Insert(img).cols = img
  BY WriteFacts
<1>4. /\ "create" \in Kinds /\ NoPatch \in [Row -> Patch] /\ {} \in SUBSET Row
      /\ "key share" \in Modes
  BY PatchFacts DEF Kinds, Modes, NoPatch
<1>5. /\ \A u \in Tx \ {t} :
           /\ pc'[u] = pc[u] /\ kind'[u] = kind[u] /\ patch'[u] = patch[u]
           /\ seen'[u] = seen[u] /\ todo'[u] = todo[u]
      /\ pc[t] = "idle" /\ pc'[t] = "open" /\ kind'[t] = "create" /\ todo'[t] = {}
      /\ pc' \in [Tx -> {"idle", "open"}] /\ kind' \in [Tx -> Kinds]
      /\ patch' \in [Tx -> [Row -> Patch]] /\ seen' \in [Tx -> [Row -> Image \cup {Absent}]]
      /\ todo' \in [Tx -> SUBSET Row] /\ ops' \in 0 .. MaxOps
  BY <1>1, <1>4, BeginFacts
<1>6. /\ writes' \in [Tx -> [Row -> WriteOps]] /\ writes'[t][r] = Insert(img)
      /\ \A s \in Row \ {r} : writes'[t][s] = writes[t][s]
      /\ \A u \in Tx \ {t} : writes'[u] = writes[u]
  BY <1>1, <1>3, Types
<1>7. <<e>> \in Seq(Entry) /\ DOMAIN <<e>> = {1} /\ <<e>>[1] = e
  BY <1>2
<1>8. /\ entries' \in [Tx -> Seq(Entry)] /\ entries'[t] = <<e>>
      /\ \A u \in Tx \ {t} : entries'[u] = entries[u]
  BY <1>1, <1>7, Types
<1>9. /\ lock' \in [Row -> SUBSET (Tx \X Modes)] /\ LocksOK'
      /\ \A s \in Row : lock[s] \subseteq lock'[s]
      /\ \A s \in Row, m \in Modes : <<s, m>> \in Shares(img) => <<t, m>> \in lock'[s]
  <2>1. LocksOK /\ img \in Patch
    BY PatchFacts DEF IInv
  <2>2. QED
    BY <1>1, <2>1, SharesFacts, LockFacts
<1>10. TypeOK'
  <2>1. born' \in SUBSET Row
    BY <1>1 DEF TypeOK
  <2>2. QED
    BY <1>1, <1>5, <1>6, <1>8, <1>9, <2>1 DEF TypeOK
<1>11. OthersRest(t) /\ TablesRest
  BY <1>1, <1>5, <1>6, <1>8, <1>9 DEF OthersRest, TablesRest
<1>12. Sound(t)'
  <2>1. ~Exists(r) /\ Unlogged(r) /\ seeded[r] = Absent
    BY <1>1 DEF IInv, IdsOK, Unlogged
  <2>2. ~Exists(r)' /\ Unlogged(r)' /\ (seeded[r] = Absent)'
    BY <1>1, <1>11, <2>1, TablesFacts
  <2>3. Noted(t, "create", r, img)'
    BY <1>2, <1>7, <1>8 DEF Noted
  <2>4. KeysOK(t, r, img)'
    <3> SUFFICES ASSUME NEW k \in Key, k \in DOMAIN img
                 PROVE  /\ img[k] \in Target[r][k]
                        /\ img[k] # NoRow => Anchored(t, img[k])'
      BY DEF KeysOK
    <3>1. /\ img[k] \in Target[r][k] /\ (img[k] # NoRow => Exists(img[k]))
          /\ img[k] \in Row \cup {NoRow}
      BY <1>1, PatchFacts DEF Fits
    <3>2. img[k] # NoRow => <<img[k], "key share">> \in Shares(img)
      BY PatchFacts, SharesFacts
    <3>3. QED
      BY <1>4, <1>9, <1>11, <3>1, <3>2, TablesFacts DEF Anchored
  <2>5. InsertOK(t, r)'
    <3>1. writes'[t][r].cols = img /\ r \in born'
      BY <1>1, <1>3, <1>6
    <3>2. QED
      BY <1>5, <2>2, <2>3, <2>4, <3>1 DEF InsertOK
  <2>6. \A s \in Row \ {r} : writes'[t][s] = NoWrite
    BY <1>5, <1>6 DEF IInv, Sound, Clean
  <2>7. \A s \in Row : WriteOK(t, s)'
    BY <1>3, <1>6, <2>5, <2>6, WriteFacts DEF WriteOK
  <2>8. \A i \in DOMAIN entries'[t] : EntryOK(t, entries[t][i])'
    BY <1>2, <1>3, <1>5, <1>6, <1>7, <1>8 DEF EntryOK
  <2>9. QED
    BY <1>5, <2>7, <2>8 DEF Sound, Clean, TodoOK
<1>13. QED
  BY <1>1, <1>6, <1>10, <1>11, <1>12, <1>9, QuietStep

(* The keys of the rows that the intake inserts are its own rows.            *)
LEMMA IntakeStep ==
  ASSUME IInv, NEW t \in Tx, NEW rows \in SUBSET Row, NEW ans \in Answers, Intake(t, rows, ans)
  PROVE  IInv'
<1> DEFINE mine == [r \in Row |-> IF r \in rows THEN Insert(ans[r]) ELSE NoWrite]
<1>1. /\ TypeOK /\ Begin(t, "intake", {}, NoPatch) /\ rows \cap born = {}
      /\ OwnKeys(rows, ans) /\ writes' = [writes EXCEPT ![t] = mine]
      /\ born' = born \cup rows
      /\ UNCHANGED <<store, audit, lock, entries, raced, seeded, repriced>>
  BY DEF IInv, Intake, history
<1>2. \A r \in Row : ans[r] \in Image
  BY VaultAssumption
<1>3. mine \in [Row -> WriteOps]
  BY <1>2, WriteFacts
<1>4. /\ \A r \in rows : /\ mine[r] = Insert(ans[r]) /\ mine[r].op = "insert"
                         /\ mine[r].cols = ans[r]
      /\ \A r \in Row \ rows : mine[r] = NoWrite /\ mine[r].op = "none"
  BY <1>2, WriteFacts
<1> HIDE DEF mine
<1>5. writes' \in [Tx -> [Row -> WriteOps]] /\ writes'[t] = mine
      /\ \A u \in Tx \ {t} : writes'[u] = writes[u]
  BY <1>1, <1>3, Types
<1>6. "intake" \in Kinds /\ NoPatch \in [Row -> Patch] /\ {} \in SUBSET Row
  BY PatchFacts DEF Kinds, NoPatch
<1>7. /\ \A u \in Tx \ {t} :
           /\ pc'[u] = pc[u] /\ kind'[u] = kind[u] /\ patch'[u] = patch[u]
           /\ seen'[u] = seen[u] /\ todo'[u] = todo[u]
      /\ pc[t] = "idle" /\ pc'[t] = "open" /\ kind'[t] = "intake" /\ todo'[t] = {}
      /\ pc' \in [Tx -> {"idle", "open"}] /\ kind' \in [Tx -> Kinds]
      /\ patch' \in [Tx -> [Row -> Patch]] /\ seen' \in [Tx -> [Row -> Image \cup {Absent}]]
      /\ todo' \in [Tx -> SUBSET Row] /\ ops' \in 0 .. MaxOps
  BY <1>1, <1>6, BeginFacts
<1>8. TypeOK'
  <2>1. born' \in SUBSET Row
    BY <1>1 DEF TypeOK
  <2>2. QED
    BY <1>1, <1>5, <1>7, <2>1 DEF TypeOK
<1>9. OthersRest(t) /\ TablesRest
  BY <1>1, <1>5, <1>7 DEF OthersRest, TablesRest
<1>10. LocksOK'
  BY <1>1 DEF IInv, LocksOK
<1>11. Sound(t)'
  <2>1. ASSUME NEW r \in rows PROVE InsertOK(t, r)'
    <3>1. ~Exists(r) /\ Unlogged(r) /\ seeded[r] = Absent
      BY <1>1 DEF IInv, IdsOK, Unlogged
    <3>2. ~Exists(r)' /\ Unlogged(r)' /\ (seeded[r] = Absent)'
      BY <1>1, <1>9, <3>1, TablesFacts
    <3>3. KeysOK(t, r, ans[r])'
      <4> SUFFICES ASSUME NEW k \in Key, k \in DOMAIN ans[r]
                   PROVE  /\ ans[r][k] \in Target[r][k]
                          /\ ans[r][k] # NoRow => Anchored(t, ans[r][k])'
        BY DEF KeysOK
      <4>1. ans[r][k] \in Target[r][k] /\ (ans[r][k] # NoRow => ans[r][k] \in rows)
        BY <1>1 DEF OwnKeys
      <4>2. QED
        BY <1>4, <1>5, <4>1 DEF Anchored
    <3>4. writes'[t][r].cols = ans[r] /\ r \in born'
      BY <1>1, <1>4, <1>5
    <3>5. QED
      BY <1>7, <3>2, <3>3, <3>4 DEF InsertOK
  <2>2. \A r \in Row : WriteOK(t, r)'
    BY <1>4, <1>5, <2>1 DEF WriteOK
  <2>3. entries'[t] = <<>>
    BY <1>1, <1>7 DEF IInv, Sound, Clean
  <2>4. QED
    BY <1>7, <2>2, <2>3 DEF Sound, Clean, TodoOK
<1>12. \A r \in Row : writes'[t][r].op = "insert" => r \notin born
  BY <1>1, <1>4, <1>5
<1>13. QED
  BY <1>8, <1>9, <1>10, <1>11, <1>12, QuietStep

LEMMA CreateRefusedStep ==
  ASSUME IInv, NEW t \in Tx, NEW r \in Row, NEW img \in Image, CreateRefused(t, r, img)
  PROVE  IInv'
<1>1. TypeOK'
  <2>1. /\ ops \in 0 .. MaxOps /\ ops < MaxOps /\ ops' = ops + 1
        /\ born \in SUBSET Row /\ born' = born \cup {r}
    BY DEF IInv, TypeOK, CreateRefused
  <2>3. ops' \in 0 .. MaxOps
    BY <2>1, VaultAssumption
  <2>2. QED
    BY <2>1, <2>3 DEF IInv, TypeOK, CreateRefused, tx, history
<1>2. OthersRest(t) /\ TablesRest
  BY DEF CreateRefused, tx, history, OthersRest, TablesRest
<1>3. LocksOK'
  BY DEF IInv, LocksOK, CreateRefused
<1>4. Sound(t)'
  <2>1. /\ pc[t] = "idle" /\ todo'[t] = {} /\ entries'[t] = <<>> /\ kind' = kind
        /\ \A s \in Row : writes'[t][s] = NoWrite
    BY DEF CreateRefused, tx, IInv, Sound, Clean
  <2>2. \A s \in Row : WriteOK(t, s)'
    BY <2>1, WriteFacts DEF WriteOK
  <2>3. QED
    BY <2>1, <2>2 DEF Sound, Clean, TodoOK, IInv
<1>5. QED
  BY <1>1, <1>2, <1>3, <1>4, QuietStep DEF CreateRefused, tx

(* A ticker's rows were not written yet, so nothing that was is disturbed.    *)
LEMMA TickerStep ==
  ASSUME IInv, NEW t \in Tx, NEW rows \in SUBSET Row, NEW v \in Val, UpdateTicker(t, rows, v)
  PROVE  IInv'
<1> DEFINE prices == [r \in Row |-> IF r \in rows THEN PriceOf(v) ELSE patch[t][r]]
           found == [r \in Row |-> IF r \in rows THEN store[r] ELSE seen[t][r]]
<1>1. /\ TypeOK /\ pc[t] = "open" /\ kind[t] = "prices" /\ todo[t] = {}
      /\ \A r \in rows : Exists(r) /\ r \notin Written(t)
      /\ todo' = [todo EXCEPT ![t] = rows]
      /\ UNCHANGED <<store, born, audit, lock, pc, kind, writes, entries, ops, raced, seeded,
                     repriced>>
  BY DEF IInv, UpdateTicker, history
<1>2. patch' = [patch EXCEPT ![t] = prices] /\ seen' = [seen EXCEPT ![t] = found]
  BY Types, <1>1 DEF UpdateTicker
<1>3. /\ prices \in [Row -> Patch] /\ found \in [Row -> Image \cup {Absent}]
      /\ \A r \in Row \ rows : prices[r] = patch[t][r]
      /\ \A r \in rows : found[r] = store[r]
  BY <1>1, Types, PatchFacts
<1> HIDE DEF prices, found
<1>4. /\ patch' \in [Tx -> [Row -> Patch]] /\ patch'[t] = prices
      /\ seen' \in [Tx -> [Row -> Image \cup {Absent}]] /\ seen'[t] = found
      /\ todo' \in [Tx -> SUBSET Row] /\ todo'[t] = rows
      /\ \A u \in Tx \ {t} : patch'[u] = patch[u] /\ seen'[u] = seen[u] /\ todo'[u] = todo[u]
  BY <1>1, <1>2, <1>3, Types
<1>5. TypeOK'
  BY <1>1, <1>4 DEF TypeOK
<1>6. OthersRest(t) /\ TablesRest
  BY <1>1, <1>4 DEF OthersRest, TablesRest
<1>7. LocksOK'
  BY <1>1 DEF IInv, LocksOK
<1>8. Sound(t)'
  <2>1. Sound(t)
    BY DEF IInv
  <2>2. DOMAIN entries[t] = {}
    BY <1>1, <2>1 DEF Sound, EntryOK
  <2>3. \A r \in rows : store[r] \in Image /\ Known(r) /\ Known(r)'
    BY <1>1, <1>6, ExistsKnown, TablesFacts
  <2>4. TodoOK(t)'
    <3>1. \A r \in rows : prices[r] = PriceOf(v) /\ Key \cap DOMAIN PriceOf(v) = {}
      BY VaultAssumption DEF prices, PriceOf
    <3>2. QED
      BY <1>1, <1>3, <1>4, <2>2, <2>3, <3>1 DEF TodoOK
  <2>5. ASSUME NEW r \in Row PROVE WriteOK(t, r)'
    <3>1. CASE r \in rows
      <4>1. writes'[t][r].op = "none"
        BY <1>1, <3>1 DEF Written
      <4>2. QED
        BY <4>1 DEF WriteOK
    <3>2. CASE r \notin rows
      <4>1. WriteOK(t, r) /\ patch'[t][r] = patch[t][r]
        BY <1>3, <1>4, <2>1, <3>2 DEF Sound
      <4>2. \A a, f : Noted(t, a, r, f) => Noted(t, a, r, f)'
        BY <1>1 DEF Noted
      <4>3. QED
        BY <1>1, <1>6, <4>1, <4>2, WriteKept
    <3>3. QED
      BY <3>1, <3>2
  <2>6. QED
    BY <1>1, <2>2, <2>4, <2>5 DEF Sound, Clean
<1>9. QED
  BY <1>1, <1>5, <1>6, <1>7, <1>8, QuietStep

-----------------------------------------------------------------------------
(* The steps in which a request writes.                                      *)

LEMMA AssignedFacts ==
  ASSUME TypeOK, NEW t \in Tx, NEW r \in Row
  PROVE  /\ Assigned(t, r) \in Patch /\ DOMAIN Assigned(t, r) = Changed(t, r)
         /\ \A c \in Changed(t, r) :
              /\ c \in DOMAIN patch[t][r] /\ Assigned(t, r)[c] = patch[t][r][c]
              /\ Over(patch[t][r], seen[t][r])[c] = Assigned(t, r)[c]
         /\ Needs(t, r) \in SUBSET (Row \X Modes)
         /\ <<r, IF kind[t] = "delete" THEN "update" ELSE "no key update">> \in Needs(t, r)
         /\ Shares(Assigned(t, r)) \subseteq Needs(t, r)
<1>1. patch[t][r] \in Patch
  BY Types
<1>2. /\ Changed(t, r) \subseteq DOMAIN patch[t][r] /\ DOMAIN patch[t][r] \subseteq Col
      /\ \A c \in Changed(t, r) : patch[t][r][c] \in Cell(c)
  BY <1>1, PatchFacts DEF Changed
<1>3. /\ DOMAIN Assigned(t, r) = Changed(t, r)
      /\ \A c \in Changed(t, r) : Assigned(t, r)[c] = patch[t][r][c]
  BY DEF Assigned
<1>4. Assigned(t, r) \in Patch
  <2>1. \A c : Cell(c) \subseteq Cells
    BY DEF Cell, Cells
  <2>2. Assigned(t, r) \in [Changed(t, r) -> Cells]
    BY <1>2, <2>1 DEF Assigned
  <2>3. Typed(Assigned(t, r))
    BY <1>2, <1>3 DEF Typed
  <2>4. QED
    BY <1>2, <2>2, <2>3 DEF Patch
<1>5. \A c \in Changed(t, r) : Over(patch[t][r], seen[t][r])[c] = patch[t][r][c]
  BY <1>2 DEF Over
<1>6. Needs(t, r) \in SUBSET (Row \X Modes)
  <2>1. <<r, IF kind[t] = "delete" THEN "update" ELSE "no key update">> \in Row \X Modes
    BY DEF Modes
  <2>2. QED
    BY <1>4, <2>1, SharesFacts DEF Needs
<1>7. QED
  BY <1>2, <1>3, <1>4, <1>5, <1>6 DEF Needs

(* The write w of the row r, backed by its locks.                            *)
MayWrite(t, r, w) ==
  \/ UNCHANGED <<lock, writes>>
  \/ /\ Free(t, Needs(t, r)) /\ Exists(r) /\ Take(t, Needs(t, r))
     /\ writes' = [writes EXCEPT ![t][r] = w]

LEMMA WorkLocks ==
  ASSUME IInv, NEW t \in Tx, NEW r \in Row, NEW w, MayWrite(t, r, w)
  PROVE  /\ lock' \in [Row -> SUBSET (Tx \X Modes)] /\ LocksOK'
         /\ \A s \in Row : lock[s] \subseteq lock'[s]
         /\ \/ UNCHANGED <<lock, writes>>
            \/ \A s \in Row, m \in Modes : <<s, m>> \in Needs(t, r) => <<t, m>> \in lock'[s]
<1>1. TypeOK /\ LocksOK
  BY DEF IInv
<1>2. CASE UNCHANGED <<lock, writes>>
  BY <1>1, <1>2, Types DEF LocksOK
<1>3. CASE Free(t, Needs(t, r)) /\ Take(t, Needs(t, r))
  <2>1. Needs(t, r) \in SUBSET (Row \X Modes)
    BY <1>1, AssignedFacts
  <2> HIDE DEF LocksOK
  <2>2. QED
    BY <1>1, <1>3, <2>1, LockFacts
<1>4. QED
  BY <1>2, <1>3 DEF MayWrite

LEMMA WorkStep ==
  ASSUME IInv, NEW t \in Tx, NEW r \in Row, r \in todo[t], NEW w \in WriteOps,
         NEW e \in Entry, e.row = r, e.act # "create", w.op \in {"set", "delete"},
         MayWrite(t, r, w), WriteOK(t, r)' \/ writes' = writes,
         kind[t] \notin {"create", "intake"},
         \/ UNCHANGED entries
         \/ /\ kind[t] \notin {"price", "prices"}
            /\ entries' = [entries EXCEPT ![t] = Append(@, e)],
         e.act = "delete" => ~Exists(r) \/ writes'[t][r].op = "delete",
         Done(t, r), pc[t] = "open",
         UNCHANGED <<store, born, audit, pc, kind, patch, seen, ops, history>>
  PROVE  IInv'
<1>1. TypeOK /\ LocksOK /\ Sound(t) /\ UNCHANGED <<raced, seeded, repriced>>
  BY DEF IInv, history
<1>2. /\ lock' \in [Row -> SUBSET (Tx \X Modes)] /\ LocksOK'
      /\ \A s \in Row : lock[s] \subseteq lock'[s]
  BY WorkLocks
<1>3. /\ writes' \in [Tx -> [Row -> WriteOps]]
      /\ \A u \in Tx \ {t} : writes'[u] = writes[u]
      /\ \A s \in Row \ {r} : writes'[t][s] = writes[t][s]
      /\ writes'[t][r] = writes[t][r] \/ writes'[t][r].op \in {"set", "delete"}
  <2>1. CASE UNCHANGED writes
    BY <1>1, <2>1, Types
  <2>2. CASE writes' = [writes EXCEPT ![t][r] = w]
    <3>1. /\ writes' \in [Tx -> [Row -> WriteOps]]
          /\ \A u \in Tx \ {t} : writes'[u] = writes[u]
          /\ \A s \in Row \ {r} : writes'[t][s] = writes[t][s]
          /\ writes'[t][r] = w
      BY <1>1, <2>2, Types
    <3>2. QED
      BY <3>1
  <2>3. QED
    BY <2>1, <2>2 DEF MayWrite
<1>4. /\ entries' \in [Tx -> Seq(Entry)]
      /\ \A u \in Tx \ {t} : entries'[u] = entries[u]
      /\ \A i \in DOMAIN entries[t] : i \in DOMAIN entries'[t] /\ entries'[t][i] = entries[t][i]
      /\ \A i \in DOMAIN entries'[t] :
           \/ i \in DOMAIN entries[t] /\ entries'[t][i] = entries[t][i]
           \/ entries'[t][i] = e /\ kind[t] \notin {"intake", "price", "prices"}
  <2>1. CASE UNCHANGED entries
    BY <1>1, <2>1, Types
  <2>2. CASE kind[t] \notin {"price", "prices"} /\ entries' = [entries EXCEPT ![t] = Append(@, e)]
    <3>1. /\ Append(entries[t], e) \in Seq(Entry) /\ entries'[t] = Append(entries[t], e)
          /\ entries' \in [Tx -> Seq(Entry)]
          /\ \A u \in Tx \ {t} : entries'[u] = entries[u]
      BY <1>1, <2>2, Types
    <3>2. entries[t] \in Seq(Entry)
      BY <1>1, Types
    <3>3. /\ \A i \in DOMAIN entries[t] : i \in DOMAIN Append(entries[t], e)
                                         /\ Append(entries[t], e)[i] = entries[t][i]
          /\ \A i \in DOMAIN Append(entries[t], e) :
               i \in DOMAIN entries[t] \/ Append(entries[t], e)[i] = e
      BY <3>2, AppendFacts
    <3>4. QED
      BY <2>2, <3>1, <3>3
  <2>3. QED
    BY <2>1, <2>2
<1>5. todo' \in [Tx -> SUBSET Row] /\ todo'[t] = todo[t] \ {r}
      /\ \A u \in Tx \ {t} : todo'[u] = todo[u]
  BY <1>1, Types DEF Done
<1>6. TypeOK'
  BY <1>1, <1>2, <1>3, <1>4, <1>5 DEF TypeOK
<1>7. OthersRest(t) /\ TablesRest
  BY <1>1, <1>2, <1>3, <1>4, <1>5 DEF OthersRest, TablesRest
<1>8. \A a, s, f : Noted(t, a, s, f) => Noted(t, a, s, f)'
  BY <1>4 DEF Noted
<1>9. Clean(t)' /\ TodoOK(t)'
  <2>1. Clean(t)'
    BY DEF Clean
  <2>2. TodoOK(t) /\ todo[t] \subseteq Row
    BY <1>1, Types DEF Sound
  <2>3. TodoOK(t)'
    BY <1>4, <1>5, <1>7, <2>2, TablesFacts DEF TodoOK
  <2>4. QED
    BY <2>1, <2>3
<1>10. ASSUME NEW s \in Row, writes'[t][s] = writes[t][s] PROVE WriteOK(t, s)'
  <2>1. WriteOK(t, s)
    BY <1>1 DEF Sound
  <2>2. \A p \in Row, n \in Modes : <<t, n>> \in lock[p] => <<t, n>> \in lock'[p]
    BY <1>2
  <2>3. \A p \in Row : writes[t][p].op = "insert" => writes'[t][p].op = "insert"
    <3>1. writes[t][r].op # "insert"
      BY <1>1 DEF Sound, WriteOK, InsertOK
    <3>2. QED
      BY <1>3, <3>1
  <2>4. QED
    BY <1>1, <1>7, <1>8, <1>10, <2>1, <2>2, <2>3, WriteKept
<1>11. \A s \in Row : WriteOK(t, s)'
  BY <1>3, <1>10
<1>12. ASSUME NEW i \in DOMAIN entries'[t] PROVE EntryOK(t, entries[t][i])'
  <2>1. CASE entries'[t][i] = e /\ kind[t] \notin {"intake", "price", "prices"}
    <3>1. Known(r)' /\ (Exists(r)' <=> Exists(r))
      BY <1>1, <1>7, TablesFacts DEF Sound, TodoOK
    <3>2. QED
      BY <2>1, <3>1 DEF EntryOK
  <2>2. CASE i \in DOMAIN entries[t] /\ entries'[t][i] = entries[t][i]
    <3>1. EntryOK(t, entries[t][i]) /\ entries[t][i].row # r /\ entries[t][i].row \in Row
      BY <1>1, <2>2, Types, EntryFacts DEF Sound, TodoOK
    <3>2. writes'[t][entries[t][i].row] = writes[t][entries[t][i].row]
      BY <1>3, <3>1
    <3>3. QED
      BY <1>7, <2>2, <3>1, <3>2, TablesFacts DEF EntryOK
  <2>3. QED
    BY <1>4, <2>1, <2>2
<1>13. Sound(t)'
  BY <1>9, <1>11, <1>12 DEF Sound
<1>14. QED
  BY <1>2, <1>3, <1>6, <1>7, <1>13, QuietStep

(* The entry that AddEntry appends.                                          *)
LEMMA EntryAdded ==
  ASSUME TypeOK, NEW t \in Tx, NEW r \in Row, NEW act \in {"update", "delete"},
         NEW after \in Image \cup {Absent}, AddEntry(t, act, r, after), NEW f,
         \A c \in DOMAIN f : after[c] = f[c]
  PROVE  \E e \in Entry :
           /\ e.row = r /\ e.act = act
           /\ \/ UNCHANGED entries
              \/ /\ kind[t] \notin {"price", "prices"}
                 /\ entries' = [entries EXCEPT ![t] = Append(@, e)]
           /\ kind[t] \notin {"intake", "price", "prices"} =>
                \E i \in DOMAIN entries'[t] :
                  /\ entries'[t][i].act = act /\ entries'[t][i].row = r
                  /\ \A c \in DOMAIN f : entries'[t][i].after[c] = f[c]
<1> DEFINE e == AuditRow(t, act, r, after)
<1>1. seen[t][r] \in Image \cup {Absent} /\ entries[t] \in Seq(Entry)
  BY Types
<1>2. e \in Entry /\ e.row = r /\ e.act = act /\ e.after = after
  BY <1>1, EntryFacts DEF AuditRow
<1>3. \/ UNCHANGED entries /\ kind[t] \in {"intake", "price", "prices"}
      \/ /\ entries' = [entries EXCEPT ![t] = Append(@, e)]
         /\ kind[t] \notin {"intake", "price", "prices"}
  BY DEF AddEntry, Unaudited
<1> HIDE DEF e
<1>4. CASE /\ entries' = [entries EXCEPT ![t] = Append(@, e)]
           /\ kind[t] \notin {"intake", "price", "prices"}
  <2>1. entries'[t] = Append(entries[t], e)
    BY <1>4, Types
  <2>2. Len(entries[t]) + 1 \in DOMAIN entries'[t] /\ entries'[t][Len(entries[t]) + 1] = e
    BY <1>1, <1>2, <2>1, AppendFacts
  <2>3. QED
    BY <1>2, <1>4, <2>2
<1>5. QED
  BY <1>2, <1>3, <1>4

LEMMA WriteStep ==
  ASSUME IInv, NEW t \in Tx, NEW r \in Row, Write(t, r)
  PROVE  IInv'
<1>0. PICK f : f = Assigned(t, r)
  OBVIOUS
<1> DEFINE w == SetTo(f)
           img == Over(patch[t][r], seen[t][r])
<1>1. /\ TypeOK /\ Sound(t) /\ r \in todo[t] /\ pc[t] = "open"
      /\ kind[t] \in {"update", "values", "price"}
      /\ UNCHANGED <<raced, seeded, repriced>>
  BY DEF IInv, Write, history
<1>2. /\ seen[t][r] \in Image /\ patch[t][r] \in Patch /\ Known(r)
  BY <1>1, Types DEF Sound, TodoOK
<1>3. /\ f \in Patch
      /\ \A c \in DOMAIN f : c \in DOMAIN patch[t][r] /\ f[c] = patch[t][r][c] /\ img[c] = f[c]
  BY <1>0, <1>1, AssignedFacts
<1>4. img \in Image
  BY <1>2, PatchFacts
<1>5. w \in WriteOps /\ w.op = "set" /\ w.cols = f
  BY <1>3, WriteFacts
<1>6. AddEntry(t, "update", r, img) /\ Done(t, r)
      /\ UNCHANGED <<store, born, audit, pc, kind, patch, seen, ops, history>>
  BY DEF Write
<1>7. \/ UNCHANGED <<lock, writes>>
      \/ /\ Free(t, Needs(t, r)) /\ Exists(r) /\ Fits(r, f) /\ Take(t, Needs(t, r))
         /\ writes' = [writes EXCEPT ![t][r] = w]
  BY <1>0 DEF Write
<1>8. <<r, "no key update">> \in Needs(t, r) /\ Shares(f) \subseteq Needs(t, r)
  BY <1>0, <1>1, AssignedFacts
<1> HIDE DEF w, img
<1>9. PICK e \in Entry :
           /\ e.row = r /\ e.act = "update"
           /\ \/ UNCHANGED entries
              \/ /\ kind[t] \notin {"price", "prices"}
                 /\ entries' = [entries EXCEPT ![t] = Append(@, e)]
           /\ kind[t] \notin {"intake", "price", "prices"} =>
                \E i \in DOMAIN entries'[t] :
                  /\ entries'[t][i].act = "update" /\ entries'[t][i].row = r
                  /\ \A c \in DOMAIN f : entries'[t][i].after[c] = f[c]
  BY <1>1, <1>3, <1>4, <1>6, EntryAdded
<1>10. MayWrite(t, r, w)
  BY <1>7 DEF MayWrite
<1>11. WriteOK(t, r)' \/ writes' = writes
  <2> SUFFICES ASSUME Exists(r), Fits(r, f), writes' = [writes EXCEPT ![t][r] = w],
                      ~UNCHANGED <<lock, writes>>
               PROVE  WriteOK(t, r)'
    BY <1>7
  <2>1. writes'[t][r] = w
    BY <1>1, Types
  <2>2. \A s \in Row, m \in Modes : <<s, m>> \in Needs(t, r) => <<t, m>> \in lock'[s]
    BY <1>10, WorkLocks
  <2>3. TablesRest
    BY <1>1, <1>6 DEF TablesRest
  <2>4. Exists(r)' /\ Known(r)' /\ <<t, "no key update">> \in lock'[r]
    BY <1>2, <1>8, <2>2, <2>3, TablesFacts DEF Modes
  <2>5. KeysOK(t, r, f)'
    <3> SUFFICES ASSUME NEW k \in Key, k \in DOMAIN f
                 PROVE  f[k] \in Target[r][k] /\ (f[k] # NoRow => Anchored(t, f[k])')
      BY DEF KeysOK
    <3>1. /\ f[k] \in Target[r][k] /\ (f[k] # NoRow => Exists(f[k]))
          /\ f[k] \in Row \cup {NoRow}
      BY <1>3, PatchFacts DEF Fits
    <3>2. f[k] # NoRow => <<f[k], "key share">> \in Needs(t, r)
      BY <1>3, <1>8, SharesFacts
    <3>3. "key share" \in Modes
      BY DEF Modes
    <3>4. QED
      BY <2>2, <2>3, <3>1, <3>2, <3>3, TablesFacts DEF Anchored
  <2>6. kind[t] \notin {"price", "prices"} => Noted(t, "update", r, f)'
    BY <1>1, <1>9 DEF Noted
  <2>7. SetOK(t, r)'
    <3>1. writes'[t][r].cols = f /\ kind' = kind /\ patch' = patch
      BY <1>5, <1>6, <2>1
    <3>2. QED
      BY <1>1, <1>3, <2>4, <2>5, <2>6, <3>1 DEF SetOK
  <2>8. QED
    BY <1>5, <2>1, <2>7 DEF WriteOK
<1>12. QED
  BY <1>1, <1>5, <1>6, <1>9, <1>10, <1>11, WorkStep

LEMMA WritePriceRowStep ==
  ASSUME IInv, NEW t \in Tx, NEW r \in Row, WritePriceRow(t, r)
  PROVE  IInv'
<1> DEFINE w == SetTo(patch[t][r])
           e == [act |-> "update", row |-> r, before |-> Absent, after |-> Absent]
<1>1. /\ TypeOK /\ Sound(t) /\ r \in todo[t] /\ pc[t] = "open" /\ kind[t] = "prices"
      /\ Done(t, r) /\ UNCHANGED entries
      /\ UNCHANGED <<store, born, audit, pc, kind, patch, seen, ops, history>>
      /\ UNCHANGED <<raced, seeded, repriced>>
  BY DEF IInv, WritePriceRow, history
<1>2. w \in WriteOps /\ w.op = "set" /\ w.cols = patch[t][r]
  BY <1>1, Types, WriteFacts
<1>3. e \in Entry /\ e.row = r /\ e.act = "update"
  BY EntryFacts
<1>4. \/ UNCHANGED <<lock, writes>>
      \/ /\ Free(t, Needs(t, r)) /\ Exists(r) /\ Take(t, Needs(t, r))
         /\ writes' = [writes EXCEPT ![t][r] = w]
  BY DEF WritePriceRow
<1> HIDE DEF w, e
<1>5. MayWrite(t, r, w)
  BY <1>4 DEF MayWrite
<1>6. WriteOK(t, r)' \/ writes' = writes
  <2> SUFFICES ASSUME Exists(r), writes' = [writes EXCEPT ![t][r] = w],
                      ~UNCHANGED <<lock, writes>>
               PROVE  WriteOK(t, r)'
    BY <1>4
  <2>1. writes'[t][r] = w
    BY <1>1, Types
  <2>2. <<t, "no key update">> \in lock'[r]
    BY <1>1, <1>5, AssignedFacts, WorkLocks DEF Modes
  <2>3. Exists(r)' /\ Known(r)'
    <3>1. TablesRest
      BY <1>1 DEF TablesRest
    <3>2. QED
      BY <1>1, <3>1, TablesFacts DEF Sound, TodoOK
  <2>4. Key \cap DOMAIN patch[t][r] = {}
    BY <1>1 DEF Sound, TodoOK
  <2>5. SetOK(t, r)'
    BY <1>1, <1>2, <2>1, <2>2, <2>3, <2>4 DEF SetOK, KeysOK
  <2>6. QED
    BY <1>2, <2>1, <2>5 DEF WriteOK
<1>7. QED
  BY <1>1, <1>2, <1>3, <1>5, <1>6, WorkStep

LEMMA RemoveStep ==
  ASSUME IInv, NEW t \in Tx, NEW r \in Row, Remove(t, r)
  PROVE  IInv'
<1>1. /\ TypeOK /\ Sound(t) /\ r \in todo[t] /\ pc[t] = "open" /\ kind[t] = "delete"
      /\ Done(t, r) /\ AddEntry(t, "delete", r, Absent)
      /\ UNCHANGED <<store, born, audit, pc, kind, patch, seen, ops, history>>
      /\ UNCHANGED <<raced, seeded, repriced>>
  BY DEF IInv, Remove, history
<1>2. Deletion \in WriteOps /\ Deletion.op = "delete"
  BY WriteFacts
<1>3. PICK e \in Entry :
           /\ e.row = r /\ e.act = "delete"
           /\ \/ UNCHANGED entries
              \/ /\ kind[t] \notin {"price", "prices"}
                 /\ entries' = [entries EXCEPT ![t] = Append(@, e)]
           /\ kind[t] \notin {"intake", "price", "prices"} =>
                \E i \in DOMAIN entries'[t] :
                  /\ entries'[t][i].act = "delete" /\ entries'[t][i].row = r
                  /\ \A c \in DOMAIN <<>> : entries'[t][i].after[c] = <<>>[c]
  <2>1. \A c \in DOMAIN <<>> : Absent[c] = <<>>[c]
    OBVIOUS
  <2>2. QED
    BY <1>1, <2>1, EntryAdded
<1>4. \/ UNCHANGED <<lock, writes>> /\ ~Exists(r)
      \/ /\ Free(t, Needs(t, r)) /\ Exists(r) /\ Children(r) = {} /\ Take(t, Needs(t, r))
         /\ writes' = [writes EXCEPT ![t][r] = Deletion]
  BY DEF Remove
<1>5. MayWrite(t, r, Deletion)
  BY <1>4 DEF MayWrite
<1>6. writes' = [writes EXCEPT ![t][r] = Deletion] => writes'[t][r] = Deletion
  BY <1>1, Types
<1>7. WriteOK(t, r)' \/ writes' = writes
  <2> SUFFICES ASSUME Exists(r), Children(r) = {}, writes'[t][r] = Deletion,
                      ~UNCHANGED <<lock, writes>>
               PROVE  WriteOK(t, r)'
    BY <1>4, <1>6
  <2>1. <<t, "update">> \in lock'[r]
    BY <1>1, <1>5, AssignedFacts, WorkLocks DEF Modes
  <2>2. Exists(r)' /\ Known(r)' /\ Children(r)' = {}
    <3>1. TablesRest
      BY <1>1 DEF TablesRest
    <3>2. QED
      BY <1>1, <3>1, TablesFacts DEF Sound, TodoOK
  <2>3. Noted(t, "delete", r, <<>>)'
    <3>1. \A c \in DOMAIN <<>> : FALSE
      OBVIOUS
    <3>2. PICK i \in DOMAIN entries'[t] :
            entries'[t][i].act = "delete" /\ entries'[t][i].row = r
      BY <1>1, <1>3
    <3>3. QED
      BY <3>1, <3>2 DEF Noted
  <2>4. DeleteOK(t, r)'
    BY <1>1, <2>1, <2>2, <2>3 DEF DeleteOK
  <2>5. QED
    BY <1>2, <2>4 DEF WriteOK
<1>8. ~Exists(r) \/ writes'[t][r].op = "delete"
  BY <1>2, <1>4, <1>6
<1>9. QED
  BY <1>1, <1>2, <1>3, <1>5, <1>7, <1>8, WorkStep

-----------------------------------------------------------------------------
(* The commit.                                                               *)

(* What it does to the rows.                                                 *)
LEMMA CommitRows ==
  ASSUME IInv, NEW t \in Tx, Commit(t), NEW r \in Row
  PROVE  /\ store' \in [Row -> Image \cup {Absent}]
         /\ writes[t][r].op \in {"none", "insert", "set", "delete"}
         /\ writes[t][r].op = "none" => store'[r] = store[r] /\ (Exists(r)' <=> Exists(r))
         /\ writes[t][r].op = "insert" =>
              store'[r] = writes[t][r].cols /\ ~Exists(r) /\ Exists(r)'
         /\ writes[t][r].op = "set" =>
              store'[r] = Over(writes[t][r].cols, store[r]) /\ Exists(r) /\ Exists(r)'
         /\ writes[t][r].op = "delete" => store'[r] = Absent /\ Exists(r) /\ ~Exists(r)'
<1>1. TypeOK /\ Sound(t) /\ store' = [s \in Row |-> Apply(writes[t][s], store[s])]
  BY DEF IInv, Commit
<1>2. ASSUME NEW s \in Row
      PROVE  /\ writes[t][s] \in WriteOps /\ store'[s] = Apply(writes[t][s], store[s])
             /\ WriteOK(t, s) /\ (Exists(s)' <=> store'[s] # Absent)
             /\ writes[t][s].op \in {"none", "delete", "insert", "set"}
             /\ writes[t][s].op = "insert" => writes[t][s].cols \in Image
             /\ writes[t][s].op = "set" => writes[t][s].cols \in Patch
             /\ store[s] \in Image \cup {Absent} /\ (Exists(s) <=> store[s] \in Image)
  <2>1. writes[t][s] \in WriteOps /\ store[s] \in Image \cup {Absent}
    BY <1>1, Types
  <2>2. WriteOK(t, s) /\ (Exists(s) <=> store[s] \in Image)
    BY <1>1, Types DEF Sound
  <2>3. QED
    BY <1>1, <2>1, <2>2, WriteFacts DEF Exists
<1>3. ASSUME NEW s \in Row
      PROVE  /\ store'[s] \in Image \cup {Absent}
             /\ writes[t][s].op = "none" => store'[s] = store[s]
             /\ writes[t][s].op = "insert" =>
                  store'[s] = writes[t][s].cols /\ ~Exists(s) /\ store'[s] \in Image
             /\ writes[t][s].op = "set" =>
                  /\ store'[s] = Over(writes[t][s].cols, store[s])
                  /\ Exists(s) /\ store'[s] \in Image
             /\ writes[t][s].op = "delete" => store'[s] = Absent /\ Exists(s)
  <2>1. CASE writes[t][s].op = "none"
    BY <1>2, <2>1 DEF Apply
  <2>2. CASE writes[t][s].op = "insert"
    BY <1>2, <2>2 DEF Apply, WriteOK, InsertOK
  <2>3. CASE writes[t][s].op = "set"
    <3>1. store'[s] = Over(writes[t][s].cols, store[s]) /\ Exists(s)
      BY <1>2, <2>3 DEF Apply, WriteOK, SetOK
    <3>2. QED
      BY <1>2, <2>3, <3>1, PatchFacts
  <2>4. CASE writes[t][s].op = "delete"
    BY <1>2, <2>4 DEF Apply, WriteOK, DeleteOK
  <2>5. QED
    BY <1>2, <2>1, <2>2, <2>3, <2>4
<1>4. store' \in [Row -> Image \cup {Absent}]
  BY <1>1, <1>3
<1>5. QED
  BY <1>2, <1>3, <1>4, VaultAssumption DEF Exists

(* What it does to the trail.                                                *)
LEMMA CommitTrail ==
  ASSUME IInv, NEW t \in Tx, Commit(t)
  PROVE  /\ audit' \in Seq(Entry)
         /\ \A a, r : Logged(a, r) => Logged(a, r)'
         /\ \A i \in DOMAIN entries[t] : /\ Len(audit) + i \in Len(audit) + 1 .. Len(audit')
                                        /\ audit'[Len(audit) + i] = entries[t][i]
         /\ \A a, r : (\E i \in DOMAIN entries[t] : entries[t][i].act = a /\ entries[t][i].row = r)
                     => Logged(a, r)'
         /\ \A i \in DOMAIN audit' : \/ i \in DOMAIN audit /\ audit'[i] = audit[i]
                                    \/ \E j \in DOMAIN entries[t] : audit'[i] = entries[t][j]
<1>1. /\ audit \in Seq(Entry) /\ entries[t] \in Seq(Entry) /\ audit' = audit \o entries[t]
  BY Types DEF IInv, Commit
<1>2. /\ audit' \in Seq(Entry)
      /\ \A i \in DOMAIN audit : i \in DOMAIN audit' /\ audit'[i] = audit[i]
      /\ \A i \in DOMAIN entries[t] :
           Len(audit) + i \in DOMAIN audit' /\ audit'[Len(audit) + i] = entries[t][i]
      /\ \A i \in DOMAIN audit' :
           \/ i \in DOMAIN audit
           \/ i - Len(audit) \in DOMAIN entries[t] /\ audit'[i] = entries[t][i - Len(audit)]
  BY <1>1, ConcatFacts
<1>3. \A i \in DOMAIN entries[t] : Len(audit) + i \in Len(audit) + 1 .. Len(audit')
  <2>1. DOMAIN audit' = 1 .. Len(audit') /\ DOMAIN entries[t] = 1 .. Len(entries[t])
    BY <1>1, <1>2
  <2>2. Len(audit) \in Nat /\ Len(entries[t]) \in Nat
    BY <1>1
  <2>3. QED
    BY <1>2, <2>1, <2>2
<1>4. \A a, r : Logged(a, r) => Logged(a, r)'
  BY <1>2 DEF Logged
<1>5. \A a, r : (\E i \in DOMAIN entries[t] : entries[t][i].act = a /\ entries[t][i].row = r)
               => Logged(a, r)'
  BY <1>2 DEF Logged
<1>6. QED
  BY <1>2, <1>3, <1>4, <1>5

(* What it does to the record of the intake.                                 *)
LEMMA CommitSeeded ==
  ASSUME IInv, NEW t \in Tx, Commit(t)
  PROVE  /\ seeded' \in [Row -> Image \cup {Absent}]
         /\ \A r \in Row :
              /\ kind[t] = "intake" /\ writes[t][r].op = "insert" =>
                   seeded'[r] = writes[t][r].cols /\ seeded'[r] \in Image
              /\ kind[t] # "intake" \/ writes[t][r].op # "insert" => seeded'[r] = seeded[r]
<1>1. TypeOK /\ Sound(t) /\ seeded \in [Row -> Image \cup {Absent}]
  BY DEF IInv, TypeOK
<1>2. seeded' = [r \in Row |->
        IF kind[t] = "intake" /\ r \in Written(t) THEN writes[t][r].cols ELSE seeded[r]]
  BY DEF Commit, Remember
<1>3. ASSUME NEW r \in Row, kind[t] = "intake"
      PROVE  r \in Written(t) <=> writes[t][r].op = "insert"
  <2>1. WriteOK(t, r) /\ writes[t][r] \in WriteOps
    BY <1>1, Types DEF Sound
  <2>2. writes[t][r].op \in {"none", "insert"}
    BY <1>3, <2>1, WriteFacts DEF WriteOK, SetOK, DeleteOK
  <2>3. QED
    BY <2>2 DEF Written
<1>4. \A r \in Row : writes[t][r].op = "insert" => writes[t][r].cols \in Image
  BY <1>1, Types, WriteFacts
<1>5. \A r \in Row :
        /\ kind[t] = "intake" /\ writes[t][r].op = "insert" =>
             seeded'[r] = writes[t][r].cols /\ seeded'[r] \in Image
        /\ kind[t] # "intake" \/ writes[t][r].op # "insert" => seeded'[r] = seeded[r]
  BY <1>2, <1>3, <1>4
<1>6. seeded' \in [Row -> Image \cup {Absent}]
  <2>1. \A r \in Row : seeded'[r] \in Image \cup {Absent}
    BY <1>1, <1>5
  <2>2. QED
    BY <1>2, <2>1
<1>7. QED
  BY <1>5, <1>6

(* A beginning once known stays known, and only an insert makes one.          *)
LEMMA CommitKnown ==
  ASSUME IInv, NEW t \in Tx, Commit(t), NEW r \in Row
  PROVE  /\ Known(r)' <=> Known(r) \/ writes[t][r].op = "insert"
         /\ writes[t][r].op = "insert" => ~Known(r)
         /\ Logged("delete", r)' <=> \/ Logged("delete", r)
                                     \/ \E i \in DOMAIN entries[t] :
                                          entries[t][i].act = "delete" /\ entries[t][i].row = r
<1>1. Sound(t) /\ TypeOK
  BY DEF IInv
<1>2. \A a : Logged(a, r)' <=> \/ Logged(a, r)
                              \/ \E i \in DOMAIN entries[t] :
                                   entries[t][i].act = a /\ entries[t][i].row = r
  <2>1. ASSUME NEW a, Logged(a, r)'
        PROVE  \/ Logged(a, r)
               \/ \E i \in DOMAIN entries[t] : entries[t][i].act = a /\ entries[t][i].row = r
    <3>1. PICK i \in DOMAIN audit' : audit'[i].act = a /\ audit'[i].row = r
      BY <2>1 DEF Logged
    <3>2. QED
      BY <3>1, CommitTrail DEF Logged
  <2>2. QED
    BY <2>1, CommitTrail
<1>3. ASSUME NEW i \in DOMAIN entries[t], entries[t][i].act = "create", entries[t][i].row = r
      PROVE  writes[t][r].op = "insert"
  BY <1>1, <1>3 DEF Sound, EntryOK
<1>4. WriteOK(t, r)
  BY <1>1 DEF Sound
<1>5. CASE writes[t][r].op = "insert"
  <2>1. InsertOK(t, r)
    BY <1>4, <1>5 DEF WriteOK
  <2>2. ~Known(r)
    BY <2>1 DEF InsertOK, Known, Unlogged, Logged
  <2>3. CASE kind[t] = "create"
    <3>1. Logged("create", r)'
      BY <1>2, <2>1, <2>3 DEF InsertOK, Noted
    <3>2. QED
      BY <1>2, <1>5, <2>2, <3>1 DEF Known
  <2>4. CASE kind[t] = "intake"
    <3>1. seeded'[r] # Absent
      BY <1>5, <2>4, CommitSeeded, VaultAssumption
    <3>2. QED
      BY <1>2, <1>5, <2>2, <3>1 DEF Known
  <2>5. QED
    BY <2>1, <2>3, <2>4 DEF InsertOK
<1>6. CASE writes[t][r].op # "insert"
  <2>1. seeded'[r] = seeded[r]
    BY <1>6, CommitSeeded
  <2>2. Logged("create", r)' <=> Logged("create", r)
    BY <1>2, <1>3, <1>6
  <2>3. QED
    BY <1>2, <1>6, <2>1, <2>2 DEF Known
<1>7. QED
  BY <1>5, <1>6

(* A row that exists after the commit and refers to p did so before, or the   *)
(* request has p anchored.                                                    *)
LEMMA CommitKeys ==
  ASSUME IInv, NEW t \in Tx, Commit(t), NEW s \in Row, NEW k \in Key, Exists(s)'
  PROVE  /\ store'[s][k] \in Row \cup {NoRow}
         /\ \/ Exists(s) /\ store'[s][k] = store[s][k]
            \/ /\ kind[t] # "delete" /\ store'[s][k] \in Target[s][k]
               /\ store'[s][k] # NoRow => Anchored(t, store'[s][k])
<1>1. /\ TypeOK /\ WriteOK(t, s) /\ k \in Col /\ writes[t][s] \in WriteOps
      /\ store[s] \in Image \cup {Absent}
  BY Types, VaultAssumption DEF IInv, Sound
<1>2. store'[s][k] \in Row \cup {NoRow}
  BY CommitRows, PatchFacts DEF Exists
<1>3. CASE writes[t][s].op = "none"
  <2>1. QED
    BY <1>2, <1>3, CommitRows
<1>4. CASE writes[t][s].op = "insert"
  <2>1. InsertOK(t, s) /\ store'[s] = writes[t][s].cols /\ writes[t][s].cols \in Image
    BY <1>1, <1>4, CommitRows, WriteFacts DEF WriteOK
  <2>2. k \in DOMAIN writes[t][s].cols
    BY <1>1, <2>1, PatchFacts
  <2>3. QED
    BY <1>2, <2>1, <2>2 DEF InsertOK, KeysOK
<1>5. CASE writes[t][s].op = "set"
  <2>1. SetOK(t, s) /\ store'[s] = Over(writes[t][s].cols, store[s])
    BY <1>1, <1>5, CommitRows DEF WriteOK
  <2>2. CASE k \in DOMAIN writes[t][s].cols
    <3>1. store'[s][k] = writes[t][s].cols[k]
      BY <1>1, <2>1, <2>2 DEF Over
    <3>2. QED
      BY <1>2, <2>1, <2>2, <3>1 DEF SetOK, KeysOK
  <2>3. CASE k \notin DOMAIN writes[t][s].cols
    <3>1. store'[s][k] = store[s][k]
      BY <1>1, <2>1, <2>3 DEF Over
    <3>2. QED
      BY <1>2, <2>1, <3>1 DEF SetOK
  <2>4. QED
    BY <2>2, <2>3
<1>6. CASE writes[t][s].op = "delete"
  BY <1>6, CommitRows
<1>7. QED
  BY <1>1, <1>3, <1>4, <1>5, <1>6, WriteFacts

LEMMA CommitLifecycle ==
  ASSUME IInv, NEW t \in Tx, Commit(t)
  PROVE  LifecycleAudited' /\ NoOrphans'
<1>1. Sound(t) /\ LifecycleAudited /\ NoOrphans /\ TypeOK
  BY DEF IInv
<1>2. ASSUME NEW r \in Row
      PROVE  Exists(r)' <=> Known(r)' /\ ~Logged("delete", r)'
  <2>1. \A i \in DOMAIN entries[t] : entries[t][i].row = r /\ entries[t][i].act = "delete" =>
          Known(r) /\ (writes[t][r].op = "delete" \/ ~Exists(r))
    <3>1. ASSUME NEW i \in DOMAIN entries[t], entries[t][i].row = r,
                 entries[t][i].act = "delete"
          PROVE  Known(r) /\ (writes[t][r].op = "delete" \/ ~Exists(r))
      BY <1>1, <3>1 DEF Sound, EntryOK
    <3>2. QED
      BY <3>1
  <2>2. WriteOK(t, r) /\ (Exists(r) <=> Known(r) /\ ~Logged("delete", r))
    BY <1>1 DEF Sound, LifecycleAudited, Known
  <2>3. writes[t][r].op = "delete" =>
          \E i \in DOMAIN entries[t] : entries[t][i].act = "delete" /\ entries[t][i].row = r
    BY <2>2 DEF WriteOK, DeleteOK, Noted
  <2>4. writes[t][r].op = "insert" => ~Logged("delete", r)
    BY <2>2 DEF WriteOK, InsertOK, Unlogged, Logged
  <2>5. QED
    BY <2>1, <2>2, <2>3, <2>4, CommitKnown, CommitRows
<1>3. ASSUME NEW s \in Row, NEW k \in Key, Exists(s)'
      PROVE  (store[s][k] \in Target[s][k] /\ (store[s][k] # NoRow => Exists(store[s][k])))'
  <2>1. PICK p : p = store'[s][k]
    OBVIOUS
  <2>2. /\ p \in Row \cup {NoRow}
        /\ \/ Exists(s) /\ p = store[s][k]
           \/ kind[t] # "delete" /\ p \in Target[s][k] /\ (p # NoRow => Anchored(t, p))
    BY <1>3, <2>1, CommitKeys
  <2>3. p # NoRow => WriteOK(t, p)
    BY <1>1, <2>2 DEF Sound
  <2>4. CASE Exists(s) /\ p = store[s][k]
    <3>1. p \in Target[s][k] /\ (p # NoRow => Exists(p))
      BY <1>1, <2>4 DEF NoOrphans
    <3>2. p # NoRow => s \in Children(p)
      BY <2>2, <2>4 DEF Children
    <3>3. p # NoRow => writes[t][p].op # "delete"
      BY <2>3, <3>2 DEF WriteOK, DeleteOK
    <3>4. p # NoRow => Exists(p)'
      BY <2>2, <3>1, <3>3, CommitRows
    <3>5. QED
      BY <2>1, <3>1, <3>4
  <2>5. CASE kind[t] # "delete" /\ p \in Target[s][k] /\ (p # NoRow => Anchored(t, p))
    <3>1. p # NoRow => writes[t][p].op # "delete"
      BY <2>3, <2>5 DEF WriteOK, DeleteOK
    <3>2. p # NoRow => Exists(p)'
      BY <2>2, <2>5, <3>1, CommitRows DEF Anchored
    <3>3. QED
      BY <2>1, <2>5, <3>2
  <2>6. QED
    BY <2>2, <2>4, <2>5
<1>4. LifecycleAudited'
  BY <1>2 DEF LifecycleAudited, Known
<1>5. NoOrphans'
  BY <1>3 DEF NoOrphans
<1>6. QED
  BY <1>4, <1>5

(* Two requests that have written hold locks that conflict.                  *)
LEMMA NotDeletedByOther ==
  ASSUME IInv, NEW t \in Tx, NEW u \in Tx \ {t}, NEW r \in Row, NEW m \in Modes,
         <<u, m>> \in lock[r]
  PROVE  writes[t][r].op # "delete"
<1>1. SUFFICES ASSUME writes[t][r].op = "delete" PROVE FALSE
  OBVIOUS
<1>2. <<t, "update">> \in lock[r]
  BY <1>1 DEF IInv, Sound, WriteOK, DeleteOK
<1>3. ~Conflict("update", m)
  <2>1. <<t, "update">>[1] # <<u, m>>[1]
    OBVIOUS
  <2>2. QED
    BY <1>2, <2>1 DEF IInv, LocksOK
<1>4. QED
  BY <1>3 DEF Conflict

(* What one request has anchored another does not delete.                    *)
LEMMA AnchoredSafe ==
  ASSUME IInv, NEW t \in Tx, NEW u \in Tx \ {t}, NEW p \in Row, Anchored(u, p)
  PROVE  writes[t][p].op # "delete"
<1>1. CASE <<u, "key share">> \in lock[p]
  BY <1>1, NotDeletedByOther DEF Modes
<1>2. CASE writes[u][p].op = "insert"
  <2>1. ~Exists(p)
    BY <1>2 DEF IInv, Sound, WriteOK, InsertOK
  <2>2. QED
    BY <2>1 DEF IInv, Sound, WriteOK, DeleteOK
<1>3. QED
  BY <1>1, <1>2 DEF Anchored

LEMMA CommitOthers ==
  ASSUME IInv, NEW t \in Tx, Commit(t), NEW u \in Tx \ {t}
  PROVE  Sound(u)'
<1>1. TypeOK /\ Sound(t) /\ Sound(u) /\ IdsOK
  BY DEF IInv
<1>2. /\ pc'[u] = pc[u] /\ kind'[u] = kind[u] /\ patch'[u] = patch[u]
      /\ seen'[u] = seen[u] /\ todo'[u] = todo[u]
      /\ writes'[u] = writes[u] /\ entries'[u] = entries[u] /\ born' = born
      /\ \A r \in Row, m \in Modes : <<u, m>> \in lock[r] => <<u, m>> \in lock'[r]
  BY <1>1, CloseFacts DEF Commit, OthersRest
<1>3. \A a, r, f : Noted(u, a, r, f)' <=> Noted(u, a, r, f)
  BY <1>2 DEF Noted
<1>4. \A r \in Row : Known(r) => Known(r)'
  BY CommitKnown
<1>5. {"key share", "no key update", "update"} \subseteq Modes
  BY DEF Modes
<1>6. ASSUME NEW r \in Row, NEW f \in Patch, KeysOK(u, r, f) PROVE KeysOK(u, r, f)'
  <2> SUFFICES ASSUME NEW k \in Key, k \in DOMAIN f
               PROVE  f[k] \in Target[r][k] /\ (f[k] # NoRow => Anchored(u, f[k])')
    BY DEF KeysOK
  <2>1. /\ f[k] \in Target[r][k] /\ (f[k] # NoRow => Anchored(u, f[k]))
        /\ f[k] \in Row \cup {NoRow}
    BY <1>6, PatchFacts DEF KeysOK
  <2>2. f[k] # NoRow => writes[t][f[k]].op # "delete"
    BY <2>1, AnchoredSafe
  <2>3. f[k] # NoRow /\ Exists(f[k]) => Exists(f[k])'
    BY <2>1, <2>2, CommitRows
  <2>4. QED
    BY <1>2, <1>5, <2>1, <2>3 DEF Anchored
<1>7. ASSUME NEW r \in Row PROVE WriteOK(u, r)'
  <2>1. WriteOK(u, r) /\ WriteOK(t, r) /\ writes[u][r] \in WriteOps
    BY <1>1, Types DEF Sound
  <2>2. writes[u][r].op \in {"insert", "set"} => writes[u][r].cols \in Patch
    BY <2>1, WriteFacts, PatchFacts
  <2>3. CASE writes[u][r].op = "insert"
    <3>1. InsertOK(u, r)
      BY <2>1, <2>3 DEF WriteOK
    <3>2. writes[t][r].op # "insert" /\ ~Exists(r) /\ Unlogged(r) /\ seeded[r] = Absent
      BY <1>1, <2>3, <3>1 DEF IdsOK, InsertOK
    <3>3. ~Exists(r)' /\ (seeded[r] = Absent)'
      BY <3>2, CommitRows, CommitSeeded
    <3>4. Unlogged(r)'
      <4>1. \A i \in DOMAIN entries[t] : entries[t][i].row # r
        <5>1. \A i \in DOMAIN entries[t] : EntryOK(t, entries[t][i])
          BY <1>1 DEF Sound
        <5>2. ~Known(r)
          BY <3>2 DEF Unlogged, Logged, Known
        <5>3. QED
          BY <3>2, <5>1, <5>2 DEF EntryOK
      <4>2. QED
        BY <3>2, <4>1, CommitTrail DEF Unlogged
    <3>5. KeysOK(u, r, writes[u][r].cols)'
      BY <1>2, <1>6, <2>2, <2>3, <3>1 DEF InsertOK
    <3>6. InsertOK(u, r)'
      BY <1>2, <1>3, <3>1, <3>3, <3>4, <3>5 DEF InsertOK
    <3>7. QED
      BY <1>2, <2>3, <3>6 DEF WriteOK
  <2>4. CASE writes[u][r].op = "set"
    <3>1. SetOK(u, r)
      BY <2>1, <2>4 DEF WriteOK
    <3>2. Exists(r)'
      <4>1. Exists(r) /\ writes[t][r].op # "delete"
        BY <1>5, <3>1, NotDeletedByOther DEF SetOK
      <4>2. QED
        BY <4>1, CommitRows
    <3>3. <<u, "no key update">> \in lock'[r]
      BY <1>2, <1>5, <3>1 DEF SetOK
    <3>4. KeysOK(u, r, writes[u][r].cols)'
      BY <1>2, <1>6, <2>2, <2>4, <3>1 DEF SetOK
    <3>5. SetOK(u, r)'
      BY <1>2, <1>3, <1>4, <3>1, <3>2, <3>3, <3>4 DEF SetOK
    <3>6. QED
      BY <1>2, <2>4, <3>5 DEF WriteOK
  <2>5. CASE writes[u][r].op = "delete"
    <3>1. DeleteOK(u, r)
      BY <2>1, <2>5 DEF WriteOK
    <3>2. Exists(r)'
      <4>1. Exists(r) /\ writes[t][r].op # "delete"
        BY <1>5, <3>1, NotDeletedByOther DEF DeleteOK
      <4>2. QED
        BY <4>1, CommitRows
    <3>3. <<u, "update">> \in lock'[r]
      BY <1>2, <1>5, <3>1 DEF DeleteOK
    <3>4. Children(r)' = {}
      <4>1. SUFFICES ASSUME NEW s \in Row, Exists(s)', NEW k \in Key, store'[s][k] = r
                     PROVE  FALSE
        BY DEF Children
      <4>2. r # NoRow
        BY VaultAssumption
      <4>3. CASE Exists(s) /\ store'[s][k] = store[s][k]
        BY <3>1, <4>1, <4>3 DEF DeleteOK, Children
      <4>4. CASE Anchored(t, r)
        <5>1. writes[u][r].op # "delete"
          BY <4>4, AnchoredSafe
        <5>2. QED
          BY <2>5, <5>1
      <4>5. QED
        BY <4>1, <4>2, <4>3, <4>4, CommitKeys
    <3>5. DeleteOK(u, r)'
      BY <1>2, <1>3, <1>4, <3>1, <3>2, <3>3, <3>4 DEF DeleteOK
    <3>6. QED
      BY <1>2, <2>5, <3>5 DEF WriteOK
  <2>6. QED
    BY <1>2, <2>3, <2>4, <2>5 DEF WriteOK
<1>8. ASSUME NEW i \in DOMAIN entries[u], NEW e, e = entries[u][i] PROVE EntryOK(u, e)'
  <2>1. EntryOK(u, e) /\ e.row \in Row
    BY <1>1, <1>8, Types, EntryFacts DEF Sound
  <2>2. ~Exists(e.row) /\ Known(e.row) => ~Exists(e.row)'
    BY <2>1, CommitKnown, CommitRows
  <2>3. QED
    BY <1>2, <1>4, <2>1, <2>2 DEF EntryOK
<1>9. Clean(u)' /\ TodoOK(u)'
  BY <1>1, <1>2, <1>4, Types DEF Sound, Clean, TodoOK
<1>10. \A i \in DOMAIN entries'[u] : EntryOK(u, entries[u][i])'
  BY <1>2, <1>8
<1>11. QED
  BY <1>7, <1>9, <1>10 DEF Sound

LEMMA CommitStep ==
  ASSUME IInv, NEW t \in Tx, Commit(t)
  PROVE  IInv'
<1>1. TypeOK /\ Close(t) /\ Sound(t) /\ born' = born /\ ops' = ops
  BY DEF IInv, Commit
<1>2. /\ OthersRest(t)
      /\ kind'[t] = "none" /\ todo'[t] = {} /\ entries'[t] = <<>>
      /\ \A r \in Row : writes'[t][r] = NoWrite
  BY <1>1, CloseFacts
<1>3. TypeOK'
  <2>1. audit' \in Seq(Entry)
    BY CommitTrail
  <2>2. store' \in [Row -> Image \cup {Absent}]
    <3>1. CASE Row = {}
      BY <3>1 DEF Commit
    <3>2. CASE Row # {}
      BY <3>2, CommitRows
    <3>3. QED
      BY <3>1, <3>2
  <2>3. raced' \in SUBSET Row /\ repriced' \in SUBSET Row
    BY <1>1 DEF Commit, TypeOK, Written, Remember
  <2>4. seeded' \in [Row -> Image \cup {Absent}]
    BY CommitSeeded
  <2>5. QED
    BY <1>1, <2>1, <2>2, <2>3, <2>4, CloseFacts DEF TypeOK
<1>4. LocksOK'
  BY <1>1, CloseFacts DEF IInv, LocksOK
<1>5. IdsOK'
  <2>1. ASSUME NEW r \in Row, Exists(r)' \/ seeded'[r] # Absent PROVE r \in born'
    <3>1. writes[t][r].op = "insert" => r \in born
      BY <1>1 DEF Sound, WriteOK, InsertOK
    <3>2. Exists(r) => r \in born
      BY DEF IInv, IdsOK
    <3>3. seeded[r] # Absent => r \in born
      BY DEF IInv, IdsOK
    <3>4. CASE Exists(r)'
      BY <1>1, <3>1, <3>2, <3>4, CommitRows
    <3>5. CASE seeded'[r] # Absent
      BY <1>1, <3>1, <3>3, <3>5, CommitSeeded
    <3>6. QED
      BY <2>1, <3>4, <3>5
  <2>2. \A i \in DOMAIN entries[t] : entries[t][i].row \in born
    <3>1. ASSUME NEW i \in DOMAIN entries[t] PROVE entries[t][i].row \in born
      <4>1. EntryOK(t, entries[t][i]) /\ entries[t][i].row \in Row
        BY <1>1, Types, EntryFacts DEF Sound
      <4>2. CASE entries[t][i].act = "create"
        BY <1>1, <4>1, <4>2 DEF EntryOK, Sound, WriteOK, InsertOK
      <4>3. CASE entries[t][i].act # "create"
        <5>1. Known(entries[t][i].row)
          BY <4>1, <4>3 DEF EntryOK
        <5>2. QED
          BY <4>1, <5>1 DEF Known, Logged, IInv, IdsOK
      <4>4. QED
        BY <4>2, <4>3
    <3>2. QED
      BY <3>1
  <2>3. \A i \in DOMAIN audit' : audit'[i].row \in born'
    <3>1. \A i \in DOMAIN audit : audit[i].row \in born
      BY DEF IInv, IdsOK
    <3>2. QED
      BY <1>1, <2>2, <3>1, CommitTrail
  <2>4. \A u \in Tx, r \in Row : writes'[u][r].op = "insert" => writes[u][r].op = "insert"
    BY <1>2, WriteFacts DEF OthersRest
  <2>5. \A r \in Row : (Exists(r) \/ seeded[r] # Absent)' => r \in born'
    BY <2>1
  <2>6. \A u, v \in Tx, r \in Row :
          writes'[u][r].op = "insert" /\ writes'[v][r].op = "insert" => u = v
    BY <2>4 DEF IInv, IdsOK
  <2>7. QED
    BY <2>3, <2>5, <2>6 DEF IdsOK
<1>6. Sound(t)'
  <2>1. \A r \in Row : WriteOK(t, r)'
    BY <1>2, WriteFacts DEF WriteOK
  <2>2. QED
    BY <1>2, <2>1 DEF Sound, Clean, TodoOK
<1>7. \A u \in Tx : Sound(u)'
  BY <1>6, CommitOthers
<1>8. QED
  BY <1>3, <1>4, <1>5, <1>7, CommitLifecycle DEF IInv

-----------------------------------------------------------------------------
(* The invariant, and what follows from it.                                  *)

LEMMA SameInv == ASSUME IInv, UNCHANGED vars PROVE IInv'
<1>1. UNCHANGED <<store, born, audit, lock, pc, kind, patch, seen, todo, writes, entries, ops,
                  raced, seeded, repriced>>
  BY DEF vars, tx, history
<1>2. TypeOK'
  BY <1>1 DEF IInv, TypeOK
<1>3. LocksOK' /\ IdsOK' /\ TablesRest
  BY <1>1 DEF IInv, LocksOK, IdsOK, Exists, TablesRest
<1>4. LifecycleAudited' /\ NoOrphans'
  BY <1>3, TablesSame
<1>5. ASSUME NEW t \in Tx PROVE Sound(t)'
  <2>1. Sound(t) /\ TypeOK
    BY DEF IInv
  <2>2. \A a, r, f : Noted(t, a, r, f) => Noted(t, a, r, f)'
    BY <1>1 DEF Noted
  <2>3. Clean(t)' /\ TodoOK(t)'
    BY <1>1, <1>3, <2>1, TablesFacts, Types DEF Sound, Clean, TodoOK
  <2>4. ASSUME NEW r \in Row PROVE WriteOK(t, r)'
    <3>1. WriteOK(t, r)
      BY <2>1 DEF Sound
    <3>2. QED
      BY <1>1, <1>3, <2>1, <2>2, <3>1, WriteKept
  <2>5. ASSUME NEW i \in DOMAIN entries[t] PROVE EntryOK(t, entries[t][i])'
    <3>1. EntryOK(t, entries[t][i]) /\ entries[t][i].row \in Row
      BY <2>1, Types, EntryFacts DEF Sound
    <3>2. QED
      BY <1>1, <1>3, <3>1, TablesFacts DEF EntryOK
  <2>6. QED
    BY <1>1, <2>3, <2>4, <2>5 DEF Sound
<1>6. QED
  BY <1>2, <1>3, <1>4, <1>5 DEF IInv

(* The steps of Next, with their inputs in the sets that the lemmas ask for.  *)
LEMMA NextCases ==
  ASSUME Next
  PROVE  \/ \E t \in Tx, r \in Row, img \in Image : Create(t, r, img)
         \/ \E t \in Tx, r \in Row, img \in Image : CreateRefused(t, r, img)
         \/ \E t \in Tx, r \in Row, k \in {"update", "delete", "price"}, f \in Patch :
              /\ Load(t, k, r, f)
              /\ k = "price" => r \in Holding /\ \E v \in Val : f = PriceOf(v)
              /\ k = "delete" => f = <<>>
         \/ \E t \in Tx, r \in Row : Step(t, r)
         \/ \E t \in Tx, rows \in SUBSET Row, ans \in Answers : Intake(t, rows, ans)
         \/ \E t \in Tx, rows \in SUBSET Property : \E est \in [rows -> Val] : LoadProperties(t, est)
         \/ \E t \in Tx, rows \in SUBSET Holding, v \in Val : UpdateTicker(t, rows, v)
         \/ \E t \in Tx : ListTickers(t)
         \/ \E t \in Tx : Commit(t)
         \/ \E t \in Tx : Abort(t) \/ Victim(t)
         \/ UNCHANGED vars
<1>1. \A r \in Row : NewRow(r) \subseteq Image /\ Body(r) \subseteq Patch
  BY DEF NewRow, Body
<1>2. ASSUME NEW t \in Tx, NEW r \in Row,
             \/ \E f \in Body(r) : Load(t, "update", r, f)
             \/ Load(t, "delete", r, <<>>)
             \/ r \in Holding /\ \E v \in Val : Load(t, "price", r, PriceOf(v))
      PROVE  \E k \in {"update", "delete", "price"}, f \in Patch :
               /\ Load(t, k, r, f)
               /\ k = "price" => r \in Holding /\ \E v \in Val : f = PriceOf(v)
               /\ k = "delete" => f = <<>>
  <2>1. CASE \E f \in Body(r) : Load(t, "update", r, f)
    BY <1>1, <2>1
  <2>2. CASE Load(t, "delete", r, <<>>)
    BY <2>2, PatchFacts
  <2>3. CASE r \in Holding /\ \E v \in Val : Load(t, "price", r, PriceOf(v))
    BY <2>3, PatchFacts
  <2>4. QED
    BY <1>2, <2>1, <2>2, <2>3
<1>3. ASSUME NEW t \in Tx, NEW r \in Row,
             \/ \E img \in NewRow(r) : Create(t, r, img) \/ CreateRefused(t, r, img)
             \/ \E f \in Body(r) : Load(t, "update", r, f)
             \/ Load(t, "delete", r, <<>>)
             \/ r \in Holding /\ \E v \in Val : Load(t, "price", r, PriceOf(v))
             \/ Step(t, r)
      PROVE  \/ \E img \in Image : Create(t, r, img)
             \/ \E img \in Image : CreateRefused(t, r, img)
             \/ \E k \in {"update", "delete", "price"}, f \in Patch :
                  /\ Load(t, k, r, f)
                  /\ k = "price" => r \in Holding /\ \E v \in Val : f = PriceOf(v)
                  /\ k = "delete" => f = <<>>
             \/ Step(t, r)
  BY <1>1, <1>2, <1>3
<1>4. Idle => UNCHANGED vars
  BY DEF Idle
<1>5. CASE \E t \in Tx, r \in Row :
             \/ \E img \in NewRow(r) : Create(t, r, img) \/ CreateRefused(t, r, img)
             \/ \E f \in Body(r) : Load(t, "update", r, f)
             \/ Load(t, "delete", r, <<>>)
             \/ r \in Holding /\ \E v \in Val : Load(t, "price", r, PriceOf(v))
             \/ Step(t, r)
  BY <1>3, <1>5, Zenon
<1>6. CASE \E t \in Tx, rows \in SUBSET Property : \E est \in [rows -> Val] : LoadProperties(t, est)
  BY <1>6, Zenon
<1>7. QED
  BY <1>4, <1>5, <1>6, VaultAssumption, Zenon DEF Next

LEMMA Invariance == IInv /\ [Next]_vars => IInv'
<1> SUFFICES ASSUME IInv, [Next]_vars PROVE IInv'
  OBVIOUS
<1>1. ASSUME NEW t \in Tx, NEW r \in Row, NEW img \in Image,
             Create(t, r, img) \/ CreateRefused(t, r, img)
      PROVE  IInv'
  BY <1>1, CreateStep, CreateRefusedStep
<1>2. ASSUME NEW t \in Tx, NEW r \in Row, NEW k \in {"update", "delete", "price"}, NEW f \in Patch,
             Load(t, k, r, f)
      PROVE  IInv'
  <2>1. {r} \in SUBSET Row /\ [NoPatch EXCEPT ![r] = f] \in [Row -> Patch] /\ k \in Kinds
    BY PatchFacts DEF Kinds, NoPatch
  <2>2. QED
    BY <1>2, <2>1, LoadStep DEF Load
<1>3. ASSUME NEW t \in Tx, NEW rows \in SUBSET Property, NEW est \in [rows -> Val],
             LoadProperties(t, est)
      PROVE  IInv'
  <2> DEFINE f == [r \in Row |-> IF r \in DOMAIN est THEN PriceOf(est[r]) ELSE <<>>]
  <2>1. DOMAIN est \in SUBSET Row /\ "values" \in Kinds /\ f \in [Row -> Patch]
    BY <1>3, VaultAssumption, PatchFacts DEF Kinds
  <2>2. /\ Begin(t, "values", DOMAIN est, f) /\ \A r \in DOMAIN est : Exists(r)
        /\ UNCHANGED <<store, born, audit, lock, writes, entries, history>>
    BY <1>3 DEF LoadProperties
  <2> HIDE DEF f
  <2>3. QED
    BY <2>1, <2>2, LoadStep
<1>4. ASSUME NEW t \in Tx, ListTickers(t) PROVE IInv'
  <2>1. {} \in SUBSET Row /\ "prices" \in Kinds /\ NoPatch \in [Row -> Patch]
    BY PatchFacts DEF Kinds, NoPatch
  <2>2. QED
    BY <1>4, <2>1, LoadStep DEF ListTickers
<1>5. ASSUME NEW t \in Tx, NEW rows \in SUBSET Holding, NEW v \in Val, UpdateTicker(t, rows, v)
      PROVE  IInv'
  BY <1>5, VaultAssumption, TickerStep
<1>6. ASSUME NEW t \in Tx, NEW r \in Row, Step(t, r) PROVE IInv'
  BY <1>6, WriteStep, WritePriceRowStep, RemoveStep, RollbackStep
     DEF Step, WriteStale, WriteRefused, RemoveRefused
<1>7. ASSUME NEW t \in Tx, Commit(t) \/ Abort(t) \/ Victim(t) PROVE IInv'
  BY <1>7, CommitStep, RollbackStep DEF Abort, Victim
<1>8. ASSUME UNCHANGED vars PROVE IInv'
  BY <1>8, SameInv
<1>9. QED
  BY <1>1, <1>2, <1>3, <1>4, <1>5, <1>6, <1>7, <1>8, NextCases, IntakeStep

LEMMA InvAlways == Spec => []IInv
BY InitInv, Invariance, PTL DEF Spec

(* The rows, locks, writes and entries have their types.                     *)
THEOREM TypeCorrect == Spec => []TypeOK
<1>1. IInv => TypeOK
  BY DEF IInv
<1>2. QED
  BY <1>1, InvAlways, PTL

(* For any rows and any number of requests: a row is in its table exactly    *)
(* when its creation was logged (write_audit_log in the transaction of the   *)
(* row's own INSERT) or the intake inserted it, and its deletion was not      *)
(* logged (write_audit_log in the transaction of its DELETE).                *)
THEOREM TrailAndIntakeTellWhichRowsExist == Spec => []LifecycleAudited
<1>1. IInv => LifecycleAudited
  BY DEF IInv
<1>2. QED
  BY <1>1, InvAlways, PTL

(* No row outlives a row that a foreign key of it points to: create_holding   *)
(* or the PATCH that moves a holding to another account, and delete_account,  *)
(* may take their locks in any order.                                        *)
THEOREM ForeignKeysHold == Spec => []NoOrphans
<1>1. IInv => NoOrphans
  BY DEF IInv
<1>2. QED
  BY <1>1, InvAlways, PTL

(* Only a commit changes a row, the trail or the record of the intake.       *)
LEMMA OnlyCommit ==
  ASSUME IInv, [Next]_vars, ~UNCHANGED <<store, audit, history>>
  PROVE  \E t \in Tx : Commit(t)
<1>1. ASSUME NEW t \in Tx, NEW r \in Row, Step(t, r) PROVE UNCHANGED <<store, audit, history>>
  BY <1>1 DEF Step, Write, WriteStale, WriteRefused, WritePriceRow, Remove, RemoveRefused, Rollback
<1>2. ASSUME NEW t \in Tx, Abort(t) \/ Victim(t) PROVE UNCHANGED <<store, audit, history>>
  BY <1>2 DEF Abort, Victim, Rollback
<1>3. ASSUME NEW t, NEW r, NEW img, Create(t, r, img) \/ CreateRefused(t, r, img)
      PROVE  UNCHANGED <<store, audit, history>>
  BY <1>3 DEF Create, CreateRefused
<1>4. ASSUME NEW t, NEW k, NEW r, NEW f, Load(t, k, r, f) PROVE UNCHANGED <<store, audit, history>>
  BY <1>4 DEF Load
<1>5. ASSUME NEW t, NEW v, NEW rows, NEW est,
             LoadProperties(t, est) \/ UpdateTicker(t, rows, v) \/ ListTickers(t)
             \/ Intake(t, rows, est)
      PROVE  UNCHANGED <<store, audit, history>>
  BY <1>5 DEF LoadProperties, UpdateTicker, ListTickers, Intake
<1>6. UNCHANGED vars => UNCHANGED <<store, audit, history>>
  BY DEF vars
<1>7. QED
  BY <1>1, <1>2, <1>3, <1>4, <1>5, <1>6, NextCases

(* A PATCH writes the columns of its body and leaves the others to whoever   *)
(* wrote them last (setattr of exclude_unset, UPDATE of the changed columns).*)
THEOREM ColumnsAreTheBodys == Spec => NoColumnReverted
<1> DEFINE A == \A r \in Row, c \in Col :
                  Exists(r) /\ store'[r] # Absent /\ store'[r][c] # store[r][c] =>
                    \E t \in Tx : /\ Ends(t) /\ c \in DOMAIN patch[t][r]
                                  /\ store'[r][c] = patch[t][r][c]
<1>1. IInv /\ [Next]_vars => [A]_vars
  <2>1. SUFFICES ASSUME IInv, [Next]_vars, NEW r \in Row, NEW c \in Col,
                        Exists(r), store'[r] # Absent, store'[r][c] # store[r][c]
                 PROVE  \E t \in Tx : /\ Ends(t) /\ c \in DOMAIN patch[t][r]
                                      /\ store'[r][c] = patch[t][r][c]
    OBVIOUS
  <2>2. PICK t \in Tx : Commit(t)
    BY <2>1, OnlyCommit
  <2>3. writes[t][r].op = "set" /\ store'[r] = Over(writes[t][r].cols, store[r])
    BY <2>1, <2>2, CommitRows
  <2>4. c \in DOMAIN writes[t][r].cols /\ store'[r][c] = writes[t][r].cols[c]
    <3>1. Over(writes[t][r].cols, store[r])[c] =
            IF c \in DOMAIN writes[t][r].cols THEN writes[t][r].cols[c] ELSE store[r][c]
      BY DEF Over
    <3>2. QED
      BY <2>1, <2>3, <3>1
  <2>5. c \in DOMAIN patch[t][r] /\ writes[t][r].cols[c] = patch[t][r][c]
    <3>1. WriteOK(t, r)
      BY <2>1 DEF IInv, Sound
    <3>2. QED
      BY <2>3, <2>4, <3>1 DEF WriteOK, SetOK
  <2>6. Ends(t)
    BY <2>1, <2>2, CloseFacts DEF Commit, IInv, Ends
  <2>7. QED
    BY <2>4, <2>5, <2>6
<1>2. QED
  BY <1>1, InvAlways, PTL DEF Spec, NoColumnReverted

-----------------------------------------------------------------------------
(* The trail and the rows that no two requests worked on at once.            *)

Quiet(r) == r \notin raced

(* A price refresh has to do with holdings and the price only.               *)
RefreshOK(t) ==
  kind[t] \in {"price", "prices"} =>
    /\ todo[t] \subseteq Holding
    /\ \A r \in Row : /\ DOMAIN patch[t][r] \subseteq {Price}
                      /\ writes[t][r].op # "none" => r \in Holding

(* What it has still to write it has not written, and the copy is fresh.     *)
CopyOK(t) ==
  \A r \in todo[t] : writes[t][r].op = "none" /\ (Quiet(r) => seen[t][r] = store[r])

NotedOnce(t) ==
  \A i, j \in DOMAIN entries[t] : entries[t][i].row = entries[t][j].row => i = j

(* Its entry leads from the committed row to what its write will make of it. *)
NotedTrue(t) ==
  \A r \in Row : \A i \in DOMAIN entries[t] :
    entries[t][i].row = r /\ Quiet(r) =>
      /\ entries[t][i].before = store[r]
      /\ entries[t][i].after = Apply(writes[t][r], store[r])

Serial(t) == RefreshOK(t) /\ CopyOK(t) /\ NotedOnce(t) /\ NotedTrue(t)

(* The trail s of r leads from its first image to img.                       *)
Leads(s, first, r, img) ==
  /\ \A i \in DOMAIN s : s[i].row = r => LeftBy(s, first, r, i - 1, s[i].before)
  /\ LeftBy(s, first, r, Len(s), img)

TrailOK == \A r \in Row \ (raced \cup repriced) : Leads(audit, seeded[r], r, store[r])

JInv == TrailOK /\ \A t \in Tx : Serial(t)

(* The steps of t that commit nothing.                                       *)
OnlyMoves(t) ==
  /\ UNCHANGED <<store, audit, raced, seeded, repriced>>
  /\ \A u \in Tx \ {t} :
       /\ kind'[u] = kind[u] /\ patch'[u] = patch[u] /\ seen'[u] = seen[u]
       /\ todo'[u] = todo[u] /\ writes'[u] = writes[u] /\ entries'[u] = entries[u]

LEMMA MovesKeep ==
  ASSUME JInv, NEW t \in Tx, OnlyMoves(t), Serial(t)'
  PROVE  JInv'
<1>1. TrailOK'
  BY DEF JInv, TrailOK, OnlyMoves, Leads
<1>2. ASSUME NEW u \in Tx \ {t} PROVE Serial(u)'
  <2>1. Serial(u)
    BY DEF JInv
  <2>2. /\ kind'[u] = kind[u] /\ patch'[u] = patch[u] /\ seen'[u] = seen[u]
        /\ todo'[u] = todo[u] /\ writes'[u] = writes[u] /\ entries'[u] = entries[u]
        /\ store' = store /\ raced' = raced
    BY DEF OnlyMoves
  <2>3. \A r : Quiet(r)' <=> Quiet(r)
    BY <2>2 DEF Quiet
  <2>4. RefreshOK(u)' /\ CopyOK(u)' /\ NotedOnce(u)'
    BY <2>1, <2>2, <2>3 DEF Serial, RefreshOK, CopyOK, NotedOnce
  <2>5. NotedTrue(u)'
    BY <2>1, <2>2, <2>3 DEF Serial, NotedTrue
  <2>6. QED
    BY <2>4, <2>5 DEF Serial
<1>3. QED
  BY <1>1, <1>2 DEF JInv

LEMMA SerialInit == Init => JInv
<1> SUFFICES ASSUME Init PROVE JInv
  OBVIOUS
<1>1. /\ audit = <<>> /\ \A r \in Row : store[r] = Absent /\ seeded[r] = Absent
      /\ \A t \in Tx : kind[t] = "none" /\ todo[t] = {} /\ entries[t] = <<>>
  BY DEF Init, NoRows
<1>2. TrailOK
  BY <1>1 DEF TrailOK, Leads, LeftBy
<1>3. \A t \in Tx : Serial(t)
  BY <1>1 DEF Serial, RefreshOK, CopyOK, NotedOnce, NotedTrue
<1>4. QED
  BY <1>2, <1>3 DEF JInv

LEMMA SerialRollback ==
  ASSUME IInv, JInv, NEW t \in Tx, Rollback(t)
  PROVE  JInv'
<1>1. TypeOK /\ Close(t) /\ UNCHANGED <<store, audit, raced, seeded, repriced>>
  BY DEF IInv, Rollback, history
<1>2. OthersRest(t) /\ kind'[t] = "none" /\ todo'[t] = {} /\ entries'[t] = <<>>
  BY <1>1, CloseFacts
<1>3. OnlyMoves(t)
  BY <1>1, <1>2 DEF OnlyMoves, OthersRest
<1>4. Serial(t)'
  BY <1>2 DEF Serial, RefreshOK, CopyOK, NotedOnce, NotedTrue
<1>5. QED
  BY <1>3, <1>4, MovesKeep

LEMMA SerialLoad ==
  ASSUME IInv, JInv, NEW t \in Tx, NEW k \in Kinds, NEW rows \in SUBSET Row,
         NEW f \in [Row -> Patch], Begin(t, k, rows, f),
         k \in {"price", "prices"} =>
           rows \subseteq Holding /\ \A r \in Row : DOMAIN f[r] \subseteq {Price},
         UNCHANGED <<store, audit, history, writes, entries>>
  PROVE  JInv'
<1>1. TypeOK /\ Clean(t) /\ UNCHANGED <<raced, seeded, repriced>>
  BY DEF IInv, Sound, history
<1>2. /\ pc[t] = "idle" /\ kind'[t] = k /\ patch'[t] = f /\ todo'[t] = rows
      /\ \A r \in rows : seen'[t][r] = store[r]
      /\ \A u \in Tx \ {t} :
           /\ kind'[u] = kind[u] /\ patch'[u] = patch[u]
           /\ seen'[u] = seen[u] /\ todo'[u] = todo[u]
  BY <1>1, BeginFacts
<1>3. entries'[t] = <<>> /\ \A r \in Row : writes'[t][r].op = "none"
  BY <1>1, <1>2, WriteFacts DEF Clean
<1>4. OnlyMoves(t)
  BY <1>1, <1>2 DEF OnlyMoves
<1>5. RefreshOK(t)'
  BY <1>2, <1>3 DEF RefreshOK
<1>6. CopyOK(t)'
  BY <1>2, <1>3 DEF CopyOK, Quiet
<1>7. NotedOnce(t)' /\ NotedTrue(t)'
  BY <1>3 DEF NotedOnce, NotedTrue
<1>8. QED
  BY <1>4, <1>5, <1>6, <1>7, MovesKeep DEF Serial

LEMMA SerialTicker ==
  ASSUME IInv, JInv, NEW t \in Tx, NEW rows \in SUBSET Holding, NEW v \in Val,
         UpdateTicker(t, rows, v)
  PROVE  JInv'
<1> DEFINE f == [r \in Row |-> IF r \in rows THEN PriceOf(v) ELSE patch[t][r]]
           s == [r \in Row |-> IF r \in rows THEN store[r] ELSE seen[t][r]]
<1>1. /\ TypeOK /\ Serial(t) /\ Sound(t) /\ kind[t] = "prices" /\ rows \subseteq Row
      /\ rows \cap Written(t) = {}
      /\ todo' = [todo EXCEPT ![t] = rows] /\ patch' = [patch EXCEPT ![t] = f]
      /\ seen' = [seen EXCEPT ![t] = s]
      /\ UNCHANGED <<store, audit, kind, writes, entries, raced, seeded, repriced>>
  BY VaultAssumption DEF IInv, JInv, UpdateTicker, history
<1>2. /\ \A r \in Row : f[r] = IF r \in rows THEN PriceOf(v) ELSE patch[t][r]
      /\ \A r \in Row : s[r] = IF r \in rows THEN store[r] ELSE seen[t][r]
  OBVIOUS
<1> HIDE DEF f, s
<1>3. /\ todo'[t] = rows /\ patch'[t] = f /\ seen'[t] = s
      /\ \A u \in Tx \ {t} : /\ todo'[u] = todo[u] /\ patch'[u] = patch[u]
                             /\ seen'[u] = seen[u]
  BY <1>1, Types
<1>4. OnlyMoves(t)
  BY <1>1, <1>3 DEF OnlyMoves
<1>5. \A i \in DOMAIN entries[t] : FALSE
  BY <1>1 DEF Sound, EntryOK
<1>6. RefreshOK(t)'
  BY <1>1, <1>2, <1>3 DEF Serial, RefreshOK, PriceOf
<1>7. CopyOK(t)'
  BY <1>1, <1>2, <1>3 DEF CopyOK, Quiet, Written
<1>8. NotedOnce(t)' /\ NotedTrue(t)'
  BY <1>1, <1>5 DEF NotedOnce, NotedTrue
<1>9. QED
  BY <1>4, <1>6, <1>7, <1>8, MovesKeep DEF Serial

LEMMA SerialIntake ==
  ASSUME IInv, JInv, NEW t \in Tx, NEW rows \in SUBSET Row, NEW ans \in Answers,
         Intake(t, rows, ans)
  PROVE  JInv'
<1>1. /\ TypeOK /\ Clean(t) /\ Begin(t, "intake", {}, NoPatch)
      /\ UNCHANGED <<store, audit, entries, raced, seeded, repriced>>
      /\ writes' = [writes EXCEPT ![t] =
           [r \in Row |-> IF r \in rows THEN Insert(ans[r]) ELSE NoWrite]]
  BY DEF IInv, Sound, Intake, history
<1>2. "intake" \in Kinds /\ NoPatch \in [Row -> Patch] /\ {} \in SUBSET Row
  BY PatchFacts DEF Kinds, NoPatch
<1>3. /\ pc[t] = "idle" /\ kind'[t] = "intake" /\ todo'[t] = {}
      /\ \A u \in Tx \ {t} :
           /\ kind'[u] = kind[u] /\ patch'[u] = patch[u]
           /\ seen'[u] = seen[u] /\ todo'[u] = todo[u]
  BY <1>1, <1>2, BeginFacts
<1>4. \A u \in Tx \ {t} : writes'[u] = writes[u]
  BY <1>1
<1>5. entries'[t] = <<>>
  BY <1>1, <1>3 DEF Clean
<1>6. OnlyMoves(t)
  BY <1>1, <1>3, <1>4 DEF OnlyMoves
<1>7. Serial(t)'
  BY <1>3, <1>5 DEF Serial, RefreshOK, CopyOK, NotedOnce, NotedTrue
<1>8. QED
  BY <1>6, <1>7, MovesKeep

LEMMA SerialCreate ==
  ASSUME IInv, JInv, NEW t \in Tx, NEW r \in Row, NEW img \in Image, Create(t, r, img)
  PROVE  JInv'
<1> DEFINE e == [act |-> "create", row |-> r, before |-> Absent, after |-> img]
           w == Insert(img)
<1>1. /\ TypeOK /\ Begin(t, "create", {}, NoPatch) /\ r \notin born
      /\ writes' = [writes EXCEPT ![t][r] = w] /\ entries' = [entries EXCEPT ![t] = <<e>>]
      /\ UNCHANGED <<store, audit, raced, seeded, repriced>>
  BY DEF IInv, Create, history
<1>2. e.row = r /\ e.before = Absent /\ e.after = img /\ w.op = "insert" /\ w.cols = img
  BY WriteFacts
<1> HIDE DEF e, w
<1>3. "create" \in Kinds /\ NoPatch \in [Row -> Patch] /\ {} \in SUBSET Row
  BY PatchFacts DEF Kinds, NoPatch
<1>4. /\ kind'[t] = "create" /\ todo'[t] = {}
      /\ \A u \in Tx \ {t} :
           /\ kind'[u] = kind[u] /\ patch'[u] = patch[u]
           /\ seen'[u] = seen[u] /\ todo'[u] = todo[u]
  BY <1>1, <1>3, BeginFacts
<1>5. writes'[t][r] = w /\ \A u \in Tx \ {t} : writes'[u] = writes[u]
  BY <1>1, Types
<1>6. entries'[t] = <<e>> /\ \A u \in Tx \ {t} : entries'[u] = entries[u]
  BY <1>1, Types
<1>7. OnlyMoves(t)
  BY <1>1, <1>4, <1>5, <1>6 DEF OnlyMoves
<1>8. DOMAIN entries'[t] = {1} /\ entries'[t][1] = e
  BY <1>6
<1>9. store'[r] = Absent /\ Apply(w, Absent) = img
  <2>1. store[r] = Absent
    BY <1>1 DEF IInv, IdsOK, Exists
  <2>2. Apply(w, Absent) = img
    BY <1>2 DEF Apply
  <2>3. QED
    BY <1>1, <2>1, <2>2
<1>10. NotedTrue(t)'
  BY <1>2, <1>5, <1>8, <1>9 DEF NotedTrue
<1>11. RefreshOK(t)' /\ CopyOK(t)' /\ NotedOnce(t)'
  BY <1>4, <1>8 DEF RefreshOK, CopyOK, NotedOnce
<1>12. QED
  BY <1>7, <1>10, <1>11, MovesKeep DEF Serial

LEMMA SerialRefused ==
  ASSUME IInv, JInv, NEW t \in Tx, NEW r \in Row, NEW img \in Image, CreateRefused(t, r, img)
  PROVE  JInv'
<1>1. OnlyMoves(t) /\ UNCHANGED <<kind, patch, seen, todo, writes, entries>>
  BY DEF CreateRefused, tx, history, OnlyMoves
<1>2. Serial(t) /\ UNCHANGED <<store, raced>>
  BY <1>1 DEF JInv, OnlyMoves
<1>3. \A s : Quiet(s)' <=> Quiet(s)
  BY <1>2 DEF Quiet
<1>4. RefreshOK(t)' /\ CopyOK(t)' /\ NotedOnce(t)'
  BY <1>1, <1>2, <1>3 DEF Serial, RefreshOK, CopyOK, NotedOnce
<1>5. NotedTrue(t)'
  BY <1>1, <1>2, <1>3 DEF Serial, NotedTrue
<1>6. QED
  BY <1>1, <1>4, <1>5, MovesKeep DEF Serial

(* One row written, or passed over, with its entry e.                        *)
LEMMA SerialWork ==
  ASSUME IInv, JInv, NEW t \in Tx, NEW r \in Row, r \in todo[t], NEW w \in WriteOps, NEW e,
         writes' = writes \/ writes' = [writes EXCEPT ![t][r] = w],
         \/ UNCHANGED entries
         \/ /\ entries' = [entries EXCEPT ![t] = Append(@, e)] /\ e \in Entry /\ e.row = r
            /\ Quiet(r) => /\ e.before = store[r]
                           /\ e.after = Apply(writes'[t][r], store[r]),
         Done(t, r), UNCHANGED <<store, audit, kind, patch, seen, history>>
  PROVE  JInv'
<1>1. TypeOK /\ Serial(t) /\ TodoOK(t) /\ UNCHANGED <<raced, seeded, repriced>>
  BY DEF IInv, JInv, Sound, history
<1>2. /\ \A u \in Tx \ {t} : writes'[u] = writes[u]
      /\ \A s \in Row \ {r} : writes'[t][s] = writes[t][s]
  <2>1. CASE writes' = writes
    BY <2>1
  <2>2. CASE writes' = [writes EXCEPT ![t][r] = w]
    BY <1>1, <2>2, Types
  <2>3. QED
    BY <2>1, <2>2
<1>3. /\ \A u \in Tx \ {t} : entries'[u] = entries[u]
      /\ \/ entries'[t] = entries[t]
         \/ /\ entries'[t] = Append(entries[t], e) /\ e \in Entry /\ e.row = r
            /\ Quiet(r) => e.before = store[r] /\ e.after = Apply(writes'[t][r], store[r])
  BY <1>1, Types
<1>4. todo'[t] = todo[t] \ {r} /\ \A u \in Tx \ {t} : todo'[u] = todo[u]
  BY <1>1, Types DEF Done
<1>5. OnlyMoves(t)
  BY <1>1, <1>2, <1>3, <1>4 DEF OnlyMoves
<1>6. \A s : Quiet(s)' <=> Quiet(s)
  BY <1>1 DEF Quiet
<1>7. RefreshOK(t)'
  BY <1>1, <1>2, <1>4 DEF Serial, RefreshOK
<1>8. CopyOK(t)'
  <2>1. todo[t] \subseteq Row
    BY <1>1, Types
  <2>2. QED
    BY <1>1, <1>2, <1>4, <1>6, <2>1 DEF Serial, CopyOK
<1>9. /\ entries[t] \in Seq(Entry)
      /\ \A i \in DOMAIN entries[t] : entries[t][i].row # r
  BY <1>1, Types DEF TodoOK
<1>10. ASSUME NEW s \in Row, NEW i \in DOMAIN entries[t], entries[t][i].row = s, Quiet(s)
       PROVE  /\ entries[t][i].before = store[s]
              /\ entries[t][i].after = Apply(writes'[t][s], store[s])
  <2>1. s # r
    BY <1>9, <1>10
  <2>2. writes'[t][s] = writes[t][s]
    BY <1>2, <2>1
  <2>3. QED
    BY <1>1, <1>10, <2>2 DEF Serial, NotedTrue
<1>11. CASE entries'[t] = entries[t]
  <2>1. NotedOnce(t)'
    BY <1>1, <1>11 DEF Serial, NotedOnce
  <2>2. NotedTrue(t)'
    BY <1>6, <1>10, <1>11 DEF NotedTrue
  <2>3. QED
    BY <1>5, <1>7, <1>8, <2>1, <2>2, MovesKeep DEF Serial
<1>12. CASE /\ entries'[t] = Append(entries[t], e) /\ e \in Entry /\ e.row = r
            /\ Quiet(r) => e.before = store[r] /\ e.after = Apply(writes'[t][r], store[r])
  <2>1. \A i \in DOMAIN entries'[t] :
          \/ i \in DOMAIN entries[t] /\ entries'[t][i] = entries[t][i]
          \/ i = Len(entries[t]) + 1 /\ entries'[t][i] = e
    <3>1. entries[t] \in Seq(Entry) /\ e \in Entry
      BY <1>9, <1>12
    <3>2. \A i \in DOMAIN Append(entries[t], e) :
            \/ i \in DOMAIN entries[t] /\ Append(entries[t], e)[i] = entries[t][i]
            \/ i = Len(entries[t]) + 1 /\ Append(entries[t], e)[i] = e
      BY <3>1
    <3>3. QED
      BY <1>12, <3>2
  <2>2. NotedOnce(t)'
    <3>1. ASSUME NEW i \in DOMAIN entries'[t], NEW j \in DOMAIN entries'[t],
                 entries'[t][i].row = entries'[t][j].row
          PROVE  i = j
      BY <1>1, <1>9, <1>12, <2>1, <3>1 DEF Serial, NotedOnce
    <3>2. QED
      BY <3>1 DEF NotedOnce
  <2>3. NotedTrue(t)'
    <3>1. ASSUME NEW s \in Row, NEW i \in DOMAIN entries'[t], entries'[t][i].row = s, Quiet(s)
          PROVE  /\ entries'[t][i].before = store[s]
                 /\ entries'[t][i].after = Apply(writes'[t][s], store[s])
      <4>1. CASE i \in DOMAIN entries[t] /\ entries'[t][i] = entries[t][i]
        BY <1>10, <3>1, <4>1
      <4>2. CASE entries'[t][i] = e
        BY <1>12, <3>1, <4>2
      <4>3. QED
        BY <2>1, <4>1, <4>2
    <3>2. QED
      BY <1>6, <3>1 DEF NotedTrue
  <2>4. QED
    BY <1>5, <1>7, <1>8, <2>2, <2>3, MovesKeep DEF Serial
<1>13. QED
  BY <1>3, <1>11, <1>12

LEMMA SerialWrite ==
  ASSUME IInv, JInv, NEW t \in Tx, NEW r \in Row, Write(t, r)
  PROVE  JInv'
<1> DEFINE w == SetTo(Assigned(t, r))
           after == Over(patch[t][r], seen[t][r])
           e == AuditRow(t, "update", r, after)
<1>1. /\ TypeOK /\ Serial(t) /\ Sound(t) /\ r \in todo[t] /\ Done(t, r)
      /\ kind[t] \in {"update", "values", "price"}
      /\ UNCHANGED <<store, audit, kind, patch, seen, history>>
      /\ AddEntry(t, "update", r, after)
      /\ \/ Changed(t, r) = {} /\ writes' = writes
         \/ Changed(t, r) # {} /\ writes' = [writes EXCEPT ![t][r] = w]
  BY DEF IInv, JInv, Write
<1>2. seen[t][r] \in Image /\ patch[t][r] \in Patch /\ writes[t][r].op = "none"
  BY <1>1, Types DEF Sound, TodoOK, Serial, CopyOK
<1>3. /\ Assigned(t, r) \in Patch /\ DOMAIN Assigned(t, r) = Changed(t, r)
      /\ \A c \in Changed(t, r) : c \in DOMAIN patch[t][r] /\ Assigned(t, r)[c] = patch[t][r][c]
  <2>1. TypeOK
    BY <1>1
  <2>2. QED
    BY ONLY <2>1, AssignedFacts, t \in Tx, r \in Row
<1>4. w \in WriteOps /\ w.op = "set" /\ w.cols = Assigned(t, r)
  BY <1>3, WriteFacts
<1>5. /\ e \in Entry /\ e.row = r /\ e.before = seen[t][r] /\ e.after = after
  <2>1. after \in Image
    BY <1>2, PatchFacts
  <2>2. QED
    BY <1>2, <2>1, EntryFacts DEF AuditRow
<1>6. \/ entries' = entries
      \/ kind[t] # "price" /\ entries' = [entries EXCEPT ![t] = Append(@, e)]
  BY <1>1 DEF AddEntry, Unaudited
<1>7. Quiet(r) /\ kind[t] # "price" =>
        e.before = store[r] /\ e.after = Apply(writes'[t][r], store[r])
  <2>1. SUFFICES ASSUME Quiet(r), kind[t] # "price"
                 PROVE  e.before = store[r] /\ e.after = Apply(writes'[t][r], store[r])
    OBVIOUS
  <2>2. seen[t][r] = store[r]
    BY <1>1, <2>1 DEF Serial, CopyOK
  <2>3. \A c \in DOMAIN patch[t][r] : c \in Changed(t, r) <=> patch[t][r][c] # seen[t][r][c]
    BY <2>1 DEF Changed
  <2>4. CASE Changed(t, r) = {} /\ writes' = writes
    <3>1. \A c \in Col : (IF c \in DOMAIN patch[t][r] THEN patch[t][r][c] ELSE seen[t][r][c])
                          = seen[t][r][c]
      BY <2>3, <2>4
    <3>2. after = seen[t][r]
      BY <1>2, <3>1 DEF Over, Image
    <3>3. Apply(writes'[t][r], store[r]) = store[r]
      BY <1>2, <2>4 DEF Apply
    <3>4. QED
      BY <1>5, <2>2, <3>2, <3>3
  <2>5. CASE writes' = [writes EXCEPT ![t][r] = w]
    <3>1. writes'[t][r] = w
      BY <1>1, <2>5, Types
    <3>2. Apply(w, store[r]) = Over(Assigned(t, r), store[r])
      BY <1>4 DEF Apply
    <3>3. \A c \in Col : (IF c \in DOMAIN patch[t][r] THEN patch[t][r][c] ELSE seen[t][r][c])
                          = (IF c \in DOMAIN Assigned(t, r) THEN Assigned(t, r)[c]
                             ELSE seen[t][r][c])
      BY <1>3, <2>3
    <3>4. Over(Assigned(t, r), seen[t][r]) = after
      BY <3>3 DEF Over
    <3>5. QED
      BY <1>5, <2>2, <3>1, <3>2, <3>4
  <2>6. QED
    BY <1>1, <2>4, <2>5
<1>8. QED
  <2>1. writes' = writes \/ writes' = [writes EXCEPT ![t][r] = w]
    BY <1>1
  <2> HIDE DEF w, e
  <2>2. QED
    BY <1>1, <1>4, <1>5, <1>6, <1>7, <2>1, SerialWork

LEMMA SerialPriceRow ==
  ASSUME IInv, JInv, NEW t \in Tx, NEW r \in Row, WritePriceRow(t, r)
  PROVE  JInv'
<1>1. /\ TypeOK /\ r \in todo[t] /\ Done(t, r) /\ entries' = entries
      /\ UNCHANGED <<store, audit, kind, patch, seen, history>>
      /\ writes' = writes \/ writes' = [writes EXCEPT ![t][r] = SetTo(patch[t][r])]
  BY DEF IInv, WritePriceRow
<1>2. SetTo(patch[t][r]) \in WriteOps
  BY <1>1, Types, WriteFacts
<1>3. QED
  BY <1>1, <1>2, SerialWork

LEMMA SerialRemove ==
  ASSUME IInv, JInv, NEW t \in Tx, NEW r \in Row, Remove(t, r)
  PROVE  JInv'
<1> DEFINE e == AuditRow(t, "delete", r, Absent)
<1>1. /\ TypeOK /\ Serial(t) /\ Sound(t) /\ r \in todo[t] /\ Done(t, r)
      /\ UNCHANGED <<store, audit, kind, patch, seen, history>>
      /\ AddEntry(t, "delete", r, Absent)
      /\ \/ ~Exists(r) /\ writes' = writes
         \/ writes' = [writes EXCEPT ![t][r] = Deletion]
  BY DEF IInv, JInv, Remove
<1>2. seen[t][r] \in Image
  BY <1>1, Types DEF Sound, TodoOK
<1>3. e \in Entry /\ e.row = r /\ e.before = seen[t][r] /\ e.after = Absent
  BY <1>2, EntryFacts DEF AuditRow
<1>4. \/ entries' = entries
      \/ entries' = [entries EXCEPT ![t] = Append(@, e)]
  BY <1>1 DEF AddEntry
<1>5. Quiet(r) => e.before = store[r] /\ e.after = Apply(writes'[t][r], store[r])
  <2>1. SUFFICES ASSUME Quiet(r)
                 PROVE  e.before = store[r] /\ e.after = Apply(writes'[t][r], store[r])
    OBVIOUS
  <2>2. seen[t][r] = store[r]
    BY <1>1, <2>1 DEF Serial, CopyOK
  <2>3. writes' = [writes EXCEPT ![t][r] = Deletion]
    BY <1>1, <1>2, <2>2, VaultAssumption DEF Exists
  <2>4. writes'[t][r] = Deletion
    BY <1>1, <2>3, Types
  <2>5. Apply(Deletion, store[r]) = Absent
    BY WriteFacts DEF Apply
  <2>6. QED
    BY <1>3, <2>2, <2>4, <2>5
<1>6. QED
  <2>1. writes' = writes \/ writes' = [writes EXCEPT ![t][r] = Deletion]
    BY <1>1
  <2> HIDE DEF e
  <2>2. QED
    BY <1>1, <1>3, <1>4, <1>5, <2>1, WriteFacts, SerialWork

(* A trail that leads to the image b, followed by at most one entry of the   *)
(* row, from b to a, leads to a.                                             *)
LEMMA TrailGrows ==
  ASSUME NEW S, NEW s \in Seq(S), NEW e \in Seq(S), NEW r, NEW first, NEW b, NEW a,
         Leads(s, first, r, b),
         \A i, j \in DOMAIN e : e[i].row = r /\ e[j].row = r => i = j,
         \A i \in DOMAIN e : e[i].row = r => e[i].before = b /\ e[i].after = a,
         a = b \/ \E i \in DOMAIN e : e[i].row = r
  PROVE  Leads(s \o e, first, r, a)
<1> DEFINE q == s \o e
           n == Len(s)
           m == Len(e)
<1>1. /\ n \in Nat /\ m \in Nat /\ Len(q) = n + m
      /\ DOMAIN s = 1 .. n /\ DOMAIN e = 1 .. m /\ DOMAIN q = 1 .. n + m
      /\ \A i \in 1 .. n : q[i] = s[i]
      /\ \A i \in 1 .. m : q[n + i] = e[i]
  OBVIOUS
<1>2. /\ \A i \in DOMAIN s : s[i].row = r => LeftBy(s, first, r, i - 1, s[i].before)
      /\ LeftBy(s, first, r, n, b)
  BY DEF Leads
<1> HIDE DEF q, n, m
<1>3. ASSUME NEW k \in 0 .. n, NEW img, LeftBy(s, first, r, k, img)
      PROVE  LeftBy(q, first, r, k, img)
  <2>1. k \in Nat /\ \A i \in 1 .. k : i \in 1 .. n /\ q[i] = s[i]
    BY <1>1
  <2>2. QED
    BY <1>3, <2>1 DEF LeftBy
<1>4. ASSUME NEW k \in 0 .. m, \A j \in 1 .. k : e[j].row # r
      PROVE  LeftBy(q, first, r, n + k, b)
  <2>1. \A j \in n + 1 .. n + k : q[j].row # r
    <3>1. ASSUME NEW j \in n + 1 .. n + k PROVE q[j].row # r
      <4>1. j - n \in 1 .. k /\ j - n \in 1 .. m /\ n + (j - n) = j
        BY <1>1
      <4>2. QED
        BY <1>1, <1>4, <4>1
    <3>2. QED
      BY <3>1
  <2>2. CASE b = first /\ \A i \in 1 .. n : s[i].row # r
    <3>1. \A i \in 1 .. n + k : q[i].row # r
      BY <1>1, <2>1, <2>2
    <3>2. QED
      BY <2>2, <3>1 DEF LeftBy
  <2>3. ASSUME NEW i \in 1 .. n, s[i].row = r, s[i].after = b,
               \A j \in i + 1 .. n : s[j].row # r
        PROVE  LeftBy(q, first, r, n + k, b)
    <3>1. i \in 1 .. n + k /\ q[i].row = r /\ q[i].after = b
      BY <1>1, <2>3
    <3>2. \A j \in i + 1 .. n + k : q[j].row # r
      BY <1>1, <2>1, <2>3
    <3>3. QED
      BY <3>1, <3>2 DEF LeftBy
  <2>4. QED
    BY <1>2, <2>2, <2>3 DEF LeftBy
<1>5. ASSUME NEW i \in 1 .. n + m, q[i].row = r
      PROVE  LeftBy(q, first, r, i - 1, q[i].before)
  <2>1. CASE i \in 1 .. n
    <3>1. s[i].row = r /\ q[i].before = s[i].before /\ i - 1 \in 0 .. n
      BY <1>1, <1>5, <2>1
    <3>2. LeftBy(s, first, r, i - 1, s[i].before)
      BY <1>1, <1>2, <2>1, <3>1
    <3>3. QED
      BY <1>3, <3>1, <3>2
  <2>2. CASE i \notin 1 .. n
    <3> DEFINE k == i - n - 1
    <3>1. k \in 0 .. m /\ k + 1 \in 1 .. m /\ n + (k + 1) = i /\ n + k = i - 1
      BY <1>1, <2>2
    <3> HIDE DEF k
    <3>2. e[k + 1].row = r /\ q[i] = e[k + 1]
      BY <1>1, <1>5, <3>1
    <3>3. ASSUME NEW j \in 1 .. k PROVE e[j].row # r
      <4>1. j \in DOMAIN e /\ k + 1 \in DOMAIN e /\ j # k + 1
        BY <1>1, <3>1
      <4>2. QED
        BY <3>2, <4>1
    <3>4. LeftBy(q, first, r, n + k, b)
      BY <1>4, <3>1, <3>3
    <3>5. q[i].before = b
      BY <1>1, <3>1, <3>2
    <3>6. QED
      BY <3>1, <3>4, <3>5
  <2>3. QED
    BY <2>1, <2>2
<1>6. LeftBy(q, first, r, n + m, a)
  <2>1. CASE \A j \in 1 .. m : e[j].row # r
    <3>1. a = b /\ m \in 0 .. m
      BY <1>1, <2>1
    <3>2. QED
      BY <1>4, <2>1, <3>1
  <2>2. ASSUME NEW j \in 1 .. m, e[j].row = r PROVE LeftBy(q, first, r, n + m, a)
    <3>1. n + j \in 1 .. n + m /\ q[n + j].row = r /\ q[n + j].after = a
      <4>1. n + j \in 1 .. n + m /\ j \in DOMAIN e /\ q[n + j] = e[j]
        BY <1>1
      <4>2. QED
        BY <2>2, <4>1
    <3>2. ASSUME NEW l \in n + j + 1 .. n + m PROVE q[l].row # r
      <4>1. l - n \in 1 .. m /\ n + (l - n) = l /\ l - n # j
        BY <1>1
      <4>2. QED
        BY <1>1, <2>2, <4>1
    <3>3. QED
      BY <3>1, <3>2 DEF LeftBy
  <2>3. QED
    BY <2>1, <2>2
<1>7. QED
  BY <1>1, <1>5, <1>6 DEF q, Leads

(* A row that the intake inserts has no entry yet, and gets none.            *)
LEMMA SeedLeads ==
  ASSUME IInv, NEW t \in Tx, Commit(t), NEW r \in Row,
         kind[t] = "intake", writes[t][r].op = "insert"
  PROVE  Leads(audit', seeded'[r], r, store'[r])
<1>1. WriteOK(t, r) /\ Sound(t)
  BY DEF IInv, Sound
<1>2. Unlogged(r)
  BY <1>1 DEF WriteOK, InsertOK
<1>3. \A j \in DOMAIN entries[t] : FALSE
  BY <1>1 DEF Sound, EntryOK
<1>4. audit' \in Seq(Entry) /\ \A i \in DOMAIN audit' : audit'[i].row # r
  BY <1>2, <1>3, CommitTrail DEF Unlogged
<1>5. seeded'[r] = store'[r]
  BY CommitSeeded, CommitRows
<1>6. DOMAIN audit' = 1 .. Len(audit')
  BY <1>4
<1>7. QED
  BY <1>4, <1>5, <1>6 DEF Leads, LeftBy

(* The commit puts at most one entry of a row on the trail, and one that     *)
(* leads from the row as it is.                                              *)
LEMMA SerialCommit ==
  ASSUME IInv, JInv, NEW t \in Tx, Commit(t)
  PROVE  JInv'
<1>1. /\ TypeOK /\ Close(t) /\ Serial(t) /\ Sound(t) /\ todo[t] = {}
      /\ audit \in Seq(Entry) /\ entries[t] \in Seq(Entry) /\ audit' = audit \o entries[t]
      /\ raced' = raced \cup {r \in Written(t) : \E u \in Tx \ {t} : r \in Touched(u)}
      /\ repriced' = repriced \cup (IF kind[t] \in {"price", "prices"} THEN Written(t) ELSE {})
  BY Types DEF IInv, JInv, Commit, Remember
<1>2. /\ \A u \in Tx \ {t} :
           /\ kind'[u] = kind[u] /\ patch'[u] = patch[u] /\ seen'[u] = seen[u]
           /\ todo'[u] = todo[u] /\ writes'[u] = writes[u] /\ entries'[u] = entries[u]
      /\ kind'[t] = "none" /\ todo'[t] = {} /\ entries'[t] = <<>>
  BY <1>1, CloseFacts DEF OthersRest
<1>3. \A r : Quiet(r)' => Quiet(r)
  BY <1>1 DEF Quiet
<1>4. ASSUME NEW r \in Row, NEW u \in Tx \ {t}, r \in Touched(u), Quiet(r)'
      PROVE  store'[r] = store[r]
  <2>1. r \notin Written(t)
    BY <1>1, <1>4 DEF Quiet
  <2>2. writes[t][r].op = "none"
    BY <2>1 DEF Written
  <2>3. QED
    BY <2>2, CommitRows
<1>5. ASSUME NEW u \in Tx \ {t} PROVE Serial(u)'
  <2>1. Serial(u) /\ todo[u] \subseteq Row
    BY <1>1, Types DEF JInv
  <2>2. RefreshOK(u)' /\ NotedOnce(u)'
    BY <1>2, <2>1 DEF Serial, RefreshOK, NotedOnce
  <2>3. ASSUME NEW r \in todo'[u]
        PROVE  writes'[u][r].op = "none" /\ (Quiet(r)' => seen'[u][r] = store'[r])
    <3>1. r \in Touched(u) /\ r \in Row /\ r \in todo[u]
      BY <1>2, <2>1, <2>3 DEF Touched
    <3>2. writes[u][r].op = "none" /\ (Quiet(r) => seen[u][r] = store[r])
      BY <2>1, <3>1 DEF Serial, CopyOK
    <3>3. QED
      BY <1>2, <1>3, <1>4, <3>1, <3>2
  <2>4. CopyOK(u)'
    BY <2>3 DEF CopyOK
  <2>5. ASSUME NEW r \in Row, NEW i \in DOMAIN entries'[u], entries'[u][i].row = r, Quiet(r)'
        PROVE  /\ entries'[u][i].before = store'[r]
               /\ entries'[u][i].after = Apply(writes'[u][r], store'[r])
    <3>1. entries'[u] = entries[u] /\ writes'[u] = writes[u]
      BY <1>2
    <3>2. r \in Touched(u)
      BY <2>5, <3>1 DEF Touched
    <3>3. store'[r] = store[r] /\ Quiet(r)
      BY <1>3, <1>4, <2>5, <3>2
    <3>4. /\ entries[u][i].before = store[r]
          /\ entries[u][i].after = Apply(writes[u][r], store[r])
      BY <2>1, <2>5, <3>1, <3>3 DEF Serial, NotedTrue
    <3>5. QED
      BY <3>1, <3>3, <3>4
  <2>6. NotedTrue(u)'
    BY <2>5 DEF NotedTrue
  <2>7. QED
    BY <2>2, <2>4, <2>6 DEF Serial
<1>6. Serial(t)'
  BY <1>2 DEF Serial, RefreshOK, CopyOK, NotedOnce, NotedTrue
<1>7. ASSUME NEW r \in Row, r \notin raced' \cup repriced',
             ~(kind[t] = "intake" /\ writes[t][r].op = "insert")
      PROVE  Leads(audit', seeded'[r], r, store'[r])
  <2>1. Quiet(r) /\ seeded'[r] = seeded[r]
    BY <1>3, <1>7, CommitSeeded DEF Quiet
  <2>2. Leads(audit, seeded[r], r, store[r])
    BY <1>1, <1>7 DEF JInv, TrailOK
  <2>3. store'[r] = Apply(writes[t][r], store[r])
    BY DEF Commit
  <2>4. \A i \in DOMAIN entries[t] :
          entries[t][i].row = r => entries[t][i].before = store[r] /\ entries[t][i].after = store'[r]
    BY <1>1, <2>1, <2>3 DEF Serial, NotedTrue
  <2>5. \A i, j \in DOMAIN entries[t] : entries[t][i].row = r /\ entries[t][j].row = r => i = j
    BY <1>1 DEF Serial, NotedOnce
  <2>6. store'[r] = store[r] \/ \E i \in DOMAIN entries[t] : entries[t][i].row = r
    <3>1. CASE writes[t][r].op = "none"
      BY <3>1, CommitRows
    <3>2. CASE writes[t][r].op # "none"
      <4>1. WriteOK(t, r) /\ writes[t][r].op \in {"insert", "set", "delete"}
        BY <1>1, <3>2, CommitRows DEF Sound
      <4>2. kind[t] \notin {"price", "prices"}
        BY <1>1, <1>7, <3>2 DEF Written
      <4>3. \E act, f : Noted(t, act, r, f)
        BY <1>7, <4>1, <4>2 DEF WriteOK, InsertOK, SetOK, DeleteOK
      <4>4. QED
        BY <4>3 DEF Noted
    <3>3. QED
      BY <3>1, <3>2
  <2>7. Leads(audit \o entries[t], seeded[r], r, store'[r])
    BY <1>1, <2>2, <2>4, <2>5, <2>6, TrailGrows
  <2>8. QED
    BY <1>1, <2>1, <2>7
<1>8. TrailOK'
  <2>1. ASSUME NEW r \in Row, r \notin raced' \cup repriced'
        PROVE  Leads(audit', seeded'[r], r, store'[r])
    BY <1>7, <2>1, SeedLeads
  <2>2. QED
    BY <2>1 DEF TrailOK, Leads
<1>9. QED
  BY <1>5, <1>6, <1>8 DEF JInv

LEMMA SerialSame == ASSUME JInv, UNCHANGED vars PROVE JInv'
<1>1. UNCHANGED <<store, audit, raced, seeded, repriced, kind, patch, seen, todo, writes, entries>>
  BY DEF vars, tx, history
<1>2. TrailOK'
  BY <1>1 DEF JInv, TrailOK, Leads
<1>3. ASSUME NEW t \in Tx PROVE Serial(t)'
  <2>1. Serial(t)
    BY DEF JInv
  <2>2. \A r : Quiet(r)' <=> Quiet(r)
    BY <1>1 DEF Quiet
  <2>3. RefreshOK(t)' /\ CopyOK(t)' /\ NotedOnce(t)'
    BY <1>1, <2>1, <2>2 DEF Serial, RefreshOK, CopyOK, NotedOnce
  <2>4. NotedTrue(t)'
    BY <1>1, <2>1, <2>2 DEF Serial, NotedTrue
  <2>5. QED
    BY <2>3, <2>4 DEF Serial
<1>4. QED
  BY <1>2, <1>3 DEF JInv

LEMMA SerialInvariance == IInv /\ JInv /\ [Next]_vars => JInv'
<1> SUFFICES ASSUME IInv, JInv, [Next]_vars PROVE JInv'
  OBVIOUS
<1>1. ASSUME NEW t \in Tx, NEW r \in Row, NEW img \in Image,
             Create(t, r, img) \/ CreateRefused(t, r, img)
      PROVE  JInv'
  BY <1>1, SerialCreate, SerialRefused
<1>2. ASSUME NEW t \in Tx, NEW r \in Row, NEW k \in {"update", "delete", "price"}, NEW f \in Patch,
             Load(t, k, r, f), k = "price" => r \in Holding /\ \E v \in Val : f = PriceOf(v)
      PROVE  JInv'
  <2> DEFINE g == [NoPatch EXCEPT ![r] = f]
  <2>1. {r} \in SUBSET Row /\ g \in [Row -> Patch] /\ k \in Kinds
    BY PatchFacts DEF Kinds, NoPatch
  <2>2. k \in {"price", "prices"} =>
          {r} \subseteq Holding /\ \A s \in Row : DOMAIN g[s] \subseteq {Price}
    BY <1>2 DEF PriceOf, NoPatch
  <2>3. Begin(t, k, {r}, g) /\ UNCHANGED <<store, audit, history, writes, entries>>
    BY <1>2 DEF Load
  <2> HIDE DEF g
  <2>4. QED
    BY <2>1, <2>2, <2>3, SerialLoad
<1>3. ASSUME NEW t \in Tx, NEW rows \in SUBSET Property, NEW est \in [rows -> Val],
             LoadProperties(t, est)
      PROVE  JInv'
  <2> DEFINE f == [r \in Row |-> IF r \in DOMAIN est THEN PriceOf(est[r]) ELSE <<>>]
  <2>1. DOMAIN est \in SUBSET Row /\ "values" \in Kinds /\ f \in [Row -> Patch]
    BY VaultAssumption, PatchFacts DEF Kinds
  <2>2. /\ Begin(t, "values", DOMAIN est, f)
        /\ UNCHANGED <<store, audit, history, writes, entries>>
    BY <1>3 DEF LoadProperties
  <2> HIDE DEF f
  <2>3. QED
    BY <2>1, <2>2, SerialLoad
<1>4. ASSUME NEW t \in Tx, ListTickers(t) PROVE JInv'
  <2>1. {} \in SUBSET Row /\ "prices" \in Kinds /\ NoPatch \in [Row -> Patch]
    BY PatchFacts DEF Kinds, NoPatch
  <2>2. \A r \in Row : DOMAIN NoPatch[r] = {}
    BY DEF NoPatch
  <2>3. QED
    BY <1>4, <2>1, <2>2, SerialLoad DEF ListTickers
<1>5. ASSUME NEW t \in Tx, NEW r \in Row, Step(t, r) PROVE JInv'
  BY <1>5, SerialWrite, SerialPriceRow, SerialRemove, SerialRollback
     DEF Step, WriteStale, WriteRefused, RemoveRefused
<1>6. ASSUME NEW t \in Tx, Commit(t) \/ Abort(t) \/ Victim(t) PROVE JInv'
  BY <1>6, SerialCommit, SerialRollback DEF Abort, Victim
<1>7. ASSUME UNCHANGED vars PROVE JInv'
  BY <1>7, SerialSame
<1>8. QED
  BY <1>1, <1>2, <1>3, <1>4, <1>5, <1>6, <1>7, NextCases, SerialIntake, SerialTicker

LEMMA SerialAlways == Spec => []JInv
<1>1. Init => JInv
  BY SerialInit
<1>2. IInv /\ JInv /\ [Next]_vars => JInv'
  BY SerialInvariance
<1>3. QED
  BY <1>1, <1>2, InvAlways, PTL DEF Spec

(* A row that no two requests worked on at once and no price refresh wrote   *)
(* has an exact history: its first entry starts from nothing, or from the    *)
(* image the intake inserted, each later one from the image the one before   *)
(* it left, and the last one is the row (_row_snapshot before and after      *)
(* setattr, committed with the row).                                         *)
THEOREM TrailIsExactWithoutRaces == Spec => []SerialTrailIsExact
<1>1. JInv => SerialTrailIsExact
  BY DEF JInv, TrailOK, Leads, SerialTrailIsExact
<1>2. QED
  BY <1>1, SerialAlways, PTL

(* Every change of a row is in the trail with the values it set, except the  *)
(* insertion by the intake and the price that a price refresh wrote into a   *)
(* holding: these two are all of the code's unaudited writes.                *)
THEOREM OnlySeedsAndPricesGoUnaudited == Spec => MutationsAudited
<1> DEFINE Audited(r) ==
             \E i \in Len(audit) + 1 .. Len(audit') :
               /\ audit'[i].row = r
               /\ store'[r] = Absent <=> audit'[i].act = "delete"
               /\ store'[r] # Absent => \A c \in Col :
                    ~Exists(r) \/ store'[r][c] # store[r][c] => audit'[i].after[c] = store'[r][c]
           A == \A r \in Row : store'[r] # store[r] =>
                  \/ Repriced(r) \/ Seeded(r)
                  \/ \E i \in Len(audit) + 1 .. Len(audit') :
                       /\ audit'[i].row = r
                       /\ store'[r] = Absent <=> audit'[i].act = "delete"
                       /\ store'[r] # Absent => \A c \in Col :
                            ~Exists(r) \/ store'[r][c] # store[r][c] =>
                              audit'[i].after[c] = store'[r][c]
<1>1. IInv /\ JInv /\ [Next]_vars => [A]_vars
  <2>1. SUFFICES ASSUME IInv, JInv, [Next]_vars, NEW r \in Row, store'[r] # store[r]
                 PROVE  Repriced(r) \/ Seeded(r) \/ Audited(r)
    OBVIOUS
  <2>2. PICK t \in Tx : Commit(t)
    BY <2>1, OnlyCommit
  <2>3. WriteOK(t, r) /\ RefreshOK(t)
    BY <2>1 DEF IInv, Sound, JInv, Serial
  <2>4. Ends(t)
    BY <2>1, <2>2, CloseFacts DEF Commit, IInv, Ends
  <2>5. ASSUME NEW act, NEW f, Noted(t, act, r, f)
        PROVE  \E i \in Len(audit) + 1 .. Len(audit') :
                 /\ audit'[i].row = r /\ audit'[i].act = act
                 /\ \A c \in DOMAIN f : audit'[i].after[c] = f[c]
    BY <2>1, <2>2, <2>5, CommitTrail DEF Noted
  <2>6. CASE writes[t][r].op = "insert" /\ kind[t] = "intake"
    BY <2>1, <2>2, <2>4, <2>6, CommitRows DEF Seeded
  <2>7. CASE writes[t][r].op = "insert" /\ kind[t] # "intake"
    <3>1. store'[r] = writes[t][r].cols /\ store'[r] # Absent /\ store'[r] \in Image
      BY <2>1, <2>2, <2>7, CommitRows DEF Exists
    <3>2. DOMAIN writes[t][r].cols = Col
      BY <3>1 DEF Image
    <3>3. Noted(t, "create", r, writes[t][r].cols) /\ ~Exists(r)
      BY <2>3, <2>7 DEF WriteOK, InsertOK
    <3>4. PICK i \in Len(audit) + 1 .. Len(audit') :
                 /\ audit'[i].row = r /\ audit'[i].act = "create"
                 /\ \A c \in DOMAIN writes[t][r].cols : audit'[i].after[c] = writes[t][r].cols[c]
      BY <2>5, <3>3
    <3>5. QED
      BY <3>1, <3>2, <3>4
  <2>8. CASE writes[t][r].op = "set" /\ kind[t] \notin {"price", "prices"}
    <3>1. store'[r] = Over(writes[t][r].cols, store[r]) /\ store'[r] # Absent /\ Exists(r)
      BY <2>1, <2>2, <2>8, CommitRows DEF Exists
    <3>2. \A c \in Col : store'[r][c] # store[r][c] =>
             c \in DOMAIN writes[t][r].cols /\ store'[r][c] = writes[t][r].cols[c]
      BY <3>1 DEF Over
    <3>3. Noted(t, "update", r, writes[t][r].cols)
      BY <2>3, <2>8 DEF WriteOK, SetOK
    <3>4. PICK i \in Len(audit) + 1 .. Len(audit') :
                 /\ audit'[i].row = r /\ audit'[i].act = "update"
                 /\ \A c \in DOMAIN writes[t][r].cols : audit'[i].after[c] = writes[t][r].cols[c]
      BY <2>5, <3>3
    <3>5. QED
      BY <3>1, <3>2, <3>4
  <2>9. CASE writes[t][r].op = "set" /\ kind[t] \in {"price", "prices"}
    <3>1. store'[r] = Over(writes[t][r].cols, store[r]) /\ store'[r] # Absent /\ Exists(r)
      BY <2>1, <2>2, <2>9, CommitRows DEF Exists
    <3>2. DOMAIN writes[t][r].cols \subseteq {Price} /\ r \in Holding
      BY <2>3, <2>9 DEF WriteOK, SetOK, RefreshOK
    <3>3. \A c \in Col \ {Price} : store'[r][c] = store[r][c]
      BY <3>1, <3>2 DEF Over
    <3>4. QED
      BY <2>4, <2>9, <3>1, <3>2, <3>3 DEF Repriced
  <2>10. CASE writes[t][r].op = "delete"
    <3>1. store'[r] = Absent
      BY <2>1, <2>2, <2>10, CommitRows
    <3>2. QED
      BY <2>3, <2>5, <2>10, <3>1 DEF WriteOK, DeleteOK
  <2>11. QED
    BY <2>1, <2>2, <2>6, <2>7, <2>8, <2>9, <2>10, CommitRows
<1>2. QED
  BY <1>1, InvAlways, SerialAlways, PTL DEF Spec, MutationsAudited

-----------------------------------------------------------------------------
(* Requests are serializable unless they work on one row at once.  The third  *)
(* invariant says what each kind of request has noted and has still to do.    *)

EntryLeads(t, e) ==
  /\ kind[t] \in {"create", "update", "delete"} => e.act = kind[t]
  /\ kind[t] = "values" => /\ e.act = "update" /\ e.row \in Property
                           /\ \E v \in Val : patch[t][e.row] = PriceOf(v)
  /\ kind[t] \notin {"intake", "price", "prices"}
  /\ e.act = "create" => e.before = Absent /\ e.after \in Image
  /\ e.act = "update" => e.before \in Image /\ e.after = Over(patch[t][e.row], e.before)
  /\ e.act = "delete" => e.before \in Image /\ e.after = Absent

\* It works on one row: it has its entry, or has still to write it.
OneRow(t) ==
  \/ todo[t] = {} /\ Len(entries[t]) = 1
  \/ kind[t] # "create" /\ entries[t] = <<>> /\ \E r \in Row : todo[t] = {r}

PricesOnly(t) ==
  /\ \A r \in todo[t] : \E v \in Val : patch[t][r] = PriceOf(v)
  /\ kind[t] = "values" => todo[t] \subseteq Property
  /\ kind[t] # "values" =>
       \A r \in Row : writes[t][r].op = "set" => \E v \in Val : writes[t][r].cols = PriceOf(v)

\* A row that create_* inserts does not refer to itself.
NoLoop(t) ==
  \A r \in Row : writes[t][r].op = "insert" => \A k \in Key : writes[t][r].cols[k] # r

SeedOK(t) ==
  \E rows \in SUBSET Row, ans \in Answers :
    /\ OwnKeys(rows, ans)
    /\ \A r \in Row : writes[t][r] = IF r \in rows THEN Insert(ans[r]) ELSE NoWrite

PlanOK(t) ==
  /\ pc[t] = "open" => kind[t] # "none"
  /\ kind[t] \in {"create", "update", "delete"} => OneRow(t)
  /\ kind[t] \in {"values", "price", "prices"} => PricesOnly(t)
  /\ kind[t] = "create" => NoLoop(t)
  /\ kind[t] = "intake" => SeedOK(t)
  /\ \A i \in DOMAIN entries[t] : EntryLeads(t, entries[t][i])

PInv == \A t \in Tx : PlanOK(t)

LEMMA PlansKeep ==
  ASSUME PInv, NEW t \in Tx, PlanOK(t)',
         \A u \in Tx \ {t} :
           /\ pc'[u] = pc[u] /\ kind'[u] = kind[u] /\ patch'[u] = patch[u]
           /\ todo'[u] = todo[u] /\ writes'[u] = writes[u] /\ entries'[u] = entries[u]
  PROVE  PInv'
<1>1. ASSUME NEW u \in Tx \ {t} PROVE PlanOK(u)'
  <2>1. PlanOK(u)
    BY DEF PInv
  <2>2. OneRow(u) <=> OneRow(u)'
    BY DEF OneRow
  <2>3. PricesOnly(u) <=> PricesOnly(u)'
    BY DEF PricesOnly
  <2>4. NoLoop(u) <=> NoLoop(u)'
    BY DEF NoLoop
  <2>5. SeedOK(u) <=> SeedOK(u)'
    BY DEF SeedOK
  <2>6. \A e : EntryLeads(u, e) <=> EntryLeads(u, e)'
    BY DEF EntryLeads
  <2>7. QED
    BY <2>1, <2>2, <2>3, <2>4, <2>5, <2>6 DEF PlanOK
<1>2. QED
  BY <1>1 DEF PInv

LEMMA PlanInit == Init => PInv
<1> SUFFICES ASSUME Init PROVE PInv
  OBVIOUS
<1>1. \A t \in Tx : kind[t] = "none" /\ pc[t] = "idle" /\ entries[t] = <<>>
  BY DEF Init
<1>2. QED
  BY <1>1 DEF PInv, PlanOK

LEMMA PlanClose ==
  ASSUME IInv, PInv, NEW t \in Tx, Close(t)
  PROVE  PInv'
<1>1. /\ OthersRest(t) /\ pc'[t] = "idle" /\ kind'[t] = "none" /\ entries'[t] = <<>>
  BY CloseFacts DEF IInv
<1>2. PlanOK(t)'
  BY <1>1 DEF PlanOK
<1>3. QED
  BY <1>1, <1>2, PlansKeep DEF OthersRest

LEMMA PlanLoad ==
  ASSUME IInv, PInv, NEW t \in Tx, NEW k \in Kinds \ {"none", "create", "intake"},
         NEW rows \in SUBSET Row, NEW f \in [Row -> Patch], Begin(t, k, rows, f),
         k \in {"update", "delete"} => \E r \in Row : rows = {r},
         k \in {"values", "price", "prices"} => \A r \in rows : \E v \in Val : f[r] = PriceOf(v),
         k = "values" => rows \subseteq Property,
         UNCHANGED <<writes, entries>>
  PROVE  PInv'
<1>1. TypeOK /\ Clean(t)
  BY DEF IInv, Sound
<1>2. /\ pc[t] = "idle" /\ kind'[t] = k /\ patch'[t] = f /\ todo'[t] = rows
      /\ \A u \in Tx \ {t} :
           /\ pc'[u] = pc[u] /\ kind'[u] = kind[u] /\ patch'[u] = patch[u] /\ todo'[u] = todo[u]
  BY <1>1, BeginFacts
<1>3. entries'[t] = <<>> /\ \A r \in Row : writes'[t][r].op = "none"
  BY <1>1, <1>2, WriteFacts DEF Clean
<1>4. k \in {"update", "delete"} => OneRow(t)'
  BY <1>2, <1>3 DEF OneRow
<1>5. k \in {"values", "price", "prices"} => PricesOnly(t)'
  BY <1>2, <1>3 DEF PricesOnly
<1>6. PlanOK(t)'
  BY <1>2, <1>3, <1>4, <1>5 DEF PlanOK
<1>7. QED
  BY <1>2, <1>6, PlansKeep

LEMMA PlanTicker ==
  ASSUME IInv, PInv, NEW t \in Tx, NEW rows \in SUBSET Holding, NEW v \in Val,
         UpdateTicker(t, rows, v)
  PROVE  PInv'
<1> DEFINE f == [r \in Row |-> IF r \in rows THEN PriceOf(v) ELSE patch[t][r]]
<1>1. /\ TypeOK /\ PlanOK(t) /\ kind[t] = "prices" /\ rows \subseteq Row
      /\ todo' = [todo EXCEPT ![t] = rows] /\ patch' = [patch EXCEPT ![t] = f]
      /\ UNCHANGED <<pc, kind, writes, entries>>
  BY VaultAssumption DEF IInv, PInv, UpdateTicker
<1>2. \A r \in rows : f[r] = PriceOf(v)
  BY <1>1
<1> HIDE DEF f
<1>3. /\ todo'[t] = rows /\ patch'[t] = f
      /\ \A u \in Tx \ {t} : todo'[u] = todo[u] /\ patch'[u] = patch[u]
  BY <1>1, Types
<1>4. \A i \in DOMAIN entries'[t] : FALSE
  BY <1>1 DEF PlanOK, EntryLeads
<1>5. PricesOnly(t)'
  BY <1>1, <1>2, <1>3 DEF PlanOK, PricesOnly
<1>6. PlanOK(t)'
  BY <1>1, <1>4, <1>5 DEF PlanOK
<1>7. QED
  BY <1>1, <1>3, <1>6, PlansKeep

LEMMA PlanIntake ==
  ASSUME IInv, PInv, NEW t \in Tx, NEW rows \in SUBSET Row, NEW ans \in Answers,
         Intake(t, rows, ans)
  PROVE  PInv'
<1> DEFINE w == [r \in Row |-> IF r \in rows THEN Insert(ans[r]) ELSE NoWrite]
<1>1. /\ TypeOK /\ Clean(t) /\ Begin(t, "intake", {}, NoPatch) /\ OwnKeys(rows, ans)
      /\ writes' = [writes EXCEPT ![t] = w] /\ UNCHANGED entries
  BY DEF IInv, Sound, Intake
<1>2. "intake" \in Kinds /\ NoPatch \in [Row -> Patch] /\ {} \in SUBSET Row
  BY PatchFacts DEF Kinds, NoPatch
<1>3. /\ pc[t] = "idle" /\ kind'[t] = "intake"
      /\ \A u \in Tx \ {t} :
           /\ pc'[u] = pc[u] /\ kind'[u] = kind[u] /\ patch'[u] = patch[u] /\ todo'[u] = todo[u]
  BY <1>1, <1>2, BeginFacts
<1>4. \A r \in Row : w[r] = IF r \in rows THEN Insert(ans[r]) ELSE NoWrite
  OBVIOUS
<1> HIDE DEF w
<1>5. writes'[t] = w /\ \A u \in Tx \ {t} : writes'[u] = writes[u]
  BY <1>1, Types
<1>6. SeedOK(t)'
  <2>1. \A r \in Row : writes'[t][r] = IF r \in rows THEN Insert(ans[r]) ELSE NoWrite
    BY <1>4, <1>5
  <2>2. OwnKeys(rows, ans)'
    BY <1>1 DEF OwnKeys
  <2>3. SUFFICES \E rs \in SUBSET Row, an \in Answers :
                   /\ OwnKeys(rs, an)'
                   /\ \A r \in Row : writes'[t][r] = IF r \in rs THEN Insert(an[r]) ELSE NoWrite
    BY Zenon DEF SeedOK
  <2>4. QED
    BY <2>1, <2>2, Zenon
<1>7. PlanOK(t)'
  BY <1>1, <1>3, <1>6 DEF PlanOK, Clean
<1>8. QED
  BY <1>1, <1>3, <1>5, <1>7, PlansKeep

LEMMA PlanCreate ==
  ASSUME IInv, PInv, NEW t \in Tx, NEW r \in Row, NEW img \in Image, Create(t, r, img)
  PROVE  PInv'
<1> DEFINE e == [act |-> "create", row |-> r, before |-> Absent, after |-> img]
           w == Insert(img)
<1>1. /\ TypeOK /\ Begin(t, "create", {}, NoPatch) /\ Clean(t) /\ ~Exists(r) /\ Fits(r, img)
      /\ writes' = [writes EXCEPT ![t][r] = w] /\ entries' = [entries EXCEPT ![t] = <<e>>]
  BY DEF IInv, IdsOK, Sound, Create
<1>2. e.act = "create" /\ e.before = Absent /\ e.after = img /\ w.cols = img
  BY WriteFacts
<1> HIDE DEF e, w
<1>3. "create" \in Kinds /\ NoPatch \in [Row -> Patch] /\ {} \in SUBSET Row
  BY PatchFacts DEF Kinds, NoPatch
<1>4. /\ pc[t] = "idle" /\ kind'[t] = "create" /\ todo'[t] = {}
      /\ \A u \in Tx \ {t} :
           /\ pc'[u] = pc[u] /\ kind'[u] = kind[u] /\ patch'[u] = patch[u] /\ todo'[u] = todo[u]
  BY <1>1, <1>3, BeginFacts
<1>5. /\ \A u \in Tx \ {t} : writes'[u] = writes[u]
      /\ writes'[t][r] = w /\ \A s \in Row \ {r} : writes'[t][s] = writes[t][s]
  BY <1>1, Types
<1>6. entries'[t] = <<e>> /\ \A u \in Tx \ {t} : entries'[u] = entries[u]
  BY <1>1, Types
<1>7. Len(entries'[t]) = 1 /\ \A i \in DOMAIN entries'[t] : entries'[t][i] = e
  BY <1>6
<1>8. EntryLeads(t, e)'
  BY <1>2, <1>4 DEF EntryLeads
<1>9. NoLoop(t)'
  <2>1. \A k \in Key : img[k] # r
    BY <1>1, PatchFacts, VaultAssumption DEF Fits
  <2>2. \A s \in Row \ {r} : writes'[t][s].op = "none"
    BY <1>1, <1>4, <1>5, WriteFacts DEF Clean
  <2>3. QED
    BY <1>2, <1>5, <2>1, <2>2 DEF NoLoop
<1>10. PlanOK(t)'
  BY <1>4, <1>7, <1>8, <1>9 DEF PlanOK, OneRow
<1>11. QED
  BY <1>4, <1>5, <1>6, <1>10, PlansKeep

(* One row written, or passed over, with its entry e.                        *)
LEMMA PlanWork ==
  ASSUME IInv, PInv, NEW t \in Tx, NEW r \in Row, r \in todo[t], NEW w \in WriteOps, NEW e,
         \/ writes' = writes
         \/ /\ writes' = [writes EXCEPT ![t][r] = w]
            /\ kind[t] \in {"price", "prices"} /\ w.op = "set" => w.cols = patch[t][r],
         \/ kind[t] \in {"price", "prices"} /\ UNCHANGED entries
         \/ /\ entries' = [entries EXCEPT ![t] = Append(@, e)]
            /\ e \in Entry /\ EntryLeads(t, e),
         kind[t] \notin {"none", "create", "intake"}, Done(t, r), UNCHANGED <<pc, kind, patch>>
  PROVE  PInv'
<1>1. TypeOK /\ PlanOK(t)
  BY DEF IInv, PInv
<1>2. /\ \A u \in Tx \ {t} : writes'[u] = writes[u]
      /\ \A s \in Row \ {r} : writes'[t][s] = writes[t][s]
      /\ \/ writes'[t][r] = writes[t][r]
         \/ writes'[t][r] = w /\ (kind[t] \in {"price", "prices"} /\ w.op = "set"
                                   => w.cols = patch[t][r])
  <2>1. CASE writes' = writes
    BY <2>1
  <2>2. CASE /\ writes' = [writes EXCEPT ![t][r] = w]
             /\ kind[t] \in {"price", "prices"} /\ w.op = "set" => w.cols = patch[t][r]
    BY <1>1, <2>2, Types
  <2>3. QED
    BY <2>1, <2>2
<1>3. todo'[t] = todo[t] \ {r} /\ \A u \in Tx \ {t} : todo'[u] = todo[u]
  BY <1>1, Types DEF Done
<1>4. /\ \A u \in Tx \ {t} : entries'[u] = entries[u]
      /\ \/ kind[t] \in {"price", "prices"} /\ entries'[t] = entries[t]
         \/ entries'[t] = Append(entries[t], e) /\ e \in Entry /\ EntryLeads(t, e)
  BY <1>1, Types
<1>5. entries[t] \in Seq(Entry) /\ todo[t] \subseteq Row
  BY <1>1, Types
<1>6. (\A i \in DOMAIN entries[t] : EntryLeads(t, entries[t][i]))'
  <2>1. \A d : EntryLeads(t, d) <=> EntryLeads(t, d)'
    BY DEF EntryLeads
  <2>2. CASE entries'[t] = entries[t]
    BY <1>1, <2>1, <2>2 DEF PlanOK
  <2>3. CASE entries'[t] = Append(entries[t], e) /\ e \in Entry /\ EntryLeads(t, e)
    <3>1. \A i \in DOMAIN Append(entries[t], e) :
            \/ i \in DOMAIN entries[t] /\ Append(entries[t], e)[i] = entries[t][i]
            \/ Append(entries[t], e)[i] = e
      BY <1>5, <2>3, AppendFacts
    <3>2. QED
      BY <1>1, <2>1, <2>3, <3>1 DEF PlanOK
  <2>4. QED
    BY <1>4, <2>2, <2>3
<1>7. kind[t] \in {"create", "update", "delete"} => OneRow(t)'
  <2>1. SUFFICES ASSUME kind[t] \in {"create", "update", "delete"} PROVE OneRow(t)'
    OBVIOUS
  <2>2. entries[t] = <<>> /\ todo[t] = {r}
    BY <1>1, <2>1 DEF PlanOK, OneRow
  <2>3. entries'[t] = Append(<<>>, e) /\ todo'[t] = {}
    BY <1>3, <1>4, <2>1, <2>2
  <2>4. Len(entries'[t]) = 1
    BY <2>3
  <2>5. QED
    BY <2>3, <2>4 DEF OneRow
<1>8. kind[t] \in {"values", "price", "prices"} => PricesOnly(t)'
  BY <1>1, <1>2, <1>3 DEF PlanOK, PricesOnly
<1>9. PlanOK(t)'
  BY <1>6, <1>7, <1>8 DEF PlanOK
<1>10. QED
  BY <1>2, <1>3, <1>4, <1>9, PlansKeep

LEMMA PlanWrite ==
  ASSUME IInv, PInv, NEW t \in Tx, NEW r \in Row, Write(t, r)
  PROVE  PInv'
<1> DEFINE w == SetTo(Assigned(t, r))
           after == Over(patch[t][r], seen[t][r])
           e == AuditRow(t, "update", r, after)
<1>1. /\ TypeOK /\ Sound(t) /\ PlanOK(t) /\ r \in todo[t] /\ Done(t, r)
      /\ kind[t] \in {"update", "values", "price"}
      /\ UNCHANGED <<pc, kind, patch>>
      /\ AddEntry(t, "update", r, after)
      /\ writes' = writes \/ writes' = [writes EXCEPT ![t][r] = w]
  BY DEF IInv, PInv, Write
<1>2. seen[t][r] \in Image /\ patch[t][r] \in Patch
  BY <1>1, Types DEF Sound, TodoOK
<1>3. w \in WriteOps /\ (kind[t] \in {"price", "prices"} => w.cols = patch[t][r])
  <2>1. TypeOK
    BY <1>1
  <2>2. Assigned(t, r) \in Patch
    BY ONLY <2>1, AssignedFacts, t \in Tx, r \in Row
  <2>3. ASSUME kind[t] = "price" PROVE Assigned(t, r) = patch[t][r]
    <3>1. Changed(t, r) = DOMAIN patch[t][r]
      BY <2>3 DEF Changed
    <3>2. patch[t][r] = [c \in DOMAIN patch[t][r] |-> patch[t][r][c]]
      BY <1>2 DEF Patch
    <3>3. QED
      BY <3>1, <3>2 DEF Assigned
  <2>4. QED
    BY <1>1, <2>2, <2>3, WriteFacts
<1>4. /\ e \in Entry /\ e.row = r /\ e.act = "update"
      /\ e.before = seen[t][r] /\ e.after = after
  <2>1. after \in Image
    BY <1>2, PatchFacts
  <2>2. QED
    BY <1>2, <2>1, EntryFacts DEF AuditRow
<1>5. \/ kind[t] \in {"price", "prices"} /\ UNCHANGED entries
      \/ kind[t] \notin {"price", "prices"} /\ entries' = [entries EXCEPT ![t] = Append(@, e)]
  BY <1>1 DEF AddEntry, Unaudited
<1>6. kind[t] \notin {"price", "prices"} => EntryLeads(t, e)
  <2>1. kind[t] = "values" => r \in Property /\ \E v \in Val : patch[t][r] = PriceOf(v)
    BY <1>1 DEF PlanOK, PricesOnly
  <2>2. QED
    BY <1>1, <1>2, <1>4, <2>1 DEF EntryLeads
<1> HIDE DEF w, e
<1>7. QED
  BY <1>1, <1>3, <1>4, <1>5, <1>6, PlanWork

LEMMA PlanPriceRow ==
  ASSUME IInv, PInv, NEW t \in Tx, NEW r \in Row, WritePriceRow(t, r)
  PROVE  PInv'
<1>1. /\ TypeOK /\ r \in todo[t] /\ Done(t, r) /\ UNCHANGED entries /\ kind[t] = "prices"
      /\ UNCHANGED <<pc, kind, patch>>
      /\ writes' = writes \/ writes' = [writes EXCEPT ![t][r] = SetTo(patch[t][r])]
  BY DEF IInv, WritePriceRow
<1>2. SetTo(patch[t][r]) \in WriteOps /\ SetTo(patch[t][r]).cols = patch[t][r]
  BY <1>1, Types, WriteFacts
<1>3. QED
  BY <1>1, <1>2, PlanWork

LEMMA PlanRemove ==
  ASSUME IInv, PInv, NEW t \in Tx, NEW r \in Row, Remove(t, r)
  PROVE  PInv'
<1> DEFINE e == AuditRow(t, "delete", r, Absent)
<1>1. /\ TypeOK /\ Sound(t) /\ r \in todo[t] /\ Done(t, r) /\ kind[t] = "delete"
      /\ UNCHANGED <<pc, kind, patch>>
      /\ AddEntry(t, "delete", r, Absent)
      /\ writes' = writes \/ writes' = [writes EXCEPT ![t][r] = Deletion]
  BY DEF IInv, Remove
<1>2. seen[t][r] \in Image
  BY <1>1, Types DEF Sound, TodoOK
<1>3. e \in Entry /\ e.act = "delete" /\ e.before = seen[t][r] /\ e.after = Absent
  BY <1>2, EntryFacts DEF AuditRow
<1>4. entries' = [entries EXCEPT ![t] = Append(@, e)]
  BY <1>1 DEF AddEntry, Unaudited
<1>5. EntryLeads(t, e)
  BY <1>1, <1>2, <1>3 DEF EntryLeads
<1> HIDE DEF e
<1>6. QED
  BY <1>1, <1>3, <1>4, <1>5, WriteFacts, PlanWork

LEMMA PlanInvariance == IInv /\ PInv /\ [Next]_vars => PInv'
<1> SUFFICES ASSUME IInv, PInv, [Next]_vars PROVE PInv'
  OBVIOUS
<1>1. ASSUME UNCHANGED tx PROVE PInv'
  <2>1. \A t \in Tx : PlanOK(t)' <=> PlanOK(t)
    BY <1>1 DEF tx, PlanOK, OneRow, PricesOnly, NoLoop, SeedOK, EntryLeads
  <2>2. QED
    BY <2>1 DEF PInv
<1>2. ASSUME NEW t \in Tx, NEW r \in Row, NEW k \in {"update", "delete", "price"}, NEW f \in Patch,
             Load(t, k, r, f), k = "price" => r \in Holding /\ \E v \in Val : f = PriceOf(v)
      PROVE  PInv'
  <2> DEFINE g == [NoPatch EXCEPT ![r] = f]
  <2>1. /\ {r} \in SUBSET Row /\ k \in Kinds \ {"none", "create", "intake"}
        /\ k # "values" /\ k # "prices" /\ g \in [Row -> Patch]
        /\ k = "price" => \A s \in {r} : \E v \in Val : g[s] = PriceOf(v)
    BY <1>2, PatchFacts DEF Kinds, NoPatch
  <2>2. Begin(t, k, {r}, g) /\ UNCHANGED <<writes, entries>>
    BY <1>2 DEF Load
  <2> HIDE DEF g
  <2>3. QED
    BY <2>1, <2>2, PlanLoad
<1>3. ASSUME NEW t \in Tx, NEW rows \in SUBSET Property, NEW est \in [rows -> Val],
             LoadProperties(t, est)
      PROVE  PInv'
  <2> DEFINE f == [r \in Row |-> IF r \in DOMAIN est THEN PriceOf(est[r]) ELSE <<>>]
  <2>1. /\ DOMAIN est \in SUBSET Row /\ "values" \in Kinds \ {"none", "create", "intake"}
        /\ f \in [Row -> Patch] /\ DOMAIN est \subseteq Property
        /\ \A r \in DOMAIN est : \E v \in Val : f[r] = PriceOf(v)
    BY VaultAssumption, PatchFacts DEF Kinds
  <2>2. Begin(t, "values", DOMAIN est, f) /\ UNCHANGED <<writes, entries>>
    BY <1>3 DEF LoadProperties
  <2> HIDE DEF f
  <2>3. QED
    BY <2>1, <2>2, PlanLoad
<1>4. ASSUME NEW t \in Tx, ListTickers(t) PROVE PInv'
  <2>1. /\ {} \in SUBSET Row /\ "prices" \in Kinds \ {"none", "create", "intake"}
        /\ NoPatch \in [Row -> Patch]
    BY PatchFacts DEF Kinds, NoPatch
  <2>2. QED
    BY <1>4, <2>1, PlanLoad DEF ListTickers
<1>5. ASSUME NEW t \in Tx, NEW r \in Row, Step(t, r) PROVE PInv'
  BY <1>5, PlanWrite, PlanPriceRow, PlanRemove, PlanClose
     DEF Step, WriteStale, WriteRefused, RemoveRefused, Rollback
<1>6. ASSUME NEW t \in Tx, Commit(t) \/ Abort(t) \/ Victim(t) PROVE PInv'
  BY <1>6, PlanClose DEF Commit, Abort, Victim, Rollback
<1>7. ASSUME NEW t \in Tx, NEW r \in Row, NEW img \in Image,
             Create(t, r, img) \/ CreateRefused(t, r, img)
      PROVE  PInv'
  BY <1>1, <1>7, PlanCreate DEF CreateRefused
<1>8. ASSUME UNCHANGED vars PROVE PInv'
  BY <1>1, <1>8 DEF vars
<1>9. QED
  BY <1>2, <1>3, <1>4, <1>5, <1>6, <1>7, <1>8, NextCases, PlanIntake, PlanTicker

(* What follows the old trail in the new one.                                *)
LEMMA TailFacts ==
  ASSUME NEW S, NEW s \in Seq(S), NEW e \in Seq(S)
  PROVE  SubSeq(s \o e, Len(s) + 1, Len(s \o e)) = e
<1>1. Len(s \o e) = Len(s) + Len(e) /\ Len(s) \in Nat /\ Len(e) \in Nat
  OBVIOUS
<1>2. /\ s \o e \in Seq(S)
      /\ \A i \in 1 .. Len(e) : (s \o e)[Len(s) + i] = e[i]
  OBVIOUS
<1>3. SubSeq(s \o e, Len(s) + 1, Len(s \o e)) \in Seq(S)
  BY <1>1, <1>2
<1>4. Len(SubSeq(s \o e, Len(s) + 1, Len(s \o e))) = Len(e)
  BY <1>1, <1>2
<1>5. \A i \in 1 .. Len(e) : SubSeq(s \o e, Len(s) + 1, Len(s \o e))[i] = e[i]
  BY <1>1, <1>2
<1>6. QED
  BY <1>3, <1>4, <1>5

(* SerialVault's definitions over the same tables are those of Vault.        *)
LEMMA OneByOneFacts ==
  /\ OneByOne!Image = Image /\ OneByOne!Patch = Patch
  /\ \A r : OneByOne!Exists(r) <=> Exists(r)
  /\ \A f, img : OneByOne!Over(f, img) = Over(f, img)
  /\ \A r : OneByOne!Fresh(r) <=> ~Exists(r) /\ Unlogged(r)
<1>1. \A c : OneByOne!Cell(c) = Cell(c)
  BY DEF OneByOne!Cell, Cell
<1>2. OneByOne!Cells = Cells
  BY DEF OneByOne!Cells, Cells
<1>3. \A f : OneByOne!Typed(f) <=> Typed(f)
  BY <1>1 DEF OneByOne!Typed, Typed
<1>4. OneByOne!Image = Image
  BY <1>2, <1>3 DEF OneByOne!Image, Image
<1>5. OneByOne!Patch = Patch
  BY <1>2, <1>3 DEF OneByOne!Patch, Patch
<1>6. \A r : OneByOne!Exists(r) <=> Exists(r)
  BY DEF OneByOne!Exists, Exists
<1>7. \A f, img : OneByOne!Over(f, img) = Over(f, img)
  BY DEF OneByOne!Over, Over
<1>8. QED
  BY <1>4, <1>5, <1>6, <1>7 DEF OneByOne!Fresh, Unlogged

(* A commit whose rows were not raced finds them as its request loaded them, *)
(* and each of its entries is what SerialVault logs.                         *)
LEMMA CommitEntries ==
  ASSUME IInv, JInv, PInv, NEW t \in Tx, Commit(t), \A r \in raced' : LeftAlone(r),
         NEW i \in DOMAIN entries[t]
  PROVE  /\ entries[t][i].row \in Row
         /\ entries[t][i].before = store[entries[t][i].row]
         /\ entries[t][i].after = store'[entries[t][i].row]
         /\ entries[t][i] = OneByOne!Entry(entries[t][i].act, entries[t][i].row)
<1> DEFINE e == entries[t][i]
           r == e.row
<1>1. e \in Entry /\ r \in Row
  BY Types, EntryFacts DEF IInv
<1>2. ~LeftAlone(r)
  BY CommitTrail DEF LeftAlone
<1>3. Quiet(r)
  BY <1>2 DEF Quiet, Commit, Remember
<1>4. e.before = store[r] /\ e.after = Apply(writes[t][r], store[r])
  BY <1>1, <1>3 DEF JInv, Serial, NotedTrue
<1>5. store'[r] = Apply(writes[t][r], store[r])
  BY <1>1 DEF Commit
<1>6. e = [act |-> e.act, row |-> e.row, before |-> e.before, after |-> e.after]
  BY <1>1 DEF Entry
<1>7. QED
  BY <1>1, <1>4, <1>5, <1>6 DEF OneByOne!Entry

(* Only the intake and the price refreshes change a row without an entry.    *)
LEMMA CommitUnnoted ==
  ASSUME IInv, NEW t \in Tx, Commit(t), kind[t] \notin {"intake", "price", "prices"}, NEW r \in Row,
         \A i \in DOMAIN entries[t] : entries[t][i].row # r
  PROVE  store'[r] = store[r]
<1>1. \A act, f : ~Noted(t, act, r, f)
  BY DEF Noted
<1>2. WriteOK(t, r)
  BY DEF IInv, Sound
<1>3. writes[t][r].op = "none"
  BY <1>1, <1>2, CommitRows DEF WriteOK, InsertOK, SetOK, DeleteOK
<1>4. QED
  BY <1>3, CommitRows

(* A request that has changed one row and noted it: what it is in SerialVault. *)
LEMMA OneRowCommit ==
  ASSUME IInv, JInv, PInv, NEW t \in Tx, Commit(t), \A r \in raced' : LeftAlone(r),
         kind[t] \in {"create", "update", "delete"}
  PROVE  \E r \in Row, e \in Entry :
           /\ EntryLeads(t, e) /\ EntryOK(t, e) /\ e.row = r /\ e.act = kind[t]
           /\ e.before = store[r] /\ e.after = store'[r]
           /\ OneByOne!Log(kind[t], r)
           /\ store' = [store EXCEPT ![r] = store'[r]]
           /\ \A s \in Row \ {r} : store'[s] = store[s]
<1> DEFINE es == entries[t]
           e == es[1]
           r == e.row
<1>1. /\ PlanOK(t) /\ Sound(t) /\ todo[t] = {} /\ store \in [Row -> Image \cup {Absent}]
      /\ audit \in Seq(Entry) /\ es \in Seq(Entry) /\ audit' = audit \o es
  BY Types DEF IInv, PInv, Commit
<1>2. Len(es) = 1 /\ es = <<e>> /\ 1 \in DOMAIN es /\ \A i \in DOMAIN es : i = 1
  BY <1>1 DEF PlanOK, OneRow
<1>3. /\ EntryLeads(t, e) /\ EntryOK(t, e) /\ r \in Row /\ e \in Entry /\ e.act = kind[t]
      /\ e.before = store[r] /\ e.after = store'[r] /\ e = OneByOne!Entry(kind[t], r)
  <2>1. EntryLeads(t, e) /\ EntryOK(t, e) /\ e \in Entry
    BY <1>1, <1>2 DEF PlanOK, Sound
  <2>2. e.act = kind[t]
    BY <2>1 DEF EntryLeads
  <2>3. QED
    BY <1>2, <2>1, <2>2, CommitEntries
<1>4. audit' = Append(audit, e)
  <2>1. ASSUME NEW s \in Seq(Entry), NEW d \in Entry PROVE s \o <<d>> = Append(s, d)
    OBVIOUS
  <2> HIDE DEF e
  <2>2. QED
    BY <1>1, <1>2, <1>3, <2>1
<1>5. \A s \in Row \ {r} : store'[s] = store[s]
  <2>1. ASSUME NEW s \in Row \ {r} PROVE store'[s] = store[s]
    <3>1. \A i \in DOMAIN entries[t] : entries[t][i].row # s
      BY <1>2, <2>1
    <3>2. QED
      BY <2>1, <3>1, CommitUnnoted
  <2>2. QED
    BY <2>1
<1>6. store' = [store EXCEPT ![r] = store'[r]]
  <2> HIDE DEF r, e
  <2>1. store' = [s \in Row |-> store'[s]]
    BY DEF Commit
  <2>2. QED
    BY <1>1, <1>3, <1>5, <2>1
<1>7. OneByOne!Log(kind[t], r)
  BY <1>3, <1>4 DEF OneByOne!Log
<1>8. QED
  <2> HIDE DEF e, r, es
  <2>1. e.row = r
    BY DEF r
  <2>2. QED
    BY <1>3, <1>5, <1>6, <1>7, <2>1

(* The new image of a row that refers to no row inserted with it is in order. *)
LEMMA CommitFits ==
  ASSUME IInv, NEW t \in Tx, Commit(t), NEW r \in Row, Exists(r)',
         \A s \in Row \ {r} : store'[s] = store[s],
         Exists(r) \/ \A k \in Key : store'[r][k] # r
  PROVE  OneByOne!Fits(r, store'[r])
<1>1. NoOrphans'
  BY CommitLifecycle
<1>2. ASSUME NEW k \in Key
      PROVE  /\ store'[r][k] \in Target[r][k]
             /\ store'[r][k] # NoRow => Exists(store'[r][k])
  <2>1. store'[r][k] \in Target[r][k] /\ (store'[r][k] # NoRow => store'[store'[r][k]] # Absent)
    BY <1>1 DEF NoOrphans, Exists
  <2>2. store'[r][k] # NoRow => store'[r][k] \in Row
    BY CommitKeys
  <2>3. ASSUME store'[r][k] # NoRow PROVE Exists(store'[r][k])
    <3>1. CASE store'[r][k] = r
      BY <3>1
    <3>2. CASE store'[r][k] # r
      BY <2>1, <2>2, <2>3, <3>2 DEF Exists
    <3>3. QED
      BY <3>1, <3>2
  <2>4. QED
    BY <2>1, <2>3
<1>3. QED
  BY <1>2, OneByOneFacts DEF OneByOne!Fits

LEMMA CreateIsSerial ==
  ASSUME IInv, JInv, PInv, NEW t \in Tx, Commit(t), \A r \in raced' : LeftAlone(r),
         kind[t] = "create"
  PROVE  OneByOne!Next
<1>1. PICK r \in Row, e \in Entry :
        /\ EntryLeads(t, e) /\ EntryOK(t, e) /\ e.row = r /\ e.act = kind[t]
        /\ e.before = store[r] /\ e.after = store'[r]
        /\ OneByOne!Log(kind[t], r)
        /\ store' = [store EXCEPT ![r] = store'[r]]
        /\ \A s \in Row \ {r} : store'[s] = store[s]
  BY OneRowCommit
<1>2. writes[t][r].op = "insert" /\ store'[r] \in Image
  BY <1>1 DEF EntryOK, EntryLeads
<1>3. WriteOK(t, r) /\ NoLoop(t)
  BY DEF IInv, Sound, PInv, PlanOK
<1>4. ~Exists(r) /\ Unlogged(r)
  BY <1>2, <1>3 DEF WriteOK, InsertOK
<1>5. store'[r] = writes[t][r].cols /\ Exists(r)'
  BY <1>2, CommitRows
<1>6. \A k \in Key : store'[r][k] # r
  BY <1>2, <1>3, <1>5 DEF NoLoop
<1>7. OneByOne!Fits(r, store'[r])
  BY <1>1, <1>5, <1>6, CommitFits
<1>8. OneByOne!Create(r, store'[r])
  BY <1>1, <1>4, <1>7, OneByOneFacts DEF OneByOne!Create
<1>9. QED
  BY <1>2, <1>8, OneByOneFacts DEF OneByOne!Next

LEMMA UpdateIsSerial ==
  ASSUME IInv, JInv, PInv, NEW t \in Tx, Commit(t), \A r \in raced' : LeftAlone(r),
         kind[t] = "update"
  PROVE  OneByOne!Next
<1>1. PICK r \in Row, e \in Entry :
        /\ EntryLeads(t, e) /\ EntryOK(t, e) /\ e.row = r /\ e.act = kind[t]
        /\ e.before = store[r] /\ e.after = store'[r]
        /\ OneByOne!Log(kind[t], r)
        /\ store' = [store EXCEPT ![r] = store'[r]]
        /\ \A s \in Row \ {r} : store'[s] = store[s]
  BY OneRowCommit
<1>2. store[r] \in Image /\ store'[r] = Over(patch[t][r], store[r])
  BY <1>1 DEF EntryLeads
<1>3. patch[t][r] \in Patch /\ Exists(r)
  BY <1>2, Types DEF IInv
<1>4. Exists(r)'
  BY <1>2, <1>3, PatchFacts, VaultAssumption DEF Exists
<1>5. OneByOne!Fits(r, store'[r])
  BY <1>1, <1>3, <1>4, CommitFits
<1>6. OneByOne!Update(r, patch[t][r])
  <2>1. store' = [store EXCEPT ![r] = Over(patch[t][r], @)]
    BY <1>1, <1>2
  <2>2. OneByOne!Fits(r, Over(patch[t][r], store[r]))
    BY <1>2, <1>5
  <2>3. OneByOne!Log("update", r)
    BY <1>1
  <2>4. /\ OneByOne!Exists(r) /\ OneByOne!Fits(r, OneByOne!Over(patch[t][r], store[r]))
        /\ store' = [store EXCEPT ![r] = OneByOne!Over(patch[t][r], store[r])]
    BY <1>3, <2>1, <2>2, OneByOneFacts
  <2>5. QED
    BY <2>3, <2>4 DEF OneByOne!Update
<1>7. QED
  BY <1>3, <1>6, OneByOneFacts DEF OneByOne!Next

LEMMA DeleteIsSerial ==
  ASSUME IInv, JInv, PInv, NEW t \in Tx, Commit(t), \A r \in raced' : LeftAlone(r),
         kind[t] = "delete"
  PROVE  OneByOne!Next
<1>1. PICK r \in Row, e \in Entry :
        /\ EntryLeads(t, e) /\ EntryOK(t, e) /\ e.row = r /\ e.act = kind[t]
        /\ e.before = store[r] /\ e.after = store'[r]
        /\ OneByOne!Log(kind[t], r)
        /\ store' = [store EXCEPT ![r] = store'[r]]
        /\ \A s \in Row \ {r} : store'[s] = store[s]
  BY OneRowCommit
<1>2. store[r] \in Image /\ store'[r] = Absent
  BY <1>1 DEF EntryLeads
<1>3. Exists(r) /\ ~Exists(r)'
  BY <1>2, Types DEF IInv, Exists
<1>4. writes[t][r].op = "delete" /\ WriteOK(t, r)
  BY <1>3, CommitRows DEF IInv, Sound
<1>5. \A s \in Row : Exists(s) => \A k \in Key : store[s][k] # r
  BY <1>4 DEF WriteOK, DeleteOK, Children
<1>6. OneByOne!Delete(r)
  <2>1. store' = [store EXCEPT ![r] = Absent]
    BY <1>1, <1>2
  <2>2. OneByOne!Log("delete", r)
    BY <1>1
  <2>3. QED
    BY <1>3, <1>5, <2>1, <2>2, OneByOneFacts DEF OneByOne!Delete
<1>7. QED
  BY <1>6 DEF OneByOne!Next

LEMMA IntakeIsSerial ==
  ASSUME IInv, JInv, PInv, NEW t \in Tx, Commit(t), kind[t] = "intake"
  PROVE  OneByOne!Next
<1>1. /\ TypeOK /\ Sound(t) /\ SeedOK(t) /\ entries[t] \in Seq(Entry) /\ audit \in Seq(Entry)
      /\ audit' = audit \o entries[t]
  BY Types DEF IInv, PInv, PlanOK, Commit
<1>2. PICK rows \in SUBSET Row, ans \in Answers :
        /\ OwnKeys(rows, ans)
        /\ \A r \in Row : writes[t][r] = IF r \in rows THEN Insert(ans[r]) ELSE NoWrite
  BY <1>1 DEF SeedOK
<1>3. ASSUME NEW r \in rows PROVE OneByOne!Fresh(r) /\ store'[r] = ans[r]
  <2>1. ans[r] \in Image
    BY <1>3, VaultAssumption
  <2>2. writes[t][r].op = "insert" /\ writes[t][r].cols = ans[r]
    BY <1>2, <2>1, WriteFacts
  <2>3. WriteOK(t, r)
    BY <1>1 DEF Sound
  <2>4. QED
    BY <2>2, <2>3, CommitRows, OneByOneFacts DEF WriteOK, InsertOK
<1>4. ASSUME NEW r \in Row \ rows PROVE store'[r] = store[r]
  BY <1>2, WriteFacts, CommitRows
<1>5. store' = [r \in Row |-> IF r \in rows THEN ans[r] ELSE store[r]]
  <2>1. store' = [r \in Row |-> store'[r]]
    BY DEF Commit
  <2>2. QED
    BY <1>3, <1>4, <2>1
<1>6. audit' = audit
  <2>1. DOMAIN entries[t] = {}
    BY <1>1 DEF Sound, EntryOK
  <2>2. QED
    BY <1>1, <2>1
<1>7. OneByOne!Intake(rows, ans)
  BY <1>2, <1>3, <1>5, <1>6 DEF OneByOne!Intake, OwnKeys
<1>8. QED
  BY <1>7 DEF OneByOne!Next

(* Rows that got each a price of its own and nothing else.                   *)
LEMMA PricesSet ==
  ASSUME IInv, NEW t \in Tx, Commit(t), NEW rows \in SUBSET Row, NEW est \in [rows -> Val],
         \A r \in rows : Exists(r) /\ store'[r] = Over(PriceOf(est[r]), store[r]),
         \A r \in Row \ rows : store'[r] = store[r]
  PROVE  OneByOne!SetPrices(est)
<1>1. \A r \in rows : store'[r] = OneByOne!Over([c \in {Price} |-> est[r]], store[r])
  BY OneByOneFacts DEF PriceOf
<1>2. store' = [r \in Row |-> store'[r]]
  BY DEF Commit
<1>3. store' = [r \in Row |-> IF r \in rows
                              THEN OneByOne!Over([c \in {Price} |-> est[r]], store[r])
                              ELSE store[r]]
  BY <1>1, <1>2
<1>4. QED
  BY <1>3, OneByOneFacts DEF OneByOne!SetPrices

LEMMA ValuesAreSerial ==
  ASSUME IInv, JInv, PInv, NEW t \in Tx, Commit(t), \A r \in raced' : LeftAlone(r),
         kind[t] = "values"
  PROVE  OneByOne!Next
<1> DEFINE es == entries[t]
           rows == {es[i].row : i \in DOMAIN es}
           est == [r \in rows |-> CHOOSE v \in Val : patch[t][r] = PriceOf(v)]
<1>1. /\ PlanOK(t) /\ Serial(t) /\ store \in [Row -> Image \cup {Absent}]
      /\ audit \in Seq(Entry) /\ es \in Seq(Entry) /\ audit' = audit \o es
  BY Types DEF IInv, JInv, PInv, Commit
<1>2. ASSUME NEW i \in DOMAIN es
      PROVE  /\ es[i].row \in Property /\ es[i].row \in Row /\ store[es[i].row] \in Image
             /\ \E v \in Val : patch[t][es[i].row] = PriceOf(v)
             /\ store'[es[i].row] = Over(patch[t][es[i].row], store[es[i].row])
             /\ es[i] = OneByOne!Entry("update", es[i].row)
  <2>1. EntryLeads(t, es[i])
    BY <1>1 DEF PlanOK
  <2>2. es[i].act = "update"
    BY <2>1 DEF EntryLeads
  <2>3. QED
    BY <2>1, <2>2, CommitEntries DEF EntryLeads
<1>3. \A r \in rows : /\ r \in Property /\ r \in Row /\ store[r] \in Image
                      /\ \E v \in Val : patch[t][r] = PriceOf(v)
                      /\ store'[r] = Over(patch[t][r], store[r])
  BY <1>2
<1>4. ASSUME NEW r \in Row \ rows PROVE store'[r] = store[r]
  <2>1. \A i \in DOMAIN entries[t] : entries[t][i].row # r
    BY <1>4
  <2>2. QED
    BY <2>1, CommitUnnoted
<1>5. SubSeq(audit', Len(audit) + 1, Len(audit')) = es
  BY <1>1, TailFacts
<1>6. \A i, j \in DOMAIN es : es[i].row = es[j].row => i = j
  BY <1>1 DEF Serial, NotedOnce
<1>7. /\ \A i \in DOMAIN es : es[i].row \in rows /\ es[i] = OneByOne!Entry("update", es[i].row)
      /\ \A r \in rows : \E i \in DOMAIN es : es[i].row = r
  BY <1>2
<1> HIDE DEF rows
<1>8. est \in [rows -> Val] /\ \A r \in rows : patch[t][r] = PriceOf(est[r])
  BY <1>3
<1> HIDE DEF es, est
<1>9. OneByOne!SetPrices(est)
  <2>1. \A r \in rows : Exists(r) /\ store'[r] = Over(PriceOf(est[r]), store[r])
    BY <1>3, <1>8, VaultAssumption DEF Exists
  <2>2. rows \in SUBSET Row
    BY <1>3
  <2>3. QED
    BY <1>4, <1>8, <2>1, <2>2, PricesSet
<1>10. OneByOne!Revalue(est)
  <2> DEFINE new == SubSeq(audit', Len(audit) + 1, Len(audit'))
  <2>1. DOMAIN est = rows
    BY <1>8
  <2>2. /\ audit' = audit \o new
        /\ \A i \in DOMAIN new : /\ new[i].row \in DOMAIN est
                                 /\ new[i] = OneByOne!Entry("update", new[i].row)
        /\ \A r \in DOMAIN est : \E i \in DOMAIN new : new[i].row = r
        /\ \A i, j \in DOMAIN new : new[i].row = new[j].row => i = j
    <3>1. new = es
      BY <1>5
    <3> HIDE DEF new
    <3>2. QED
      BY <1>1, <1>6, <1>7, <2>1, <3>1
  <2>3. QED
    BY <1>9, <2>2, Zenon DEF OneByOne!Revalue
<1>11. QED
  BY <1>3, <1>8, <1>10 DEF OneByOne!Next

LEMMA PricesAreSerial ==
  ASSUME IInv, JInv, PInv, NEW t \in Tx, Commit(t), kind[t] \in {"price", "prices"}
  PROVE  OneByOne!Next
<1> DEFINE rows == {r \in Row : writes[t][r].op # "none"}
           est == [r \in rows |-> CHOOSE v \in Val : writes[t][r].cols = PriceOf(v)]
<1>1. /\ Sound(t) /\ PlanOK(t) /\ Serial(t)
      /\ entries[t] \in Seq(Entry) /\ audit \in Seq(Entry) /\ audit' = audit \o entries[t]
  BY Types DEF IInv, JInv, PInv, Commit
<1>2. ASSUME NEW r \in rows
      PROVE  /\ r \in Holding /\ Exists(r) /\ \E v \in Val : writes[t][r].cols = PriceOf(v)
             /\ store'[r] = Over(writes[t][r].cols, store[r])
  <2>1. r \in Row /\ WriteOK(t, r) /\ r \in Holding
    BY <1>1 DEF Sound, Serial, RefreshOK
  <2>2. writes[t][r].op = "set"
    BY <2>1, CommitRows DEF WriteOK, InsertOK, DeleteOK
  <2>3. QED
    BY <1>1, <2>1, <2>2, CommitRows DEF PlanOK, PricesOnly
<1>3. \A r \in Row \ rows : store'[r] = store[r]
  BY CommitRows
<1>4. rows \in SUBSET Row
  OBVIOUS
<1> HIDE DEF rows
<1>5. est \in [rows -> Val] /\ \A r \in rows : writes[t][r].cols = PriceOf(est[r])
  BY <1>2
<1> HIDE DEF est
<1>6. OneByOne!SetPrices(est)
  <2>1. \A r \in rows : Exists(r) /\ store'[r] = Over(PriceOf(est[r]), store[r])
    BY <1>2, <1>5
  <2>2. QED
    BY <1>3, <1>4, <1>5, <2>1, PricesSet
<1>7. audit' = audit
  <2>1. DOMAIN entries[t] = {}
    BY <1>1 DEF Sound, EntryOK
  <2>2. QED
    BY <1>1, <2>1
<1>8. OneByOne!Reprice(est)
  BY <1>6, <1>7 DEF OneByOne!Reprice
<1>9. QED
  BY <1>2, <1>5, <1>8 DEF OneByOne!Next

(* Every request that had its rows to itself did what it would have done in   *)
(* a vault of one request at a time, though others worked on rows it refers   *)
(* to or that refer to its rows (crud.py's flush, audit row and commit).      *)
THEOREM SerializableUnlessRaced == Spec => SerialUnlessRaced
<1> DEFINE A == (\A r \in raced' : LeftAlone(r)) => UNCHANGED OneByOne!vars \/ OneByOne!Next
<1>1. Init => OneByOne!Init
  BY DEF Init, OneByOne!Init, NoRows
<1>2. IInv /\ JInv /\ PInv /\ [Next]_vars => [A]_vars
  <2>1. SUFFICES ASSUME IInv, JInv, PInv, [Next]_vars, \A r \in raced' : LeftAlone(r),
                        ~UNCHANGED OneByOne!vars
                 PROVE  OneByOne!Next
    OBVIOUS
  <2>2. ~UNCHANGED <<store, audit, history>>
    BY <2>1 DEF OneByOne!vars
  <2>3. PICK t \in Tx : Commit(t)
    BY <2>1, <2>2, OnlyCommit
  <2>4. kind[t] \in Kinds \ {"none"}
    BY <2>1, <2>3 DEF IInv, TypeOK, PInv, PlanOK, Commit
  <2>5. QED
    BY <2>1, <2>3, <2>4, CreateIsSerial, UpdateIsSerial, DeleteIsSerial, IntakeIsSerial,
       ValuesAreSerial, PricesAreSerial DEF Kinds
<1>3. QED
  BY <1>1, <1>2, InvAlways, SerialAlways, PlanInit, PlanInvariance, PTL DEF Spec, SerialUnlessRaced

(* Where no row was raced at all, the whole history is one of SerialVault.    *)
THEOREM UnracedVaultIsSerial == Spec => ([](raced = {}) => OneByOne!Spec)
<1> DEFINE A == (\A r \in raced' : LeftAlone(r)) => UNCHANGED OneByOne!vars \/ OneByOne!Next
<1>1. (raced = {})' /\ [A]_vars => [OneByOne!Next]_OneByOne!vars
  BY DEF vars, OneByOne!vars
<1>2. Spec => OneByOne!Init /\ [][A]_vars
  BY SerializableUnlessRaced DEF SerialUnlessRaced
<1>3. QED
  BY <1>1, <1>2, PTL DEF OneByOne!Spec
=============================================================================
