-------------------------------- MODULE Vault --------------------------------
(***************************************************************************)
(* The vault's rows and their audit trail: the CRUD functions of            *)
(* vault/crud.py as the handlers of routers/vault.py and routers/holdings.py *)
(* call and commit them, the intake that inserts a whole vault, the two price *)
(* refreshes and the property-value refresh that write the same rows.        *)
(*                                                                           *)
(* All entities share one shape of handler, so a row is an id with columns,  *)
(* some of which may be foreign keys.  Several handlers run at once, each in *)
(* its own READ COMMITTED transaction: what a session.get returned may be     *)
(* stale when it is used, an UPDATE or DELETE waits for the row lock of       *)
(* another transaction and then applies to the row that one left behind.  The *)
(* lock rules are PostgreSQL's; a statement gets the locks it needs at once.   *)
(***************************************************************************)
EXTENDS Naturals, Sequences, FiniteSets

CONSTANTS
  Row,        \* primary keys; the sequence never hands one out twice
  Col, Val,   \* columns, and the values of those that are not foreign keys
  Key,        \* the columns that are foreign keys
  Target,     \* Target[r][k]: the rows the key k of r may refer to, and NoRow
              \* where it may be NULL (or the table of r has no such column)
  NoRow,
  Tx,         \* requests that can be in progress at the same time
  Answers,    \* what the intake questionnaire may say of the rows it inserts
  Property,   \* the real-estate rows, which refresh-values estimates
  Holding,    \* the holdings, which the price refreshes write
  Price,      \* the column the refreshes write
  Absent,     \* a row that is not in the table
  MaxOps      \* bound: requests in all

Cell(c) == IF c \in Key THEN Row \cup {NoRow} ELSE Val
Cells == Val \cup Row \cup {NoRow}
Typed(f) == \A c \in DOMAIN f : f[c] \in Cell(c)
Image == {f \in [Col -> Cells] : Typed(f)}                       \* a row's columns
Patch == {f \in UNION {[C -> Cells] : C \in SUBSET Col} : Typed(f)} \* exclude_unset

ASSUME VaultAssumption ==
  /\ Key \subseteq Col /\ Price \in Col \ Key
  /\ Target \in [Row -> [Key -> SUBSET (Row \cup {NoRow})]]
  /\ NoRow \notin Row
  /\ Absent \notin Image
  /\ Answers \subseteq [Row -> Image]
  /\ Property \subseteq Row /\ Holding \subseteq Row
  /\ MaxOps \in Nat

VARIABLES
  store,     \* committed rows
  born,      \* ids the sequence has handed out
  audit,     \* committed audit_log
  lock,      \* row locks: [Row -> set of <<transaction, mode>>]
  pc, kind,  \* per request: idle or open, and the handler
  patch,     \* the columns it sets, per row
  seen,      \* the rows as its session loaded them, or its UPDATE found them
  todo,      \* rows it still has to write
  writes,    \* what it wrote and has not committed
  entries,   \* audit rows added to its session
  ops,       \* counter: requests so far
  raced,     \* history: rows committed while another request worked on them
  seeded,    \* history: the rows as the intake inserted them
  repriced   \* history: rows that a price refresh has written

tx == <<pc, kind, patch, seen, todo, writes, entries>>
history == <<raced, seeded, repriced>>
vars == <<store, born, audit, lock, tx, ops, history>>

Kinds == {"none", "create", "intake", "update", "delete", "values", "price", "prices"}
Modes == {"key share", "no key update", "update"}
NoWrite == [op |-> "none", cols |-> <<>>]
Insert(img) == [op |-> "insert", cols |-> img]
SetTo(f) == [op |-> "set", cols |-> f]
Deletion == [op |-> "delete", cols |-> <<>>]
WriteOps == {NoWrite, Deletion} \cup {Insert(img) : img \in Image} \cup {SetTo(f) : f \in Patch}
Entry == [act : {"create", "update", "delete"}, row : Row,
          before : Image \cup {Absent}, after : Image \cup {Absent}]

TypeOK ==
  /\ store \in [Row -> Image \cup {Absent}]
  /\ born \in SUBSET Row
  /\ audit \in Seq(Entry)
  /\ lock \in [Row -> SUBSET (Tx \X Modes)]
  /\ pc \in [Tx -> {"idle", "open"}]
  /\ kind \in [Tx -> Kinds]
  /\ patch \in [Tx -> [Row -> Patch]]
  /\ seen \in [Tx -> [Row -> Image \cup {Absent}]]
  /\ todo \in [Tx -> SUBSET Row]
  /\ writes \in [Tx -> [Row -> WriteOps]]
  /\ entries \in [Tx -> Seq(Entry)]
  /\ ops \in 0 .. MaxOps
  /\ raced \in SUBSET Row
  /\ seeded \in [Row -> Image \cup {Absent}]
  /\ repriced \in SUBSET Row

Exists(r) == store[r] # Absent
NoRows == [r \in Row |-> Absent]
NoPatch == [r \in Row |-> <<>>]
NothingWritten == [r \in Row |-> NoWrite]

Init ==
  /\ store = NoRows
  /\ born = {}
  /\ audit = <<>>
  /\ lock = [r \in Row |-> {}]
  /\ pc = [t \in Tx |-> "idle"]
  /\ kind = [t \in Tx |-> "none"]
  /\ patch = [t \in Tx |-> NoPatch]
  /\ seen = [t \in Tx |-> NoRows]
  /\ todo = [t \in Tx |-> {}]
  /\ writes = [t \in Tx |-> NothingWritten]
  /\ entries = [t \in Tx |-> <<>>]
  /\ ops = 0
  /\ raced = {}
  /\ seeded = NoRows
  /\ repriced = {}

-----------------------------------------------------------------------------
(* PostgreSQL: row locks, foreign keys, and what a write does to a row.       *)

Conflict(m, n) ==
  \/ m = "update" \/ n = "update"
  \/ m = "no key update" /\ n = "no key update"

(* A statement needs some locks, pairs of a row and a mode.                   *)
Free(t, need) ==
  \A n \in need : \A l \in lock[n[1]] : l[1] = t \/ ~Conflict(n[2], l[2])

Take(t, need) ==
  lock' = [r \in Row |-> lock[r] \cup {<<t, m>> : m \in {n \in Modes : <<r, n>> \in need}}]

(* The rows the foreign keys in f refer to, and the locks their check takes.  *)
Parents(f) == {f[k] : k \in Key \cap DOMAIN f} \ {NoRow}
Shares(f) == {<<p, "key share">> : p \in Parents(f)}

(* The constraints hold for the keys in f: NOT NULL, and the row exists.      *)
Fits(r, f) ==
  \A k \in Key \cap DOMAIN f : f[k] \in Target[r][k] /\ (f[k] # NoRow => Exists(f[k]))

Children(r) == {s \in Row : Exists(s) /\ \E k \in Key : store[s][k] = r}

Over(f, img) == [c \in Col |-> IF c \in DOMAIN f THEN f[c] ELSE img[c]]

Apply(w, img) ==
  CASE w.op = "none"   -> img
    [] w.op = "insert" -> w.cols
    [] w.op = "set"    -> Over(w.cols, img)
    [] w.op = "delete" -> Absent

-----------------------------------------------------------------------------
(* Beginning a request.                                                      *)

Begin(t, k, rows, f) ==
  /\ pc[t] = "idle"
  /\ ops < MaxOps
  /\ ops' = ops + 1
  /\ pc' = [pc EXCEPT ![t] = "open"]
  /\ kind' = [kind EXCEPT ![t] = k]
  /\ patch' = [patch EXCEPT ![t] = f]
  /\ todo' = [todo EXCEPT ![t] = rows]
  /\ seen' = [seen EXCEPT ![t] = [r \in Row |-> IF r \in rows THEN store[r] ELSE Absent]]

(* create_*: INSERT at the flush, which gives the id and locks the parent    *)
(* rows against deletion, and the audit row of the new image.                *)
Create(t, r, img) ==
  /\ r \notin born
  /\ Free(t, Shares(img)) /\ Fits(r, img)
  /\ Begin(t, "create", {}, NoPatch)
  /\ born' = born \cup {r}
  /\ Take(t, Shares(img))
  /\ writes' = [writes EXCEPT ![t][r] = Insert(img)]
  /\ entries' = [entries EXCEPT ![t] =
        <<[act |-> "create", row |-> r, before |-> Absent, after |-> img]>>]
  /\ UNCHANGED <<store, audit, history>>

(* A foreign key points to nothing: IntegrityError, rollback, and the id is  *)
(* spent.                                                                    *)
CreateRefused(t, r, img) ==
  /\ pc[t] = "idle" /\ ops < MaxOps
  /\ r \notin born
  /\ Free(t, Shares(img)) /\ ~Fits(r, img)
  /\ born' = born \cup {r}
  /\ ops' = ops + 1
  /\ UNCHANGED <<store, audit, lock, tx, history>>

(* POST /intake/submit inserts goals, accounts, holdings and the rest, in one *)
(* transaction and without an audit row.  A foreign key is that of a row it   *)
(* has flushed itself.                                                        *)
OwnKeys(rows, ans) ==
  \A r \in rows, k \in Key :
    ans[r][k] \in Target[r][k] /\ (ans[r][k] # NoRow => ans[r][k] \in rows)

Intake(t, rows, ans) ==
  /\ rows \cap born = {} /\ OwnKeys(rows, ans)
  /\ Begin(t, "intake", {}, NoPatch)
  /\ born' = born \cup rows
  /\ writes' = [writes EXCEPT ![t] =
        [r \in Row |-> IF r \in rows THEN Insert(ans[r]) ELSE NoWrite]]
  /\ UNCHANGED <<store, audit, lock, entries, history>>

(* update_*, delete_* and refresh_single_price load the row first; when it   *)
(* is not there the answer is 404 and nothing has happened.                  *)
Load(t, k, r, f) ==
  /\ Exists(r)
  /\ Begin(t, k, {r}, [NoPatch EXCEPT ![r] = f])
  /\ UNCHANGED <<store, born, audit, lock, writes, entries, history>>

PriceOf(v) == [c \in {Price} |-> v]

(* refresh_real_estate_values loads all properties and works through those    *)
(* that have an address and get an estimate: est[r] for each.                 *)
LoadProperties(t, est) ==
  /\ DOMAIN est \subseteq {r \in Property : Exists(r)}
  /\ Begin(t, "values", DOMAIN est,
           [r \in Row |-> IF r \in DOMAIN est THEN PriceOf(est[r]) ELSE <<>>])
  /\ UNCHANGED <<store, born, audit, lock, writes, entries, history>>

(* refresh_all_prices lists the tickers, and fetches the price of one after   *)
(* another.                                                                   *)
ListTickers(t) ==
  /\ Begin(t, "prices", {}, NoPatch)
  /\ UNCHANGED <<store, born, audit, lock, writes, entries, history>>

Written(t) == {r \in Row : writes[t][r].op # "none"}

(* Once a ticker's price v has been fetched, one UPDATE writes all the rows   *)
(* that hold the ticker at that moment; a ticker without a price is skipped.  *)
(* A row this request has written is locked and so keeps the ticker it had.   *)
UpdateTicker(t, rows, v) ==
  /\ pc[t] = "open" /\ kind[t] = "prices" /\ todo[t] = {}
  /\ rows # {} /\ rows \subseteq {r \in Holding : Exists(r)} \ Written(t)
  /\ todo' = [todo EXCEPT ![t] = rows]
  /\ patch' = [patch EXCEPT ![t] = [r \in Row |-> IF r \in rows THEN PriceOf(v) ELSE @[r]]]
  /\ seen' = [seen EXCEPT ![t] = [r \in Row |-> IF r \in rows THEN store[r] ELSE @[r]]]
  /\ UNCHANGED <<store, born, audit, lock, pc, kind, writes, entries, ops, history>>

-----------------------------------------------------------------------------
(* The writes of a request.                                                  *)

Changed(t, r) ==
  {c \in DOMAIN patch[t][r] : kind[t] = "price" \/ patch[t][r][c] # seen[t][r][c]}

\* The price refreshes write the row, as the intake does, without
\* write_audit_log.  (The mutants leave out others.)
UnauditedDelete(t, act) == act = "delete" \/ kind[t] \in {"intake", "price", "prices"}
UnauditedUpdate(t, act) == act = "update"
UnauditedValues(t, act) == kind[t] \in {"intake", "values", "price", "prices"}
Unaudited(t, act) == kind[t] \in {"intake", "price", "prices"}

\* Mutants: the entry holds the body instead of the row; "before" is taken
\* after setattr.
EntryOfPatch(t, act, r, after) ==
  [act |-> act, row |-> r, before |-> seen[t][r], after |-> patch[t][r]]
EntryTakenLate(t, act, r, after) ==
  [act |-> act, row |-> r, before |-> Over(patch[t][r], seen[t][r]), after |-> after]
AuditRow(t, act, r, after) ==
  [act |-> act, row |-> r, before |-> seen[t][r], after |-> after]

AddEntry(t, act, r, after) ==
  IF Unaudited(t, act) THEN UNCHANGED entries
  ELSE entries' = [entries EXCEPT ![t] = Append(@, AuditRow(t, act, r, after))]

Done(t, r) == todo' = [todo EXCEPT ![t] = @ \ {r}]

\* The values the UPDATE carries; the mutant sends the whole row as loaded.
WholeRow(t, r) == Over(patch[t][r], seen[t][r])
Assigned(t, r) == [c \in Changed(t, r) |-> patch[t][r][c]]

\* The locks of its UPDATE or DELETE: the row, and the rows its new keys refer
\* to; the mutant looks whether these exist and does not hold on to them.
NeedsRow(t, r) == {<<r, IF kind[t] = "delete" THEN "update" ELSE "no key update">>}
Needs(t, r) ==
  {<<r, IF kind[t] = "delete" THEN "update" ELSE "no key update">>} \cup Shares(Assigned(t, r))

(* setattr, flush, audit row.  The flush emits UPDATE for the columns whose  *)
(* value differs from the loaded one, and nothing when none does.            *)
Write(t, r) ==
  /\ pc[t] = "open" /\ kind[t] \in {"update", "values", "price"}
  /\ r \in todo[t]
  /\ \/ Changed(t, r) = {} /\ UNCHANGED <<lock, writes>>
     \/ /\ Changed(t, r) # {}
        /\ Free(t, Needs(t, r)) /\ Exists(r) /\ Fits(r, Assigned(t, r))
        /\ Take(t, Needs(t, r))
        /\ writes' = [writes EXCEPT ![t][r] = SetTo(Assigned(t, r))]
  /\ AddEntry(t, "update", r, Over(patch[t][r], seen[t][r]))
  /\ Done(t, r)
  /\ UNCHANGED <<store, born, audit, pc, kind, patch, seen, ops, history>>

(* One row of the multi-row UPDATE; one that was deleted meanwhile, or was    *)
(* changed and perhaps is of another ticker now, is passed over.              *)
WritePriceRow(t, r) ==
  /\ pc[t] = "open" /\ kind[t] = "prices"
  /\ r \in todo[t]
  /\ Free(t, Needs(t, r))
  /\ \/ /\ Exists(r)
        /\ Take(t, Needs(t, r))
        /\ writes' = [writes EXCEPT ![t][r] = SetTo(patch[t][r])]
     \/ store[r] # seen[t][r] /\ UNCHANGED <<lock, writes>>
  /\ Done(t, r)
  /\ UNCHANGED <<store, born, audit, pc, kind, patch, seen, entries, ops, history>>

(* write_audit_log, session.delete, and the DELETE of the commit's flush.    *)
(* When the row is gone already the DELETE matches nothing, which is only a  *)
(* warning.                                                                  *)
Remove(t, r) ==
  /\ pc[t] = "open" /\ kind[t] = "delete"
  /\ r \in todo[t]
  /\ Free(t, Needs(t, r))
  /\ \/ /\ Exists(r) /\ Children(r) = {}
        /\ Take(t, Needs(t, r))
        /\ writes' = [writes EXCEPT ![t][r] = Deletion]
     \/ ~Exists(r) /\ UNCHANGED <<lock, writes>>
  /\ AddEntry(t, "delete", r, Absent)
  /\ Done(t, r)
  /\ UNCHANGED <<store, born, audit, pc, kind, patch, seen, ops, history>>

-----------------------------------------------------------------------------
(* The end of a request.                                                     *)

\* Mutant: the session is not closed, its transaction keeps the locks.
ReleaseNothing(t) == UNCHANGED lock
Release(t) == lock' = [r \in Row |-> {l \in lock[r] : l[1] # t}]

Close(t) ==
  /\ pc' = [pc EXCEPT ![t] = "idle"]
  /\ kind' = [kind EXCEPT ![t] = "none"]
  /\ patch' = [patch EXCEPT ![t] = NoPatch]
  /\ seen' = [seen EXCEPT ![t] = NoRows]
  /\ todo' = [todo EXCEPT ![t] = {}]
  /\ writes' = [writes EXCEPT ![t] = NothingWritten]
  /\ entries' = [entries EXCEPT ![t] = <<>>]
  /\ Release(t)

Touched(t) == todo[t] \cup {entries[t][i].row : i \in DOMAIN entries[t]}

Remember(t) ==
  /\ raced' = raced \cup {r \in Written(t) : \E u \in Tx \ {t} : r \in Touched(u)}
  /\ seeded' = [r \in Row |->
        IF kind[t] = "intake" /\ r \in Written(t) THEN writes[t][r].cols ELSE seeded[r]]
  /\ repriced' = repriced \cup (IF kind[t] \in {"price", "prices"} THEN Written(t) ELSE {})

Commit(t) ==
  /\ pc[t] = "open" /\ todo[t] = {}
  /\ store' = [r \in Row |-> Apply(writes[t][r], store[r])]
  /\ audit' = audit \o entries[t]
  /\ Remember(t)
  /\ Close(t)
  /\ UNCHANGED <<born, ops>>

Rollback(t) ==
  /\ Close(t)
  /\ UNCHANGED <<store, born, audit, ops, history>>

(* UPDATE matched no row: StaleDataError.  For refresh-values this throws    *)
(* away the whole batch.                                                     *)
WriteStale(t, r) ==
  /\ pc[t] = "open" /\ kind[t] \in {"update", "values", "price"}
  /\ r \in todo[t]
  /\ Changed(t, r) # {}
  /\ Free(t, {<<r, "no key update">>}) /\ ~Exists(r)
  /\ Rollback(t)

(* The PATCH moves the row to a parent that is not there, or to none where    *)
(* the key is NOT NULL: IntegrityError.                                       *)
WriteRefused(t, r) ==
  /\ pc[t] = "open" /\ kind[t] = "update"
  /\ r \in todo[t]
  /\ Free(t, Needs(t, r)) /\ Exists(r) /\ ~Fits(r, Assigned(t, r))
  /\ Rollback(t)

(* DELETE of a row that others refer to: IntegrityError.  (For a child that   *)
(* is being deleted the check waits.)                                         *)
RemoveRefused(t, r) ==
  /\ pc[t] = "open" /\ kind[t] = "delete"
  /\ r \in todo[t]
  /\ Free(t, Needs(t, r))
  /\ \E s \in Children(r) : Free(t, {<<s, "key share">>})
  /\ Rollback(t)

(* The connection or the process is lost, or a price cannot be had.           *)
Abort(t) == pc[t] = "open" /\ Rollback(t)

(* PostgreSQL's deadlock detector picks a victim.  (Two requests that both   *)
(* wait do so for each other when there are only two.)                       *)
Waits(t, r) ==
  \/ ~Free(t, Needs(t, r))
  \/ /\ kind[t] = "delete" /\ Children(r) # {}
     /\ \A s \in Children(r) : ~Free(t, {<<s, "key share">>})

Blocked(t) ==
  /\ pc[t] = "open" /\ todo[t] # {}
  /\ \A r \in todo[t] :
       Waits(t, r) /\ (kind[t] \in {"update", "values", "price"} => Changed(t, r) # {})

Victim(t) ==
  /\ Blocked(t) /\ \E u \in Tx \ {t} : Blocked(u)
  /\ Rollback(t)

Idle == (\A t \in Tx : pc[t] = "idle") /\ ops = MaxOps /\ UNCHANGED vars

Step(t, r) ==
  \/ Write(t, r) \/ WriteStale(t, r) \/ WriteRefused(t, r) \/ WritePriceRow(t, r)
  \/ Remove(t, r) \/ RemoveRefused(t, r)

(* What a body can say of r: the ids in it are of the table its keys refer to. *)
NewRow(r) == {img \in Image : \A k \in Key : img[k] \in Target[r][k]}
Body(r) == {f \in Patch : \A k \in Key \cap DOMAIN f : f[k] \in Target[r][k] \cup {NoRow}}

Next ==
  \/ \E t \in Tx, r \in Row :
       \/ \E img \in NewRow(r) : Create(t, r, img) \/ CreateRefused(t, r, img)
       \/ \E f \in Body(r) : Load(t, "update", r, f)
       \/ Load(t, "delete", r, <<>>)
       \/ r \in Holding /\ \E v \in Val : Load(t, "price", r, PriceOf(v))
       \/ Step(t, r)
  \/ \E t \in Tx, rows \in SUBSET Row, ans \in Answers : Intake(t, rows, ans)
  \/ \E t \in Tx, rows \in SUBSET Property : \E est \in [rows -> Val] : LoadProperties(t, est)
  \/ \E t \in Tx, rows \in SUBSET Holding, v \in Val : UpdateTicker(t, rows, v)
  \/ \E t \in Tx : ListTickers(t) \/ Commit(t) \/ Abort(t) \/ Victim(t)
  \/ Idle

Spec == Init /\ [][Next]_vars

(* A handler is a coroutine that the event loop resumes when its statement   *)
(* returns; a statement that waits for a lock goes on once it is free.       *)
Fairness ==
  \A t \in Tx :
    /\ WF_vars(Commit(t)) /\ WF_vars(Victim(t))
    /\ SF_vars(\E r \in Row : Step(t, r))

FairSpec == Spec /\ Fairness

-----------------------------------------------------------------------------
(* Properties.                                                               *)

Logged(act, r) == \E i \in DOMAIN audit : audit[i].act = act /\ audit[i].row = r

(* Which rows exist can be told from the audit trail and the archived intake: *)
(* a row is in its table exactly when its creation was logged, or the intake  *)
(* inserted it, and no deletion was logged.                                   *)
LifecycleAudited ==
  \A r \in Row :
    Exists(r) <=> (Logged("create", r) \/ seeded[r] # Absent) /\ ~Logged("delete", r)

(* docs/THREAT_MODEL.md: "audit every mutation".  A row that exists has its   *)
(* creation in the trail (which it has not when the intake inserted it).      *)
CreationsLogged == \A r \in Row : Exists(r) => Logged("create", r)

(* A row never outlives a row it refers to, and refers to none only where its *)
(* key may be NULL, whatever order of creating or moving the child and        *)
(* deleting the parent the requests get their locks in.                       *)
NoOrphans ==
  \A r \in Row : Exists(r) => \A k \in Key :
    store[r][k] \in Target[r][k] /\ (store[r][k] # NoRow => Exists(store[r][k]))

(* The request that ends in this step.                                        *)
Ends(t) == pc[t] = "open" /\ pc'[t] = "idle"

(* One of the two price refreshes, which write no audit row, ends in this     *)
(* step and has written nothing of r but the price.                           *)
Repriced(r) ==
  /\ r \in Holding /\ Exists(r) /\ store'[r] # Absent
  /\ \A c \in Col \ {Price} : store'[r][c] = store[r][c]
  /\ \E t \in Tx : kind[t] \in {"price", "prices"} /\ Ends(t)

(* The intake, which writes no audit row either, ends and has inserted r.     *)
Seeded(r) == ~Exists(r) /\ \E t \in Tx : kind[t] = "intake" /\ Ends(t)

(* A step that changes a row appends an entry for it that holds the values it *)
(* set.  Only two kinds of change have none, against THREAT_MODEL.md's "audit *)
(* every mutation": the rows the intake inserts, and the price of a holding.  *)
MutationsAudited ==
  [][\A r \in Row : store'[r] # store[r] =>
       \/ Repriced(r) \/ Seeded(r)
       \/ \E i \in Len(audit) + 1 .. Len(audit') :
            /\ audit'[i].row = r
            /\ store'[r] = Absent <=> audit'[i].act = "delete"
            /\ store'[r] # Absent => \A c \in Col :
                 ~Exists(r) \/ store'[r][c] # store[r][c] => audit'[i].after[c] = store'[r][c]
    ]_vars

(* img is the image of r that the first n entries leave of the image first.  *)
LeftBy(trail, first, r, n, img) ==
  \/ img = first /\ \A i \in 1 .. n : trail[i].row # r
  \/ \E i \in 1 .. n : /\ trail[i].row = r /\ trail[i].after = img
                       /\ \A j \in i + 1 .. n : trail[j].row # r

(* Without a race the trail is exact: the first entry of a row starts from    *)
(* nothing, or from what the intake inserted, every other one from the image  *)
(* the one before it left, and the last image is the row.  (Only concurrent    *)
(* requests for one row make session.get a stale "before"; a price refresh     *)
(* changes a holding behind the trail's back.)                                 *)
SerialTrailIsExact ==
  \A r \in Row \ (raced \cup repriced) :
    /\ \A i \in DOMAIN audit :
         audit[i].row = r => LeftBy(audit, seeded[r], r, i - 1, audit[i].before)
    /\ LeftBy(audit, seeded[r], r, Len(audit), store[r])

(* A request changes no column that its body did not set, so two PATCHes of  *)
(* different columns both survive although each loaded the row before the    *)
(* other committed.                                                          *)
NoColumnReverted ==
  [][\A r \in Row, c \in Col :
       Exists(r) /\ store'[r] # Absent /\ store'[r][c] # store[r][c] =>
         \E t \in Tx : /\ Ends(t) /\ c \in DOMAIN patch[t][r]
                       /\ store'[r][c] = patch[t][r][c]]_vars

(* Requests that do not work on one row at once are serializable, whatever    *)
(* other rows they have to do with: at its commit, a request whose rows were   *)
(* never raced does what it would have done by itself (SerialVault).           *)
OneByOne == INSTANCE SerialVault
LeftAlone(r) ==
  store'[r] = store[r] /\ \A i \in Len(audit) + 1 .. Len(audit') : audit'[i].row # r
SerialUnlessRaced ==
  /\ OneByOne!Init
  /\ [][(\A r \in raced' : LeftAlone(r)) => UNCHANGED OneByOne!vars \/ OneByOne!Next]_vars

(* Every request gets its answer: nobody waits for a lock for ever.          *)
RequestsEnd == \A t \in Tx : pc[t] = "open" ~> pc[t] = "idle"
=============================================================================
