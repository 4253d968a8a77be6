---------------------------- MODULE SerialVault ----------------------------
(***************************************************************************)
(* What the vault promises to one user who does one thing at a time: each    *)
(* request finds the rows as they are, does to them what it says as a whole, *)
(* and leaves an entry per row that leads from the old image to the new.     *)
(* The intake and the price refreshes leave none.                            *)
(***************************************************************************)
EXTENDS Naturals, Sequences

CONSTANTS Row, Col, Val, Key, Target, NoRow, Answers, Property, Holding, Price, Absent

VARIABLES store, audit

vars == <<store, audit>>

Cell(c) == IF c \in Key THEN Row \cup {NoRow} ELSE Val
Cells == Val \cup Row \cup {NoRow}
Typed(f) == \A c \in DOMAIN f : f[c] \in Cell(c)
Image == {f \in [Col -> Cells] : Typed(f)}
Patch == {f \in UNION {[C -> Cells] : C \in SUBSET Col} : Typed(f)}

Exists(r) == store[r] # Absent
Fresh(r) == ~Exists(r) /\ \A i \in DOMAIN audit : audit[i].row # r

Init == store = [r \in Row |-> Absent] /\ audit = <<>>

Over(f, img) == [c \in Col |-> IF c \in DOMAIN f THEN f[c] ELSE img[c]]

\* The row's foreign keys would be in order with this image.
Fits(r, img) ==
  \A k \in Key : img[k] \in Target[r][k] /\ (img[k] # NoRow => Exists(img[k]))

\* The entry that tells what this step does to the row.
Entry(act, r) == [act |-> act, row |-> r, before |-> store[r], after |-> store'[r]]

Log(act, r) == audit' = Append(audit, Entry(act, r))

Create(r, img) ==
  /\ Fresh(r) /\ Fits(r, img)
  /\ store' = [store EXCEPT ![r] = img]
  /\ Log("create", r)

Update(r, f) ==
  /\ Exists(r) /\ Fits(r, Over(f, store[r]))
  /\ store' = [store EXCEPT ![r] = Over(f, @)]
  /\ Log("update", r)

Delete(r) ==
  /\ Exists(r)
  /\ \A s \in Row : Exists(s) => \A k \in Key : store[s][k] # r
  /\ store' = [store EXCEPT ![r] = Absent]
  /\ Log("delete", r)

(* A whole vault at once; the keys in it are of the rows themselves.          *)
Intake(rows, ans) ==
  /\ \A r \in rows : Fresh(r)
  /\ \A r \in rows, k \in Key :
       ans[r][k] \in Target[r][k] /\ (ans[r][k] # NoRow => ans[r][k] \in rows)
  /\ store' = [r \in Row |-> IF r \in rows THEN ans[r] ELSE store[r]]
  /\ UNCHANGED audit

\* Each row of est gets its own price.
SetPrices(est) ==
  /\ \A r \in DOMAIN est : Exists(r)
  /\ store' = [r \in Row |-> IF r \in DOMAIN est THEN Over([c \in {Price} |-> est[r]], store[r])
                             ELSE store[r]]

(* The estimates of some properties, in one transaction; each has its entry. *)
Revalue(est) ==
  LET new == SubSeq(audit', Len(audit) + 1, Len(audit')) IN
  /\ SetPrices(est)
  /\ audit' = audit \o new
  /\ \A i \in DOMAIN new : new[i].row \in DOMAIN est /\ new[i] = Entry("update", new[i].row)
  /\ \A r \in DOMAIN est : \E i \in DOMAIN new : new[i].row = r
  /\ \A i, j \in DOMAIN new : new[i].row = new[j].row => i = j

(* The prices of some holdings, which leave no entry.                        *)
Reprice(est) == SetPrices(est) /\ UNCHANGED audit

Next ==
  \/ \E r \in Row :
       \/ \E img \in Image : Create(r, img)
       \/ \E f \in Patch : Update(r, f)
       \/ Delete(r)
  \/ \E rows \in SUBSET Row, ans \in Answers : Intake(rows, ans)
  \/ \E rows \in SUBSET Property : \E est \in [rows -> Val] : Revalue(est)
  \/ \E rows \in SUBSET Holding : \E est \in [rows -> Val] : Reprice(est)

Spec == Init /\ [][Next]_vars
=============================================================================
