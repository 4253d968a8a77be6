---------------------------- MODULE SerialImport ----------------------------
(***************************************************************************)
(* What uploading a statement promises: uploads take effect one at a time.   *)
(* The lines that the account does not have yet are stored with their batch, *)
(* which counts them; an account goes only while no batch refers to it.      *)
(***************************************************************************)
EXTENDS Naturals, FiniteSets

CONSTANTS Account, Line, Batch

VARIABLES accounts, batches, rows

vars == <<accounts, batches, rows>>

Init == accounts = Account /\ batches = {} /\ rows = {}

Stored == {r.hash : r \in rows}

\* The order of the lines, and how often the file has one, do not matter.
Upload(id, a, lines) ==
  /\ a \in accounts
  /\ \A b \in batches : b.id # id
  /\ LET new == ({a} \X lines) \ Stored IN
     /\ batches' = batches \cup {[id |-> id, account |-> a, row_count |-> Cardinality(new)]}
     /\ rows' = rows \cup {[batch |-> id, hash |-> h] : h \in new}
  /\ UNCHANGED accounts

Delete(a) ==
  /\ a \in accounts
  /\ \A b \in batches : b.account # a
  /\ accounts' = accounts \ {a}
  /\ UNCHANGED <<batches, rows>>

Next ==
  \E a \in Account :
    \/ \E id \in Batch, lines \in SUBSET Line : Upload(id, a, lines)
    \/ Delete(a)

Spec == Init /\ [][Next]_vars
=============================================================================
