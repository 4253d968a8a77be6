------------------------------ MODULE MCVault ------------------------------
(***************************************************************************)
(* The instance of Vault that TLC checks.  1 and 2 are rows a key may refer   *)
(* to, and properties that refresh-values estimates; 3 and 4 are holdings,    *)
(* 3 with a key that is NOT NULL and 4 with one that may be NULL (the account *)
(* of a card, say; the price refreshes and the two nullabilities do not meet  *)
(* in one table, so these rows do what rows of either table do).              *)
(***************************************************************************)
EXTENDS Vault

Referred == {1, 2}

MCTarget == [r \in Row |-> [k \in Key |->
  IF r \in Referred THEN {NoRow} ELSE IF r = 3 THEN {1, 2} ELSE {1, NoRow}]]

\* What the intake says of the rows it inserts: every value is 0, and the
\* holdings are of account 1.
FromIntake(r) == [c \in Col |-> IF c \notin Key THEN 0 ELSE IF r \in Referred THEN NoRow ELSE 1]
MCAnswers == {[r \in Row |-> FromIntake(r)]}
=============================================================================
