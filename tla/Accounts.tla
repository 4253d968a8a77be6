------------------------------ MODULE Accounts ------------------------------
(***************************************************************************)
(* The users of auth.py and the bearer tokens given to them.  Passwords and  *)
(* hashes are left out: a password is right or wrong.  No user is ever       *)
(* deleted, so a name stands for the id a token carries.                     *)
(***************************************************************************)
CONSTANT Name

VARIABLES
  users,    \* committed rows of table users
  tokens    \* history: the users clients have got a token for

accountVars == <<users, tokens>>

AccountsTypeOK == users \subseteq Name /\ tokens \subseteq Name

(* A new installation, or one whose owner is registered and has logged in.   *)
AccountsInit == users \in {{}} \cup {{n} : n \in Name} /\ tokens = users

\* register's first query; the mutant never closes registration.
AlwaysOpen == users = users
RegistrationOpen == users = {}

(* INSERT and commit; the unique index lets no name in twice.                *)
CreateUser(n) == n \notin users /\ users' = users \cup {n} /\ UNCHANGED tokens

IssueToken(n) == tokens' = tokens \cup {n} /\ UNCHANGED users

=============================================================================
