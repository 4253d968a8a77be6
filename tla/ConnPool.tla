------------------------------ MODULE ConnPool ------------------------------
(***************************************************************************)
(* The pool of database connections (db.py) as its users see it.  A request  *)
(* has at most two sessions: the one of get_session, which lives as long as  *)
(* the request, and one that a node of the agent or of the digest opens.  A  *)
(* session takes a connection at its first statement and gives it back when  *)
(* its transaction or the session ends.                                      *)
(***************************************************************************)
EXTENDS Naturals, FiniteSets

CONSTANTS
  Request,    \* slots for requests the server works on at the same time
  PoolSize    \* pool_size + max_overflow

ASSUME PoolAssumption == IsFiniteSet(Request) /\ PoolSize \in Nat \ {0}

Session == Request \X {"request", "node"}
Own(r) == <<r, "request">>
Node(r) == <<r, "node">>

VARIABLES
  held,      \* sessions that have a connection
  wanting    \* sessions that wait for one

poolVars == <<held, wanting>>

PoolTypeOK == held \subseteq Session /\ wanting \subseteq Session

PoolInit == held = {} /\ wanting = {}

(* The first statement of a session.                                         *)
Want(s) == held' = held /\ wanting' = wanting \cup {s}

(* The pool has a connection for s.  Waiters are not served in order.        *)
Checkout(s) ==
  /\ s \in wanting /\ Cardinality(held) < PoolSize
  /\ held' = held \cup {s} /\ wanting' = wanting \ {s}

\* The end of a request, whether it returned or raised: its sessions are
\* closed.  The mutant forgets the session of a node.
KeepNode(r) == held' = held \ {Own(r)} /\ wanting' = wanting \ {Own(r)}
Drop(r) == held' = held \ {Own(r), Node(r)} /\ wanting' = wanting \ {Own(r), Node(r)}

(* The end of a session, or of its transaction.                              *)
Return(s) == held' = held \ {s} /\ wanting' = wanting

\* commit() and then refresh(): the connection goes back, and the refresh
\* asks for one again.  The mutant refreshes on a second connection.
KeepAndWant(s) == held' = held /\ wanting' = wanting \cup {s}
Requeue(s) == held' = held \ {s} /\ wanting' = wanting \cup {s}

=============================================================================
