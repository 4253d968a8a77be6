-------------------------------- MODULE Server --------------------------------
(***************************************************************************)
(* The requests one server process works on: registration and login          *)
(* (auth.py), requests behind the bearer check, chat turns and runs of the   *)
(* digest, whose nodes open sessions of their own, and the health probe, all *)
(* over the connection pool.  What a node reads or asks a model is left out  *)
(* (AgentTurn and Digest have it).                                           *)
(***************************************************************************)
EXTENDS ConnPool, Accounts, Conversation

CONSTANTS
  Nobody,        \* no user
  Nodes,         \* sessions a chat turn or digest run opens before its last step
  MaxRequests    \* bound: requests received

ASSUME ServerAssumption ==
  /\ Nobody \notin Name /\ MaxTurns \in Nat
  /\ Nodes \in [{"chat", "digest"} -> Nat]

VARIABLES
  job,       \* what the server does for each slot
  received   \* number of requests so far

vars == <<poolVars, accountVars, conversationVars, job, received>>

Stage == {"idle", "check", "hash", "refresh", "lookup", "verify", "dummy", "auth", "read",
          "think", "node", "persist", "commit", "reply", "ping"}
Kind == {"none", "register", "login", "list", "chat", "digest", "health"}

(* stage: where the handler is; user: the name sent, or the token's; conv:   *)
(* the conversation_id, 0 for none; turn, at: the question, and the time its *)
(* transaction began; left: node sessions still to open; answers: history,   *)
(* the answers that were out when a list was asked for.                      *)
Job == [stage : Stage, kind : Kind, user : Name \cup {Nobody}, conv : 0..MaxTurns,
        turn : 0..MaxTurns, at : Nat, left : Nat, answers : SUBSET (Turn \X Turn)]

Idle == [stage |-> "idle", kind |-> "none", user |-> Nobody, conv |-> 0, turn |-> 0,
         at |-> 0, left |-> 0, answers |-> {}]

TypeOK ==
  /\ PoolTypeOK /\ AccountsTypeOK /\ ConversationTypeOK
  /\ job \in [Request -> Job]
  /\ received \in Nat

Init ==
  /\ PoolInit /\ AccountsInit /\ ConversationInit
  /\ job = [r \in Request |-> Idle]
  /\ received = 0

-----------------------------------------------------------------------------
(* A request arrives, makes its first statement and waits for a connection.  *)
(* One that is refused before that (a rate limit, a malformed or expired     *)
(* token) changes nothing and is left out.                                   *)

Receive(r, k, s, j) ==
  /\ job[r].stage = "idle" /\ received < MaxRequests
  /\ received' = received + 1
  /\ job' = [job EXCEPT ![r] = [j EXCEPT !.kind = k, !.stage = s]]
  /\ Want(Own(r))
  /\ UNCHANGED accountVars

Register(r) ==
  /\ \E n \in Name : Receive(r, "register", "check", [Idle EXCEPT !.user = n])
  /\ UNCHANGED conversationVars

Login(r) ==
  /\ \E n \in Name : Receive(r, "login", "lookup", [Idle EXCEPT !.user = n])
  /\ UNCHANGED conversationVars

ListMessages(r) ==
  /\ \E n \in tokens, c \in Convs :
       Receive(r, "list", "auth", [Idle EXCEPT !.user = n, !.conv = c, !.answers = answered])
  /\ UNCHANGED conversationVars

Chat(r) ==
  /\ \E n \in tokens, c \in {0} \cup Convs :
       Receive(r, "chat", "auth",
               [Idle EXCEPT !.user = n, !.conv = c, !.turn = asked + 1, !.left = Nodes["chat"]])
  /\ Ask

RunDigest(r) ==
  /\ \E n \in tokens :
       Receive(r, "digest", "auth", [Idle EXCEPT !.user = n, !.left = Nodes["digest"]])
  /\ UNCHANGED conversationVars

Health(r) == Receive(r, "health", "ping", Idle) /\ UNCHANGED conversationVars

-----------------------------------------------------------------------------
(* The handlers, from one wait to the next.                                  *)

At(r, s) == job[r].stage = s
Ready(r, s) == At(r, s) /\ Own(r) \in held
Goto(r, s) == job' = [job EXCEPT ![r].stage = s]

(* The response is sent and get_session closes the session.                  *)
Finish(r) == job' = [job EXCEPT ![r] = Idle] /\ Drop(r)

(* A session gets its connection.  The transaction of persist_node begins    *)
(* then.                                                                     *)
Connect(r) ==
  /\ \E s \in {Own(r), Node(r)} : Checkout(s)
  /\ IF At(r, "persist")
     THEN BeginTurn /\ job' = [job EXCEPT ![r].stage = "commit", ![r].at = clock + 1]
     ELSE UNCHANGED <<conversationVars, job>>
  /\ UNCHANGED <<accountVars, received>>

RegisterCheck(r) ==
  /\ Ready(r, "check")
  /\ IF RegistrationOpen THEN Goto(r, "hash") /\ UNCHANGED poolVars ELSE Finish(r)
  /\ UNCHANGED <<accountVars, conversationVars, received>>

(* A name that is taken by now raises from the commit.                       *)
RegisterCommit(r) ==
  /\ Ready(r, "hash")
  /\ \/ CreateUser(job[r].user) /\ Requeue(Own(r)) /\ Goto(r, "refresh")
     \/ job[r].user \in users /\ Finish(r) /\ UNCHANGED accountVars
  /\ UNCHANGED <<conversationVars, received>>

RegisterReply(r) ==
  /\ Ready(r, "refresh")
  /\ IssueToken(job[r].user) /\ Finish(r)
  /\ UNCHANGED <<conversationVars, received>>

LoginLookup(r) ==
  /\ Ready(r, "lookup")
  /\ Goto(r, IF job[r].user \in users THEN "verify" ELSE "dummy")
  /\ UNCHANGED <<poolVars, accountVars, conversationVars, received>>

LoginReply(r) ==
  /\ At(r, "verify") \/ At(r, "dummy")
  /\ \/ At(r, "verify") /\ IssueToken(job[r].user)
     \/ UNCHANGED accountVars
  /\ Finish(r)
  /\ UNCHANGED <<conversationVars, received>>

(* get_current_user; its session is the one of the handler.                  *)
Authenticate(r) ==
  /\ Ready(r, "auth")
  /\ IF job[r].user \in users
     THEN Goto(r, IF job[r].kind = "list" THEN "read" ELSE "think") /\ UNCHANGED poolVars
     ELSE Finish(r)
  /\ UNCHANGED <<accountVars, conversationVars, received>>

ReadMessages(r) ==
  /\ At(r, "read")
  /\ List(job[r].conv, job[r].answers) /\ Finish(r)
  /\ UNCHANGED <<accountVars, received>>

Ping(r) ==
  /\ Ready(r, "ping") /\ Finish(r)
  /\ UNCHANGED <<accountVars, conversationVars, received>>

-----------------------------------------------------------------------------
(* A chat turn or a run of the digest: nodes that open a session, and close  *)
(* it before the next; the connection of the bearer check stays checked out. *)

OpenNode(r) ==
  /\ At(r, "think") /\ job[r].left > 0
  /\ Want(Node(r)) /\ Goto(r, "node")
  /\ UNCHANGED <<accountVars, conversationVars, received>>

CloseNode(r) ==
  /\ At(r, "node") /\ Node(r) \in held
  /\ Return(Node(r))
  /\ job' = [job EXCEPT ![r].stage = "think", ![r].left = @ - 1]
  /\ UNCHANGED <<accountVars, conversationVars, received>>

OpenPersist(r) ==
  /\ At(r, "think") /\ job[r].left = 0 /\ job[r].kind = "chat"
  /\ Want(Node(r)) /\ Goto(r, "persist")
  /\ UNCHANGED <<accountVars, conversationVars, received>>

\* The conversation of a turn; the mutant reads the id of a new one before
\* its INSERT.
Unflushed(j) == j.conv
ConvOf(j) == IF j.conv = 0 THEN j.turn ELSE j.conv

CommitTurn(r) ==
  /\ At(r, "commit")
  /\ SaveTurn(job[r].turn, ConvOf(job[r]), job[r].at)
  /\ Return(Node(r)) /\ Goto(r, "reply")
  /\ UNCHANGED <<accountVars, received>>

Reply(r) ==
  /\ \/ At(r, "reply") /\ Answer(job[r].turn, ConvOf(job[r]))
     \/ /\ At(r, "think") /\ job[r].left = 0 /\ job[r].kind = "digest"
        /\ UNCHANGED conversationVars
  /\ Finish(r)
  /\ UNCHANGED <<accountVars, received>>

-----------------------------------------------------------------------------
(* Anything raises: a model, a query, the limit on chat turns, the timeout   *)
(* of the pool.  What was committed stays.                                   *)
Fail(r) ==
  /\ ~At(r, "idle") /\ Finish(r)
  /\ UNCHANGED <<accountVars, conversationVars, received>>

\* A wait for a connection ends at the pool's timeout; the mutant waits on.
NeverTimesOut(r) == FALSE
TimesOut(r) == Own(r) \in wanting \/ Node(r) \in wanting

(* The process dies, or is restarted because the health check failed.        *)
Crash ==
  /\ job' = [r \in Request |-> Idle] /\ held' = {} /\ wanting' = {}
  /\ UNCHANGED <<accountVars, conversationVars, received>>

Arrive(r) == Register(r) \/ Login(r) \/ ListMessages(r) \/ Chat(r) \/ RunDigest(r) \/ Health(r)

Handle(r) ==
  \/ RegisterCheck(r) \/ RegisterCommit(r) \/ RegisterReply(r)
  \/ LoginLookup(r) \/ LoginReply(r)
  \/ Authenticate(r) \/ ReadMessages(r) \/ Ping(r)
  \/ OpenNode(r) \/ CloseNode(r) \/ OpenPersist(r) \/ CommitTurn(r) \/ Reply(r)

Next == Crash \/ \E r \in Request : Arrive(r) \/ Connect(r) \/ Handle(r) \/ Fail(r)

Spec == Init /\ [][Next]_vars

(* Handlers run on: model calls and mails have timeouts, PostgreSQL answers  *)
(* its queries (which have none: this is assumed), and a wait for a          *)
(* connection has the pool's timeout.  That anything else fails is never     *)
(* assumed.                                                                  *)
Fairness ==
  \A r \in Request : WF_vars(Handle(r)) /\ WF_vars(TimesOut(r) /\ Fail(r))

FairSpec == Spec /\ Fairness

-----------------------------------------------------------------------------
Turning(r) == job[r].kind \in {"chat", "digest"}

(* No path loses a connection (get_session and the nodes' async with, when   *)
(* anything raises): the pool is never overdrawn, a slot that is idle holds  *)
(* and awaits nothing, only a turn that is at a node has two sessions, and   *)
(* none waits for a connection it has.                                       *)
PoolAccounted ==
  /\ Cardinality(held) <= PoolSize /\ held \cap wanting = {}
  /\ \A r \in Request :
       /\ At(r, "idle") => {Own(r), Node(r)} \cap (held \cup wanting) = {}
       /\ Node(r) \in held \cup wanting =>
            Turning(r) /\ job[r].stage \in {"node", "persist", "commit"}

(* db.py's pool and the session of get_current_user that a turn keeps: when  *)
(* the pool is used up and everyone who has a connection waits for another,  *)
(* there are at least as many chat turns and digest runs as connections.     *)
(* Fewer of them never stop the server.                                      *)
Waiting(r) == Own(r) \in wanting \/ Node(r) \in wanting
Stuck == Cardinality(held) = PoolSize /\ \A s \in held : Waiting(s[1])
StarvedOnlyByTurns ==
  Stuck => Cardinality({r \in Request : Turning(r)}) >= PoolSize

(* auth.py:4, "creates the one and only user and returns 409 thereafter":    *)
(* true once there is a user and no registration is past the check.  Then    *)
(* none gets past it again, and no user is added.  Two first registrations   *)
(* that are both past it can both be stored.                                 *)
Closed == users # {} /\ \A r \in Request : ~At(r, "hash")
RegistrationCloses == [][Closed => Closed' /\ users' = users]_vars

(* persist_node commits both messages of a turn at once, and GET messages    *)
(* orders by created_at alone, the begin of that transaction.  A list has    *)
(* every turn of its conversation that was answered before it was asked for, *)
(* no question without its answer, and a question asked after an answer was  *)
(* seen comes after it.  (Which of the two messages of a turn comes first is *)
(* left to the database.)                                                    *)
HistoryIsCausal ==
  /\ due \subseteq {listing[i].turn : i \in DOMAIN listing}
  /\ \A i \in DOMAIN listing : \E j \in DOMAIN listing :
       listing[j].turn = listing[i].turn /\ listing[j].role # listing[i].role
  /\ \A i, j \in DOMAIN listing : listing[i].turn \in since[listing[j].turn] => i < j

(* Every request ends, also when turns have taken the whole pool: the pool's *)
(* timeout breaks the tie.                                                   *)
RequestsEnd == \A r \in Request : ~At(r, "idle") ~> At(r, "idle")

=============================================================================
