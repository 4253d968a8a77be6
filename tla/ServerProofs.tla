---------------------------- MODULE ServerProofs ----------------------------
(***************************************************************************)
(* Theorems about Server for every number of requests at a time, every size  *)
(* of the pool, every number of nodes and of turns.                          *)
(***************************************************************************)
EXTENDS Server, FiniteSetTheorems, TLAPS

LEMMA SessionFacts ==
  /\ \A r \in Request : Own(r) \in Session /\ Node(r) \in Session
  /\ \A r, q \in Request : r # q => Own(r) # Own(q) /\ Node(r) # Node(q)
  /\ \A r, q \in Request : Own(r) # Node(q)
  /\ \A r \in Request : Own(r)[1] = r /\ Node(r)[1] = r
  /\ \A s \in Session : s[1] \in Request /\ (s = Own(s[1]) \/ s = Node(s[1]))
BY DEF Own, Node, Session

LEMMA IdleFacts ==
  /\ Idle \in Job /\ Idle.stage = "idle" /\ Idle.kind = "none" /\ Idle.answers = {}
BY ServerAssumption DEF Idle, Job, Stage, Kind

-----------------------------------------------------------------------------
(* The inductive invariant.                                                  *)

(* A handler by itself.                                                      *)
JobOK(j) ==
  /\ j.stage = "auth" => j.kind \in {"list", "chat", "digest"}
  /\ j.stage \in {"think", "node", "persist", "commit", "reply"} => j.kind \in {"chat", "digest"}
  /\ j.stage \in {"persist", "commit", "reply"} => j.kind = "chat"
  /\ j.stage = "node" => j.left > 0
  /\ j.kind = "chat" => j.turn \in Turn
  /\ j.stage \in {"check", "hash", "refresh", "lookup", "verify"} => j.user \in Name

(* A handler and its sessions.                                               *)
SessionsOK(r) ==
  /\ Own(r) \in wanting => job[r].stage \in {"check", "lookup", "auth", "ping", "refresh"}
  /\ At(r, "idle") => Own(r) \notin held /\ Own(r) \notin wanting
  /\ Node(r) \in held \/ Node(r) \in wanting =>
       Turning(r) /\ job[r].stage \in {"node", "persist", "commit"}
  /\ At(r, "commit") => Node(r) \notin wanting

PoolOK ==
  /\ IsFiniteSet(held) /\ Cardinality(held) <= PoolSize
  /\ held \cap wanting = {}

IInv ==
  /\ TypeOK
  /\ PoolOK
  /\ IsFiniteSet(messages)
  /\ \A r \in Request : JobOK(job[r]) /\ SessionsOK(r)

LEMMA InitIInv == Init => IInv
<1> SUFFICES ASSUME Init PROVE IInv
  OBVIOUS
<1>1. PoolTypeOK /\ AccountsTypeOK /\ ConversationTypeOK
  BY ServerAssumption DEF Init, PoolInit, AccountsInit, ConversationInit, PoolTypeOK,
     AccountsTypeOK, ConversationTypeOK
<1>2. TypeOK /\ \A r \in Request : job[r] = Idle
  BY <1>1, IdleFacts DEF Init, TypeOK
<1>3. PoolOK /\ IsFiniteSet(messages)
  BY FS_EmptySet, PoolAssumption DEF Init, PoolInit, PoolOK, ConversationInit
<1>4. \A r \in Request : JobOK(job[r]) /\ SessionsOK(r)
  BY <1>2, IdleFacts DEF JobOK, SessionsOK, At, Init, PoolInit
<1>5. QED
  BY <1>2, <1>3, <1>4 DEF IInv

-----------------------------------------------------------------------------
(* Steps.                                                                    *)

(* The sessions of the others stay as they are.                              *)
OthersKeep(r) ==
  \A q \in Request \ {r} :
    /\ Own(q) \in held' <=> Own(q) \in held
    /\ Node(q) \in held' <=> Node(q) \in held
    /\ Own(q) \in wanting' <=> Own(q) \in wanting
    /\ Node(q) \in wanting' <=> Node(q) \in wanting

(* A step of one handler keeps the invariant when that handler is in order    *)
(* afterwards.                                                               *)
LEMMA OneJob ==
  ASSUME IInv, NEW r \in Request, NEW j \in Job, job' = [job EXCEPT ![r] = j],
         JobOK(j), SessionsOK(r)', OthersKeep(r), PoolTypeOK', PoolOK',
         AccountsTypeOK', ConversationTypeOK', IsFiniteSet(messages)', received' \in Nat
  PROVE  IInv'
<1>1. job \in [Request -> Job]
  BY DEF IInv, TypeOK
<1>2. TypeOK'
  BY <1>1 DEF TypeOK
<1>3. \A q \in Request : job'[q] = IF q = r THEN j ELSE job[q]
  BY <1>1
<1>4. \A q \in Request : JobOK(job'[q])
  BY <1>3 DEF IInv
<1>5. ASSUME NEW q \in Request \ {r} PROVE SessionsOK(q)'
  BY <1>3, <1>5 DEF IInv, OthersKeep, SessionsOK, At, Turning
<1>6. QED
  BY <1>2, <1>4, <1>5 DEF IInv

(* What the operations of the pool do to the invariant's part about it.       *)
LEMMA PoolSteps ==
  ASSUME IInv, NEW r \in Request
  PROVE  /\ \A s \in {Own(r), Node(r)} :
              /\ Want(s) /\ s \notin held => PoolTypeOK' /\ PoolOK' /\ OthersKeep(r)
              /\ Checkout(s) => PoolTypeOK' /\ PoolOK' /\ OthersKeep(r)
              /\ Return(s) => PoolTypeOK' /\ PoolOK' /\ OthersKeep(r)
              /\ Requeue(s) => PoolTypeOK' /\ PoolOK' /\ OthersKeep(r)
         /\ Drop(r) => PoolTypeOK' /\ PoolOK' /\ OthersKeep(r)
         /\ UNCHANGED poolVars => PoolTypeOK' /\ PoolOK' /\ OthersKeep(r)
<1>1. PoolOK /\ PoolTypeOK /\ Cardinality(held) \in Nat /\ PoolSize \in Nat
  BY FS_CardinalityType, PoolAssumption DEF IInv, TypeOK, PoolOK
<1>2. ASSUME NEW H \in SUBSET held
      PROVE  IsFiniteSet(H) /\ Cardinality(H) <= PoolSize
  <2>1. IsFiniteSet(H) /\ Cardinality(H) <= Cardinality(held) /\ Cardinality(H) \in Nat
    BY <1>1, FS_Subset, FS_CardinalityType DEF PoolOK
  <2>2. QED
    BY <1>1, <2>1 DEF PoolOK
<1>3. ASSUME NEW s \in {Own(r), Node(r)}
      PROVE  /\ Want(s) /\ s \notin held => PoolTypeOK' /\ PoolOK' /\ OthersKeep(r)
             /\ Checkout(s) => PoolTypeOK' /\ PoolOK' /\ OthersKeep(r)
             /\ Return(s) => PoolTypeOK' /\ PoolOK' /\ OthersKeep(r)
             /\ Requeue(s) => PoolTypeOK' /\ PoolOK' /\ OthersKeep(r)
  <2>1. s \in Session /\ \A q \in Request \ {r} : s # Own(q) /\ s # Node(q)
    BY SessionFacts
  <2>2. Want(s) /\ s \notin held => PoolTypeOK' /\ PoolOK' /\ OthersKeep(r)
    BY <1>1, <2>1 DEF Want, PoolTypeOK, PoolOK, OthersKeep
  <2>3. ASSUME Checkout(s) PROVE PoolTypeOK' /\ PoolOK' /\ OthersKeep(r)
    <3>1. s \notin held
      BY <1>1, <2>3 DEF Checkout, PoolOK
    <3>2. IsFiniteSet(held') /\ Cardinality(held') = Cardinality(held) + 1
      BY <1>1, <2>3, <3>1, FS_AddElement DEF Checkout, PoolOK
    <3>3. Cardinality(held') <= PoolSize
      BY <1>1, <2>3, <3>2 DEF Checkout
    <3>4. QED
      BY <1>1, <2>1, <2>3, <3>2, <3>3 DEF Checkout, PoolTypeOK, PoolOK, OthersKeep
  <2>4. Return(s) => PoolTypeOK' /\ PoolOK' /\ OthersKeep(r)
    BY <1>1, <1>2, <2>1 DEF Return, PoolTypeOK, PoolOK, OthersKeep
  <2>5. Requeue(s) => PoolTypeOK' /\ PoolOK' /\ OthersKeep(r)
    BY <1>1, <1>2, <2>1 DEF Requeue, PoolTypeOK, PoolOK, OthersKeep
  <2>6. QED
    BY <2>2, <2>3, <2>4, <2>5
<1>4. Drop(r) => PoolTypeOK' /\ PoolOK' /\ OthersKeep(r)
  BY <1>1, <1>2, SessionFacts DEF Drop, PoolTypeOK, PoolOK, OthersKeep
<1>5. UNCHANGED poolVars => PoolTypeOK' /\ PoolOK' /\ OthersKeep(r)
  BY <1>1 DEF poolVars, PoolTypeOK, PoolOK, OthersKeep
<1>6. QED
  BY <1>3, <1>4, <1>5

(* Types of what a step leaves alone.                                        *)
LEMMA Rest ==
  ASSUME IInv
  PROVE  /\ UNCHANGED accountVars => AccountsTypeOK'
         /\ UNCHANGED conversationVars => ConversationTypeOK' /\ IsFiniteSet(messages)'
         /\ UNCHANGED messages => IsFiniteSet(messages)'
         /\ received \in Nat
         /\ AccountsTypeOK /\ ConversationTypeOK
BY DEF IInv, TypeOK, accountVars, conversationVars, AccountsTypeOK, ConversationTypeOK

LEMMA JobFacts ==
  ASSUME IInv, NEW r \in Request
  PROVE  job[r] \in Job /\ JobOK(job[r]) /\ SessionsOK(r)
BY DEF IInv, TypeOK

(* A request that ends.                                                      *)
LEMMA FinishStep ==
  ASSUME IInv, NEW r \in Request, Finish(r),
         AccountsTypeOK', ConversationTypeOK', IsFiniteSet(messages)', UNCHANGED received
  PROVE  IInv'
<1>1. job'[r] = Idle
  BY DEF Finish, IInv, TypeOK
<1>2. JobOK(Idle)
  BY IdleFacts DEF JobOK
<1>3. SessionsOK(r)'
  BY <1>1, IdleFacts DEF SessionsOK, At, Turning, Finish, Drop
<1>4. QED
  BY <1>2, <1>3, IdleFacts, PoolSteps, OneJob, Rest DEF Finish

(* A handler that goes on without the pool.                                  *)
LEMMA GotoStep ==
  ASSUME IInv, NEW r \in Request, NEW s \in Stage, Goto(r, s), UNCHANGED poolVars,
         UNCHANGED <<accountVars, conversationVars, received>>,
         \/ s \in {"hash", "verify"} /\ job[r].user \in Name
         \/ s = "dummy"
         \/ s \in {"read", "think"} /\ JobOK([job[r] EXCEPT !.stage = s]),
         ~At(r, "idle"), Node(r) \notin held, Node(r) \notin wanting, Own(r) \notin wanting
  PROVE  IInv'
<1> DEFINE j == [job[r] EXCEPT !.stage = s]
<1>1. job' = [job EXCEPT ![r] = j]
  BY DEF Goto
<1>2. j \in Job /\ j.stage = s /\ j.kind = job[r].kind /\ j.turn = job[r].turn
  BY JobFacts DEF Job
<1>3. JobOK(j)
  BY <1>2, JobFacts DEF JobOK
<1>4. job'[r] = j
  BY <1>1 DEF IInv, TypeOK
<1>5. SessionsOK(r)'
  BY <1>2, <1>4 DEF SessionsOK, At, poolVars
<1>6. QED
  BY <1>1, <1>2, <1>3, <1>5, PoolSteps, OneJob, Rest

(* A request arrives.                                                        *)
LEMMA ReceiveStep ==
  ASSUME IInv, NEW r \in Request, NEW j \in Job, NEW k \in Kind, NEW s \in Stage,
         Receive(r, k, s, j), ConversationTypeOK', IsFiniteSet(messages)',
         s \in {"check", "lookup", "auth", "ping"},
         s = "auth" => k \in {"list", "chat", "digest"},
         k = "chat" => j.turn \in Turn,
         s \in {"check", "lookup"} => j.user \in Name
  PROVE  IInv'
<1> DEFINE v == [j EXCEPT !.kind = k, !.stage = s]
<1>1. job' = [job EXCEPT ![r] = v] /\ At(r, "idle")
  BY DEF Receive, At
<1>2. v \in Job /\ v.stage = s /\ v.kind = k /\ v.turn = j.turn /\ v.user = j.user
  BY DEF Job
<1>3. JobOK(v)
  BY <1>2 DEF JobOK
<1>4. job'[r] = v
  BY <1>1 DEF IInv, TypeOK
<1>5. Own(r) \notin held /\ Node(r) \notin held /\ Node(r) \notin wanting
  BY <1>1, JobFacts DEF SessionsOK, At
<1>6. SessionsOK(r)'
  BY <1>2, <1>4, <1>5, SessionFacts DEF SessionsOK, At, Receive, Want
<1>7. received' \in Nat /\ AccountsTypeOK'
  BY Rest DEF Receive
<1>8. QED
  BY <1>1, <1>2, <1>3, <1>5, <1>6, <1>7, PoolSteps, OneJob DEF Receive

(* Every arrival is an instance of Receive.                                  *)
LEMMA ArriveReceives ==
  ASSUME IInv, NEW r \in Request, Arrive(r)
  PROVE  /\ ConversationTypeOK' /\ IsFiniteSet(messages)'
         /\ \E j \in Job, k \in Kind, s \in {"check", "lookup", "auth", "ping"} :
              /\ Receive(r, k, s, j)
              /\ s = "auth" => k \in {"list", "chat", "digest"}
              /\ k = "chat" => j.turn \in Turn
              /\ s \in {"check", "lookup"} => j.user \in Name
              /\ j.answers \subseteq answered
              /\ IF k = "chat" THEN Chat(r) ELSE UNCHANGED conversationVars
<1> USE DEF Kind
<1>1. /\ users \subseteq Name /\ tokens \subseteq Name /\ Convs \subseteq Turn
      /\ answered \in SUBSET (Turn \X Turn) /\ asked \in 0 .. MaxTurns
      /\ Turn \subseteq 0 .. MaxTurns /\ 0 \in 0 .. MaxTurns
  BY ServerAssumption DEF IInv, TypeOK, AccountsTypeOK, ConversationTypeOK, Convs, Message, Turn
<1>2. \A k \in {"chat", "digest"} : Nodes[k] \in Nat
  BY ServerAssumption
<1>3. CASE Register(r) \/ Login(r)
  <2>1. PICK n \in Name, k \in {"register", "login"}, s \in {"check", "lookup"} :
          Receive(r, k, s, [Idle EXCEPT !.user = n]) /\ UNCHANGED conversationVars
    BY <1>3 DEF Register, Login
  <2>2. /\ [Idle EXCEPT !.user = n] \in Job /\ [Idle EXCEPT !.user = n].user = n
        /\ [Idle EXCEPT !.user = n].answers = {}
    BY IdleFacts DEF Job
  <2>3. QED
    BY <2>1, <2>2, Rest
<1>4. CASE ListMessages(r)
  <2>1. PICK n \in tokens, c \in Convs :
          Receive(r, "list", "auth", [Idle EXCEPT !.user = n, !.conv = c, !.answers = answered])
    BY <1>4 DEF ListMessages
  <2> DEFINE j == [Idle EXCEPT !.user = n, !.conv = c, !.answers = answered]
  <2>2. j \in Job /\ j.answers = answered
    BY <1>1, IdleFacts DEF Job
  <2>3. QED
    BY <1>4, <2>1, <2>2, Rest DEF ListMessages
<1>5. CASE Chat(r)
  <2>1. asked + 1 \in Turn /\ asked + 1 \in 0 .. MaxTurns
    BY <1>1, <1>5, ServerAssumption DEF Chat, Ask, Turn
  <2>2. {a[1] : a \in answered} \subseteq Turn
    BY <1>1
  <2>3. since' \in [Turn -> SUBSET Turn] /\ asked' \in 0 .. MaxTurns
    BY <1>5, <2>1, <2>2, Rest DEF Chat, Ask, ConversationTypeOK
  <2>4. ConversationTypeOK' /\ IsFiniteSet(messages)'
    BY <1>5, <2>3, Rest DEF Chat, Ask, ConversationTypeOK
  <2>5. PICK n \in tokens, c \in {0} \cup Convs :
          Receive(r, "chat", "auth",
                  [Idle EXCEPT !.user = n, !.conv = c, !.turn = asked + 1, !.left = Nodes["chat"]])
    BY <1>5 DEF Chat
  <2> DEFINE j == [Idle EXCEPT !.user = n, !.conv = c, !.turn = asked + 1, !.left = Nodes["chat"]]
  <2>6. c \in 0 .. MaxTurns /\ n \in Name /\ Nodes["chat"] \in Nat
    BY <1>1, <1>2
  <2>7. j \in Job /\ j.turn = asked + 1 /\ j.answers = {}
    BY <2>1, <2>6, IdleFacts DEF Job
  <2>8. Receive(r, "chat", "auth", j)
    BY <2>5
  <2> HIDE DEF j
  <2>9. QED
    BY <1>5, <2>1, <2>4, <2>7, <2>8
<1>6. CASE RunDigest(r)
  <2>1. PICK n \in tokens :
          Receive(r, "digest", "auth", [Idle EXCEPT !.user = n, !.left = Nodes["digest"]])
    BY <1>6 DEF RunDigest
  <2> DEFINE j == [Idle EXCEPT !.user = n, !.left = Nodes["digest"]]
  <2>2. j \in Job /\ j.answers = {}
    BY <1>1, <1>2, IdleFacts DEF Job
  <2>3. QED
    BY <1>6, <2>1, <2>2, Rest DEF RunDigest
<1>7. CASE Health(r)
  BY <1>7, IdleFacts, Rest DEF Health
<1>8. QED
  BY <1>3, <1>4, <1>5, <1>6, <1>7 DEF Arrive

LEMMA ArriveStep ==
  ASSUME IInv, NEW r \in Request, Arrive(r)
  PROVE  IInv'
<1>1. {"check", "lookup", "auth", "ping"} \subseteq Stage
  BY DEF Stage
<1>2. QED
  BY <1>1, ArriveReceives, ReceiveStep

LEMMA ConnectStep ==
  ASSUME IInv, NEW r \in Request, Connect(r)
  PROVE  IInv'
<1>1. PICK s \in {Own(r), Node(r)} : Checkout(s)
  BY DEF Connect
<1>2. PoolTypeOK' /\ PoolOK' /\ OthersKeep(r)
  BY <1>1, PoolSteps
<1>3. CASE At(r, "persist")
  <2> DEFINE j == [job[r] EXCEPT !.stage = "commit", !.at = clock + 1]
  <2>1. job' = [job EXCEPT ![r] = j] /\ BeginTurn
    BY <1>3 DEF Connect
  <2>2. clock + 1 \in Nat
    BY Rest DEF ConversationTypeOK
  <2>3. j \in Job /\ j.stage = "commit" /\ j.kind = job[r].kind /\ j.turn = job[r].turn
    BY <2>2, JobFacts DEF Job, Stage
  <2>4. JobOK(j) /\ j.kind = "chat"
    BY <1>3, <2>3, JobFacts DEF JobOK, At
  <2>5. job'[r] = j
    BY <2>1 DEF IInv, TypeOK
  <2>6. s = Node(r)
    BY <1>1, <1>3, JobFacts DEF Checkout, SessionsOK, At
  <2>7. SessionsOK(r)'
    BY <1>1, <1>3, <2>3, <2>4, <2>5, <2>6, JobFacts, SessionFacts
    DEF SessionsOK, At, Turning, Checkout
  <2>8. ConversationTypeOK' /\ IsFiniteSet(messages)'
    BY <2>1, <2>2, Rest DEF BeginTurn, ConversationTypeOK
  <2>9. QED
    BY <1>2, <2>1, <2>3, <2>4, <2>7, <2>8, OneJob, Rest DEF Connect
<1>4. CASE ~At(r, "persist")
  <2>1. job' = [job EXCEPT ![r] = job[r]]
    BY <1>4 DEF Connect, IInv, TypeOK
  <2>2. SessionsOK(r)'
    BY <1>1, <1>4, JobFacts, SessionFacts DEF Connect, SessionsOK, At, Turning, Checkout
  <2>3. QED
    BY <1>2, <1>4, <2>1, <2>2, JobFacts, OneJob, Rest DEF Connect
<1>5. QED
  BY <1>3, <1>4

LEMMA RegisterSteps ==
  ASSUME IInv, NEW r \in Request, RegisterCheck(r) \/ RegisterCommit(r) \/ RegisterReply(r)
  PROVE  IInv'
<1>1. PoolOK /\ JobOK(job[r]) /\ SessionsOK(r) /\ job[r] \in Job
  BY JobFacts DEF IInv
<1>2. CASE RegisterCheck(r)
  <2>1. CASE RegistrationOpen
    <3>1. Own(r) \notin wanting /\ Node(r) \notin wanting /\ Node(r) \notin held
      BY <1>1, <1>2 DEF RegisterCheck, Ready, At, SessionsOK, PoolOK
    <3>2. QED
      BY <1>1, <1>2, <2>1, <3>1, GotoStep DEF RegisterCheck, Ready, At, Stage, JobOK
  <2>2. CASE ~RegistrationOpen
    BY <1>2, <2>2, FinishStep, Rest DEF RegisterCheck
  <2>3. QED
    BY <2>1, <2>2
<1>3. CASE RegisterCommit(r)
  <2>1. CASE CreateUser(job[r].user) /\ Requeue(Own(r)) /\ Goto(r, "refresh")
    <3> DEFINE j == [job[r] EXCEPT !.stage = "refresh"]
    <3>1. job' = [job EXCEPT ![r] = j]
      BY <2>1 DEF Goto
    <3>2. j \in Job /\ j.stage = "refresh" /\ j.kind = job[r].kind /\ j.turn = job[r].turn
          /\ j.user = job[r].user
      BY <1>1 DEF Job, Stage
    <3>3. JobOK(j) /\ job'[r] = j
      BY <1>1, <1>3, <3>1, <3>2 DEF RegisterCommit, Ready, At, JobOK, IInv, TypeOK
    <3>4. SessionsOK(r)'
      BY <1>1, <1>3, <2>1, <3>2, <3>3, SessionFacts
      DEF RegisterCommit, Ready, SessionsOK, At, Requeue
    <3>5. AccountsTypeOK'
      <4>1. job[r].user \in Name
        BY <1>1, <1>3 DEF RegisterCommit, Ready, At, JobOK
      <4>2. QED
        BY <2>1, <4>1, Rest DEF CreateUser, AccountsTypeOK
    <3>6. QED
      BY <1>3, <2>1, <3>1, <3>2, <3>3, <3>4, <3>5, PoolSteps, OneJob, Rest DEF RegisterCommit
  <2>2. CASE Finish(r) /\ UNCHANGED accountVars
    BY <1>3, <2>2, FinishStep, Rest DEF RegisterCommit
  <2>3. QED
    BY <1>3, <2>1, <2>2 DEF RegisterCommit
<1>4. CASE RegisterReply(r)
  <2>1. AccountsTypeOK'
    BY <1>1, <1>4, Rest DEF RegisterReply, Ready, At, JobOK, IssueToken, AccountsTypeOK
  <2>2. QED
    BY <1>4, <2>1, FinishStep, Rest DEF RegisterReply
<1>5. QED
  BY <1>2, <1>3, <1>4

LEMMA LoginSteps ==
  ASSUME IInv, NEW r \in Request, LoginLookup(r) \/ LoginReply(r)
  PROVE  IInv'
<1>1. PoolOK /\ JobOK(job[r]) /\ SessionsOK(r) /\ job[r] \in Job
  BY JobFacts DEF IInv
<1>2. CASE LoginLookup(r)
  <2>1. Own(r) \notin wanting /\ Node(r) \notin wanting /\ Node(r) \notin held
    BY <1>1, <1>2 DEF LoginLookup, Ready, At, SessionsOK, PoolOK
  <2>2. job[r].user \in Name /\ ~At(r, "idle")
    BY <1>1, <1>2 DEF LoginLookup, Ready, At, JobOK
  <2>3. CASE job[r].user \in users
    BY <1>2, <2>1, <2>2, <2>3, GotoStep DEF LoginLookup, Stage
  <2>4. CASE job[r].user \notin users
    BY <1>2, <2>1, <2>2, <2>4, GotoStep DEF LoginLookup, Stage
  <2>5. QED
    BY <2>3, <2>4
<1>3. CASE LoginReply(r)
  <2>1. AccountsTypeOK'
    BY <1>1, <1>3, Rest DEF LoginReply, At, JobOK, IssueToken, AccountsTypeOK
  <2>2. QED
    BY <1>3, <2>1, FinishStep, Rest DEF LoginReply
<1>4. QED
  BY <1>2, <1>3

(* A list holds every row once.                                              *)
LEMMA ListFacts ==
  ASSUME NEW S, IsFiniteSet(S), NEW rows \in SetToSeqs(S)
  PROVE  /\ \A T : S \subseteq T => rows \in Seq(T)
         /\ \A m : m \in S <=> \E i \in DOMAIN rows : rows[i] = m
<1> DEFINE n == Cardinality(S)
<1>1. n \in Nat /\ IsFiniteSet(1 .. n) /\ Cardinality(1 .. n) = n
  BY FS_CardinalityType, FS_Interval
<1>2. rows \in [1 .. n -> S] /\ \A i, j \in 1 .. n : i # j => rows[i] # rows[j]
  BY DEF SetToSeqs
<1>3. rows \in Injection(1 .. n, S)
  BY <1>2 DEF Injection, IsInjective
<1>4. rows \in Surjection(1 .. n, S)
  BY <1>1, <1>3, FS_Injection
<1>5. QED
  BY <1>1, <1>2, <1>4 DEF Surjection

LEMMA BearerSteps ==
  ASSUME IInv, NEW r \in Request, Authenticate(r) \/ ReadMessages(r) \/ Ping(r)
  PROVE  IInv'
<1>1. PoolOK /\ JobOK(job[r]) /\ SessionsOK(r) /\ job[r] \in Job
  BY JobFacts DEF IInv
<1>2. CASE Authenticate(r)
  <2>1. Own(r) \notin wanting /\ Node(r) \notin wanting /\ Node(r) \notin held
    BY <1>1, <1>2 DEF Authenticate, Ready, At, SessionsOK, PoolOK
  <2>2. CASE job[r].user \in users
    <3>1. PICK s \in {"read", "think"} :
            Goto(r, s) /\ (s = "read" <=> job[r].kind = "list")
      BY <1>2, <2>2 DEF Authenticate
    <3> DEFINE j == [job[r] EXCEPT !.stage = s]
    <3>2. j.stage = s /\ j.kind = job[r].kind /\ j.turn = job[r].turn /\ job[r].stage = "auth"
      BY <1>1, <1>2 DEF Job, Authenticate, Ready, At
    <3>3. JobOK(j)
      BY <1>1, <3>1, <3>2 DEF JobOK
    <3>4. QED
      BY <1>2, <2>1, <2>2, <3>1, <3>2, <3>3, GotoStep DEF Authenticate, Stage, At
  <2>3. CASE job[r].user \notin users
    BY <1>2, <2>3, FinishStep, Rest DEF Authenticate
  <2>4. QED
    BY <2>2, <2>3
<1>3. CASE ReadMessages(r)
  <2> DEFINE S == {m \in messages : m.conv = job[r].conv}
  <2>1. listing' \in SetToSeqs(S) /\ IsFiniteSet(S) /\ S \subseteq Message
    BY <1>3, FS_Subset DEF ReadMessages, List, IInv, TypeOK, ConversationTypeOK
  <2>2. listing' \in Seq(Message)
    BY <2>1, ListFacts
  <2>3. due' \subseteq Turn
    BY <1>1, <1>3 DEF ReadMessages, List, Job
  <2>4. ConversationTypeOK' /\ IsFiniteSet(messages)'
    BY <1>3, <2>2, <2>3, Rest DEF ReadMessages, List, ConversationTypeOK
  <2>5. QED
    BY <1>3, <2>4, FinishStep, Rest DEF ReadMessages
<1>4. CASE Ping(r)
  BY <1>4, FinishStep, Rest DEF Ping
<1>5. QED
  BY <1>2, <1>3, <1>4

(* A turn opens a session for its next node.                                 *)
LEMMA OpenSteps ==
  ASSUME IInv, NEW r \in Request, OpenNode(r) \/ OpenPersist(r)
  PROVE  IInv'
<1>1. JobOK(job[r]) /\ SessionsOK(r) /\ job[r] \in Job
  BY JobFacts
<1>2. PICK s \in {"node", "persist"} :
        /\ Goto(r, s) /\ Want(Node(r)) /\ At(r, "think")
        /\ s = "node" => job[r].left > 0
        /\ s = "persist" => job[r].kind = "chat"
        /\ UNCHANGED <<accountVars, conversationVars, received>>
  BY DEF OpenNode, OpenPersist
<1> DEFINE j == [job[r] EXCEPT !.stage = s]
<1>3. job' = [job EXCEPT ![r] = j]
  BY <1>2 DEF Goto
<1>4. /\ j \in Job /\ j.stage = s /\ j.kind = job[r].kind /\ j.turn = job[r].turn
      /\ j.left = job[r].left
  BY <1>1 DEF Job, Stage
<1>5. job'[r] = j
  BY <1>3 DEF IInv, TypeOK
<1>6. JobOK(j)
  BY <1>1, <1>2, <1>4 DEF JobOK, At
<1>7. Node(r) \notin held
  BY <1>1, <1>2 DEF SessionsOK, At
<1>8. SessionsOK(r)'
  BY <1>1, <1>2, <1>4, <1>5, <1>7, SessionFacts DEF SessionsOK, At, Turning, JobOK, Want
<1>9. QED
  BY <1>2, <1>3, <1>4, <1>6, <1>7, <1>8, PoolSteps, OneJob, Rest

LEMMA CloseNodeStep ==
  ASSUME IInv, NEW r \in Request, CloseNode(r)
  PROVE  IInv'
<1>1. JobOK(job[r]) /\ SessionsOK(r) /\ job[r] \in Job /\ PoolOK
  BY JobFacts DEF IInv
<1> DEFINE j == [job[r] EXCEPT !.stage = "think", !.left = job[r].left - 1]
<1>2. job' = [job EXCEPT ![r] = j]
  BY DEF CloseNode
<1>3. job[r].left - 1 \in Nat
  BY <1>1 DEF CloseNode, At, JobOK, Job
<1>4. j \in Job /\ j.stage = "think" /\ j.kind = job[r].kind /\ j.turn = job[r].turn
  BY <1>1, <1>3 DEF Job, Stage
<1>5. job'[r] = j
  BY <1>2 DEF IInv, TypeOK
<1>6. JobOK(j)
  BY <1>1, <1>4 DEF JobOK, CloseNode, At
<1>7. SessionsOK(r)'
  BY <1>1, <1>4, <1>5, SessionFacts DEF SessionsOK, PoolOK, At, CloseNode, Return
<1>8. QED
  BY <1>2, <1>4, <1>6, <1>7, PoolSteps, OneJob, Rest DEF CloseNode

LEMMA ConvFacts ==
  ASSUME NEW j \in Job, j.kind = "chat", JobOK(j)
  PROVE  ConvOf(j) \in Turn /\ j.turn \in Turn /\ j.at \in Nat
BY ServerAssumption DEF ConvOf, Job, JobOK, Turn

LEMMA CommitTurnStep ==
  ASSUME IInv, NEW r \in Request, CommitTurn(r)
  PROVE  IInv'
<1>1. JobOK(job[r]) /\ SessionsOK(r) /\ job[r] \in Job /\ job[r].kind = "chat"
  BY JobFacts DEF CommitTurn, At, JobOK
<1> DEFINE j == [job[r] EXCEPT !.stage = "reply"]
<1>2. job' = [job EXCEPT ![r] = j]
  BY DEF CommitTurn, Goto
<1>3. j \in Job /\ j.stage = "reply" /\ j.kind = job[r].kind /\ j.turn = job[r].turn
  BY <1>1 DEF Job, Stage
<1>4. job'[r] = j
  BY <1>2 DEF IInv, TypeOK
<1>5. JobOK(j)
  BY <1>1, <1>3 DEF JobOK
<1>6. SessionsOK(r)'
  BY <1>1, <1>3, <1>4, SessionFacts DEF SessionsOK, At, CommitTurn, Return
<1>7. ConversationTypeOK'
  <2>1. \A x \in Roles : [turn |-> job[r].turn, role |-> x, conv |-> ConvOf(job[r]),
                          at |-> job[r].at] \in Message
    BY <1>1, ConvFacts DEF Message, Roles
  <2>2. messages' \subseteq Message
    BY <2>1, Rest DEF CommitTurn, SaveTurn, ConversationTypeOK
  <2>3. QED
    BY <2>2, Rest DEF CommitTurn, SaveTurn, ConversationTypeOK
<1>8. IsFiniteSet(messages)'
  <2> DEFINE Row(x) == [turn |-> job[r].turn, role |-> x, conv |-> ConvOf(job[r]),
                        at |-> job[r].at]
  <2>1. messages' = (messages \cup {Row("user")}) \cup {Row("agent")}
    BY DEF CommitTurn, SaveTurn, Roles
  <2>2. QED
    BY <2>1, FS_AddElement DEF IInv
<1>9. QED
  BY <1>2, <1>3, <1>5, <1>6, <1>7, <1>8, PoolSteps, OneJob, Rest DEF CommitTurn

LEMMA ReplyStep ==
  ASSUME IInv, NEW r \in Request, Reply(r)
  PROVE  IInv'
<1>1. CASE At(r, "reply") /\ Answer(job[r].turn, ConvOf(job[r]))
  <2>1. ConvOf(job[r]) \in Turn /\ job[r].turn \in Turn
    BY <1>1, JobFacts, ConvFacts DEF JobOK, At
  <2>2. ConversationTypeOK' /\ IsFiniteSet(messages)'
    BY <1>1, <2>1, Rest DEF Answer, ConversationTypeOK
  <2>3. QED
    BY <2>2, FinishStep, Rest DEF Reply
<1>2. CASE UNCHANGED conversationVars
  BY <1>2, FinishStep, Rest DEF Reply
<1>3. QED
  BY <1>1, <1>2 DEF Reply

LEMMA CrashStep == IInv /\ Crash => IInv'
<1> SUFFICES ASSUME IInv, Crash PROVE IInv'
  OBVIOUS
<1>1. TypeOK'
  BY IdleFacts, Rest DEF Crash, TypeOK, PoolTypeOK
<1>2. PoolOK' /\ IsFiniteSet(messages)'
  BY FS_EmptySet, PoolAssumption, Rest DEF Crash, PoolOK
<1>3. \A r \in Request : JobOK(job[r])' /\ SessionsOK(r)'
  BY IdleFacts DEF Crash, JobOK, SessionsOK, At
<1>4. QED
  BY <1>1, <1>2, <1>3 DEF IInv

LEMMA NextIInv == IInv /\ [Next]_vars => IInv'
<1> SUFFICES ASSUME IInv, [Next]_vars PROVE IInv'
  OBVIOUS
<1>1. CASE Crash
  BY <1>1, CrashStep
<1>2. ASSUME NEW r \in Request, Arrive(r) PROVE IInv'
  BY <1>2, ArriveStep
<1>3. ASSUME NEW r \in Request, Connect(r) PROVE IInv'
  BY <1>3, ConnectStep
<1>4. ASSUME NEW r \in Request, Handle(r) PROVE IInv'
  BY <1>4, RegisterSteps, LoginSteps, BearerSteps, OpenSteps, CloseNodeStep, CommitTurnStep,
     ReplyStep DEF Handle
<1>5. ASSUME NEW r \in Request, Fail(r) PROVE IInv'
  BY <1>5, FinishStep, Rest DEF Fail
<1>6. CASE UNCHANGED vars
  BY <1>6 DEF vars, poolVars, accountVars, conversationVars, IInv, TypeOK, PoolTypeOK,
     AccountsTypeOK, ConversationTypeOK, PoolOK, SessionsOK, At, Turning
<1>7. QED
  BY <1>1, <1>2, <1>3, <1>4, <1>5, <1>6 DEF Next

LEMMA IInvAlways == Spec => []IInv
BY InitIInv, NextIInv, PTL DEF Spec

-----------------------------------------------------------------------------
(* Every variable of Server keeps its type.                                  *)
THEOREM TypeCorrect == Spec => []TypeOK
<1>1. IInv => TypeOK
  BY DEF IInv
<1>2. QED
  BY <1>1, IInvAlways, PTL

(* No path through any handler loses a connection or overdraws the pool, for  *)
(* every number of requests at a time and every size of the pool.            *)
THEOREM NoConnectionLost == Spec => []PoolAccounted
<1>1. ASSUME IInv PROVE PoolAccounted
  <2>1. Cardinality(held) <= PoolSize /\ held \cap wanting = {}
    BY <1>1 DEF IInv, PoolOK
  <2>2. ASSUME NEW r \in Request
        PROVE  /\ At(r, "idle") => {Own(r), Node(r)} \cap (held \cup wanting) = {}
               /\ Node(r) \in held \cup wanting =>
                    Turning(r) /\ job[r].stage \in {"node", "persist", "commit"}
    BY <1>1, JobFacts DEF SessionsOK, At
  <2>3. QED
    BY <2>1, <2>2 DEF PoolAccounted
<1>2. QED
  BY <1>1, IInvAlways, PTL

(* Everyone who has a connection and waits for another is a turn, and has one *)
(* of them only.                                                             *)
LEMMA StuckAreTurns == IInv => StarvedOnlyByTurns
<1> SUFFICES ASSUME IInv, Stuck
             PROVE  Cardinality({r \in Request : Turning(r)}) >= PoolSize
  BY DEF StarvedOnlyByTurns
<1> DEFINE T == {r \in Request : Turning(r)}
           f == [s \in held |-> s[1]]
<1>1. held \subseteq Session /\ PoolOK /\ IsFiniteSet(T)
  BY PoolAssumption, FS_Subset DEF IInv, TypeOK, PoolTypeOK
<1>2. ASSUME NEW s \in held
      PROVE  /\ s[1] \in T
             /\ Own(s[1]) \notin held \/ Node(s[1]) \notin held
             /\ s = Own(s[1]) \/ s = Node(s[1])
  <2>1. s[1] \in Request /\ (s = Own(s[1]) \/ s = Node(s[1])) /\ Waiting(s[1])
    BY <1>1, SessionFacts DEF Stuck
  <2>2. Own(s[1]) \notin held \/ Node(s[1]) \notin held
    BY <1>1, <2>1 DEF Waiting, PoolOK
  <2>3. Node(s[1]) \in held \/ Node(s[1]) \in wanting
    BY <1>1, <2>1 DEF Waiting, PoolOK
  <2>4. QED
    BY <2>1, <2>2, <2>3, JobFacts DEF SessionsOK
<1>3. f \in Injection(held, T)
  <2>1. f \in [held -> T]
    BY <1>2
  <2>2. ASSUME NEW a \in held, NEW b \in held, f[a] = f[b] PROVE a = b
    BY <1>2, <2>2
  <2>3. QED
    BY <2>1, <2>2 DEF Injection, IsInjective
<1>4. Cardinality(held) <= Cardinality(T) /\ Cardinality(T) \in Nat
  BY <1>1, <1>3, FS_Injection, FS_CardinalityType
<1>5. QED
  BY <1>4, PoolAssumption DEF Stuck

(* Fewer turns than connections never use up the pool waiting for each other, *)
(* for every size of the pool.                                               *)
THEOREM FewTurnsNeverStarve == Spec => []StarvedOnlyByTurns
BY StuckAreTurns, IInvAlways, PTL

(* Once there is a user and no first registration is under way, registration  *)
(* stays closed.                                                             *)
THEOREM RegistrationStaysClosed == Spec => RegistrationCloses
<1>1. IInv /\ [Next]_vars => [Closed => Closed' /\ users' = users]_vars
  <2> SUFFICES ASSUME IInv, Next, Closed PROVE Closed' /\ users' = users
    OBVIOUS
  <2> USE DEF Closed, At
  <2>1. job \in [Request -> Job] /\ users # {} /\ \A q \in Request : job[q].stage # "hash"
    BY DEF IInv, TypeOK
  <2>2. ASSUME users' = users, NEW r \in Request, NEW j, j.stage # "hash",
               job' = [job EXCEPT ![r] = j]
        PROVE  Closed' /\ users' = users
    BY <2>1, <2>2
  <2>3. ASSUME NEW r \in Request, NEW s, s # "hash", Goto(r, s), users' = users
        PROVE  Closed' /\ users' = users
    <3>1. job[r] \in Job
      BY JobFacts
    <3>2. [job[r] EXCEPT !.stage = s].stage = s
      BY <3>1 DEF Job
    <3>3. QED
      BY <2>2, <2>3, <3>2 DEF Goto
  <2>4. ASSUME NEW r \in Request, Finish(r), users' = users
        PROVE  Closed' /\ users' = users
    BY <2>2, <2>4, IdleFacts DEF Finish
  <2>5. CASE Crash
    BY <2>1, <2>5, IdleFacts DEF Crash, accountVars
  <2>6. ASSUME NEW r \in Request, Arrive(r) PROVE Closed' /\ users' = users
    <3>1. PICK j \in Job, k \in Kind, s \in {"check", "lookup", "auth", "ping"} : Receive(r, k, s, j)
      BY <2>6, ArriveReceives
    <3>2. [j EXCEPT !.kind = k, !.stage = s].stage = s
      BY DEF Job
    <3>3. QED
      BY <2>2, <3>1, <3>2 DEF Receive, accountVars
  <2>7. ASSUME NEW r \in Request, Connect(r) PROVE Closed' /\ users' = users
    <3>1. CASE At(r, "persist")
      <4>1. [job[r] EXCEPT !.stage = "commit", !.at = clock + 1].stage = "commit"
        BY JobFacts DEF Job
      <4>2. job' = [job EXCEPT ![r] = [job[r] EXCEPT !.stage = "commit", !.at = clock + 1]]
        BY <2>7, <3>1 DEF Connect
      <4>3. users' = users
        BY <2>7 DEF Connect, accountVars
      <4>4. QED
        BY <2>2, <4>1, <4>2, <4>3
    <3>2. CASE ~At(r, "persist")
      BY <2>1, <2>7, <3>2 DEF Connect, accountVars
    <3>3. QED
      BY <3>1, <3>2
  <2>8. ASSUME NEW r \in Request, Handle(r) PROVE Closed' /\ users' = users
    <3> USE <2>8 DEF accountVars
    <3>1. CASE RegisterCheck(r)
      BY <2>1, <2>4, <3>1 DEF RegisterCheck, RegistrationOpen
    <3>2. CASE RegisterCommit(r)
      BY <2>1, <3>2 DEF RegisterCommit, Ready
    <3>3. CASE RegisterReply(r) \/ LoginReply(r) \/ ReadMessages(r) \/ Ping(r) \/ Reply(r)
      BY <2>4, <3>3 DEF RegisterReply, LoginReply, ReadMessages, Ping, Reply, IssueToken
    <3>4. CASE LoginLookup(r)
      BY <2>3, <3>4 DEF LoginLookup
    <3>5. CASE Authenticate(r)
      BY <2>3, <2>4, <3>5 DEF Authenticate
    <3>6. CASE OpenNode(r) \/ OpenPersist(r) \/ CommitTurn(r)
      BY <2>3, <3>6 DEF OpenNode, OpenPersist, CommitTurn
    <3>7. CASE CloseNode(r)
      <4>1. [job[r] EXCEPT !.stage = "think", !.left = job[r].left - 1].stage = "think"
        BY JobFacts DEF Job
      <4>2. QED
        BY <2>2, <3>7, <4>1 DEF CloseNode
    <3>8. QED
      BY <3>1, <3>2, <3>3, <3>4, <3>5, <3>6, <3>7 DEF Handle
  <2>9. ASSUME NEW r \in Request, Fail(r) PROVE Closed' /\ users' = users
    BY <2>4, <2>9 DEF Fail, accountVars
  <2>10. QED
    BY <2>5, <2>6, <2>7, <2>8, <2>9 DEF Next
<1>2. QED
  BY <1>1, IInvAlways, PTL DEF Spec, RegistrationCloses
=============================================================================
