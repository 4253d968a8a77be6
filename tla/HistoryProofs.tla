---------------------------- MODULE HistoryProofs ----------------------------
(***************************************************************************)
(* That the history Server keeps of a conversation is in order, for every    *)
(* number of turns that run at the same time.                                *)
(***************************************************************************)
EXTENDS ServerProofs

Saved == {m.turn : m \in messages}
Unsaved == {"auth", "think", "node", "persist", "commit"}

(* The rows: a turn is stored with both its messages and in one conversation, *)
(* its time has passed, and what was answered before its question was stored  *)
(* earlier.                                                                  *)
RowsOK ==
  /\ \A m \in messages : /\ m.at <= clock /\ m.turn <= asked
                         /\ \E n \in messages : n.turn = m.turn /\ n.role # m.role /\ n.conv = m.conv
  /\ \A a \in answered : \E m \in messages : m.turn = a[1] /\ m.conv = a[2]
  /\ \A t \in Turn : since[t] \subseteq Saved
  /\ \A m, n \in messages : m.turn \in since[n.turn] => m.at < n.at

(* A turn that is under way is not stored, and its transaction began after    *)
(* everything was stored that it must follow.                                *)
JobHist(j) ==
  /\ j.kind = "chat" => j.turn <= asked
  /\ j.kind = "chat" /\ j.stage \in Unsaved => j.turn \notin Saved
  /\ j.stage = "commit" =>
       j.at <= clock /\ \A m \in messages : m.turn \in since[j.turn] => m.at < j.at
  /\ j.stage = "reply" => \E m \in messages : m.turn = j.turn /\ m.conv = ConvOf(j)
  /\ j.answers \subseteq answered

(* No turn is worked on twice.                                               *)
Distinct(j, k) == j.kind = "chat" /\ k.kind = "chat" => j.turn # k.turn

ListOK ==
  /\ HistoryIsCausal
  /\ \A i \in DOMAIN listing : listing[i].turn \in Saved

HInv ==
  /\ RowsOK /\ ListOK
  /\ \A r \in Request : JobHist(job[r])
  /\ \A r, q \in Request : r # q => Distinct(job[r], job[q])

LEMMA IdleHist == JobHist(Idle) /\ \A j : Distinct(Idle, j) /\ Distinct(j, Idle)
BY DEF Idle, JobHist, Distinct, Unsaved

LEMMA InitHInv == Init => HInv
<1> SUFFICES ASSUME Init PROVE HInv
  OBVIOUS
<1>1. messages = {} /\ listing = <<>> /\ due = {} /\ answered = {}
      /\ \A t \in Turn : since[t] = {}
  BY DEF Init, ConversationInit
<1>2. RowsOK
  BY <1>1 DEF RowsOK
<1>3. ListOK
  BY <1>1 DEF ListOK, HistoryIsCausal
<1>4. \A r \in Request : job[r] = Idle
  BY DEF Init
<1>5. QED
  BY <1>2, <1>3, <1>4, IdleHist DEF HInv

-----------------------------------------------------------------------------
(* Types the proofs below use.                                               *)
LEMMA HistoryTypes ==
  ASSUME IInv
  PROVE  /\ messages \subseteq Message /\ clock \in Nat /\ asked \in Nat
         /\ \A m \in messages : m.at \in Nat /\ m.turn \in Turn /\ m.turn \in Nat
         /\ Saved \subseteq Turn /\ Turn \subseteq Nat
         /\ answered \subseteq Turn \X Turn
         /\ since \in [Turn -> SUBSET Turn]
         /\ job \in [Request -> Job]
<1>1. ConversationTypeOK /\ job \in [Request -> Job] /\ Turn \subseteq Nat
  BY DEF IInv, TypeOK, Turn
<1>2. messages \subseteq Message /\ clock \in Nat /\ asked \in Nat
  BY <1>1, ServerAssumption DEF ConversationTypeOK
<1>3. \A m \in messages : m.at \in Nat /\ m.turn \in Turn /\ m.turn \in Nat
  BY <1>1, <1>2 DEF Message
<1>4. Saved \subseteq Turn
  BY <1>3 DEF Saved
<1>5. QED
  BY <1>1, <1>2, <1>3, <1>4 DEF ConversationTypeOK

(* A step of one handler that writes nothing about conversations.             *)
LEMMA QuietHist ==
  ASSUME IInv, HInv, UNCHANGED conversationVars, NEW r \in Request, NEW j,
         job' = [job EXCEPT ![r] = j], JobHist(j),
         \A q \in Request \ {r} : Distinct(j, job[q]) /\ Distinct(job[q], j)
  PROVE  HInv'
<1>1. \A q \in Request : job'[q] = IF q = r THEN j ELSE job[q]
  BY HistoryTypes
<1>2. RowsOK' /\ ListOK'
  BY DEF HInv, RowsOK, ListOK, HistoryIsCausal, conversationVars, Saved
<1>3. \A q \in Request : JobHist(job'[q])
  BY <1>1 DEF HInv
<1>4. (\A q \in Request : JobHist(job[q]))'
  BY <1>3 DEF JobHist, conversationVars, Saved
<1>5. (\A p, q \in Request : p # q => Distinct(job[p], job[q]))'
  BY <1>1 DEF HInv
<1>6. QED
  BY <1>2, <1>4, <1>5 DEF HInv

LEMMA FinishHist ==
  ASSUME IInv, HInv, UNCHANGED conversationVars, NEW r \in Request, Finish(r)
  PROVE  HInv'
BY QuietHist, IdleHist DEF Finish

(* A handler that goes on and neither begins nor stores a turn.               *)
LEMMA OnwardHist ==
  ASSUME IInv, HInv, UNCHANGED conversationVars, NEW r \in Request, NEW j,
         job' = [job EXCEPT ![r] = j],
         j.kind = job[r].kind, j.turn = job[r].turn, j.answers = job[r].answers,
         j.stage \notin {"commit", "reply"},
         j.stage \in Unsaved => job[r].stage \in Unsaved
  PROVE  HInv'
<1>1. JobHist(j)
  BY DEF HInv, JobHist
<1>2. \A q \in Request \ {r} : Distinct(j, job[q]) /\ Distinct(job[q], j)
  BY DEF HInv, Distinct
<1>3. QED
  BY <1>1, <1>2, QuietHist

(* A question arrives; nothing is stored under its number.                    *)
LEMMA ChatHist ==
  ASSUME IInv, HInv, NEW r \in Request, Chat(r)
  PROVE  HInv'
<1>1. PICK n \in tokens, c \in {0} \cup Convs :
        Receive(r, "chat", "auth",
                [Idle EXCEPT !.user = n, !.conv = c, !.turn = asked + 1, !.left = Nodes["chat"]])
  BY DEF Chat
<1> DEFINE i == [Idle EXCEPT !.user = n, !.conv = c, !.turn = asked + 1, !.left = Nodes["chat"]]
           j == [i EXCEPT !.kind = "chat", !.stage = "auth"]
<1>2. j.kind = "chat" /\ j.stage = "auth" /\ j.turn = asked + 1 /\ j.answers = {}
  BY DEF Idle
<1>3. job' = [job EXCEPT ![r] = j]
  BY <1>1 DEF Receive
<1> HIDE DEF i, j
<1>4. /\ messages' = messages /\ clock' = clock /\ asked' = asked + 1 /\ answered' = answered
      /\ since' = [since EXCEPT ![asked + 1] = {a[1] : a \in answered}]
      /\ listing' = listing /\ due' = due
  BY DEF Chat, Ask
<1>5. /\ \A t \in Turn : since'[t] = IF t = asked + 1 THEN {a[1] : a \in answered} ELSE since[t]
      /\ Saved' = Saved
      /\ asked + 1 \notin Saved
  BY <1>4, HistoryTypes DEF HInv, RowsOK, Saved
<1>6. \A t \in Saved : since'[t] = since[t]
  BY <1>5, HistoryTypes
<1>7. RowsOK'
  <2>1. \A m \in messages : m.turn <= asked + 1 /\ m.turn \in Saved
    BY HistoryTypes DEF HInv, RowsOK, Saved
  <2>2. {a[1] : a \in answered} \subseteq Saved
    BY DEF HInv, RowsOK, Saved
  <2>3. QED
    BY <1>4, <1>5, <1>6, <2>1, <2>2 DEF HInv, RowsOK
<1>8. ListOK'
  BY <1>4, <1>5, <1>6 DEF HInv, ListOK, HistoryIsCausal
<1>9. \A q \in Request : job'[q] = IF q = r THEN j ELSE job[q]
  BY <1>3, HistoryTypes
<1>10. ASSUME NEW q \in Request PROVE JobHist(job[q])'
  <2>1. CASE q = r
    BY <1>2, <1>4, <1>5, <1>9, <2>1, HistoryTypes DEF JobHist
  <2>2. CASE q # r
    <3>1. job'[q] = job[q] /\ JobHist(job[q]) /\ JobOK(job[q]) /\ job[q] \in Job
      BY <1>9, <2>2, JobFacts DEF HInv
    <3>2. job[q].kind = "chat" => job[q].turn \in Nat /\ job[q].turn <= asked
      BY <3>1, HistoryTypes DEF JobHist, JobOK
    <3>3. job[q].kind = "chat" => since'[job[q].turn] = since[job[q].turn]
      <4>1. ASSUME job[q].kind = "chat"
            PROVE  job[q].turn \in Turn /\ job[q].turn # asked + 1
        BY <3>1, <3>2, <4>1, HistoryTypes DEF JobOK
      <4>2. QED
        BY <1>5, <4>1
    <3>4. QED
      BY <1>4, <1>5, <3>1, <3>2, <3>3, HistoryTypes DEF JobHist, JobOK
  <2>3. QED
    BY <2>1, <2>2
<1>11. ASSUME NEW q \in Request \ {r} PROVE Distinct(j, job[q]) /\ Distinct(job[q], j)
  BY <1>2, JobFacts, HistoryTypes DEF HInv, JobHist, JobOK, Distinct
<1>12. (\A p, q \in Request : p # q => Distinct(job[p], job[q]))'
  BY <1>9, <1>11 DEF HInv
<1>13. QED
  BY <1>7, <1>8, <1>10, <1>12 DEF HInv

(* Any request arrives.                                                      *)
LEMMA ArriveHist ==
  ASSUME IInv, HInv, NEW r \in Request, Arrive(r)
  PROVE  HInv'
<1>1. PICK j \in Job, k \in Kind, s \in {"check", "lookup", "auth", "ping"} :
        /\ Receive(r, k, s, j)
        /\ j.answers \subseteq answered
        /\ IF k = "chat" THEN Chat(r) ELSE UNCHANGED conversationVars
  BY ArriveReceives
<1>2. CASE k # "chat"
  <2> DEFINE v == [j EXCEPT !.kind = k, !.stage = s]
  <2>1. v.kind = k /\ v.stage = s /\ v.answers = j.answers
    BY DEF Job
  <2>2. job' = [job EXCEPT ![r] = v]
    BY <1>1 DEF Receive
  <2> HIDE DEF v
  <2>3. JobHist(v) /\ \A q \in Request : Distinct(v, job[q]) /\ Distinct(job[q], v)
    BY <1>1, <1>2, <2>1 DEF JobHist, Distinct
  <2>4. QED
    BY <1>1, <1>2, <2>2, <2>3, QuietHist
<1>3. QED
  BY <1>1, <1>2, ChatHist

(* The transaction of persist_node begins: its time is later than every row.  *)
LEMMA ConnectHist ==
  ASSUME IInv, HInv, NEW r \in Request, Connect(r)
  PROVE  HInv'
<1>1. job[r] \in Job /\ JobOK(job[r]) /\ JobHist(job[r])
  BY JobFacts DEF HInv
<1>2. CASE At(r, "persist")
  <2> DEFINE j == [job[r] EXCEPT !.stage = "commit", !.at = clock + 1]
  <2>1. job' = [job EXCEPT ![r] = j] /\ BeginTurn
    BY <1>2 DEF Connect
  <2>2. /\ j.kind = job[r].kind /\ j.turn = job[r].turn /\ j.answers = job[r].answers
        /\ j.stage = "commit" /\ j.at = clock + 1
    BY <1>1 DEF Job
  <2> HIDE DEF j
  <2>3. /\ messages' = messages /\ clock' = clock + 1 /\ asked' = asked /\ answered' = answered
        /\ since' = since /\ listing' = listing /\ due' = due /\ Saved' = Saved
    BY <2>1 DEF BeginTurn, Saved
  <2>4. \A q \in Request : job'[q] = IF q = r THEN j ELSE job[q]
    BY <2>1, HistoryTypes
  <2>5. \A m \in messages : m.at <= clock + 1 /\ m.at < clock + 1
    BY HistoryTypes DEF HInv, RowsOK
  <2>6. RowsOK' /\ ListOK'
    BY <2>3, <2>5 DEF HInv, RowsOK, ListOK, HistoryIsCausal
  <2>7. ASSUME NEW q \in Request PROVE JobHist(job[q])'
    <3>1. CASE q = r
      BY <1>1, <1>2, <2>2, <2>3, <2>4, <2>5, <3>1, HistoryTypes DEF JobHist, At, Unsaved
    <3>2. CASE q # r
      <4>1. job'[q] = job[q] /\ JobHist(job[q]) /\ job[q].at \in Nat
        BY <2>4, <3>2, JobFacts DEF HInv, Job
      <4>2. QED
        BY <2>3, <4>1, HistoryTypes DEF JobHist
    <3>3. QED
      BY <3>1, <3>2
  <2>8. (\A p, q \in Request : p # q => Distinct(job[p], job[q]))'
    BY <2>2, <2>4 DEF HInv, Distinct
  <2>9. QED
    BY <2>6, <2>7, <2>8 DEF HInv
<1>3. CASE ~At(r, "persist")
  <2>1. job' = [job EXCEPT ![r] = job[r]] /\ UNCHANGED conversationVars
    BY <1>3, HistoryTypes DEF Connect
  <2>2. \A q \in Request \ {r} : Distinct(job[r], job[q]) /\ Distinct(job[q], job[r])
    BY DEF HInv
  <2>3. QED
    BY <1>1, <2>1, <2>2, QuietHist
<1>4. QED
  BY <1>2, <1>3

(* The commit of persist_node.  Its turn is new, so no answered question has   *)
(* waited for it, and its time is later than what it must follow.             *)
LEMMA CommitHist ==
  ASSUME IInv, HInv, NEW r \in Request, CommitTurn(r)
  PROVE  HInv'
<1> DEFINE o == job[r]
           j == [o EXCEPT !.stage = "reply"]
           Row(x) == [turn |-> o.turn, role |-> x, conv |-> ConvOf(o), at |-> o.at]
<1>1. /\ o \in Job /\ JobOK(o) /\ JobHist(o) /\ o.stage = "commit" /\ o.kind = "chat"
      /\ o.turn \in Turn /\ o.turn \notin Saved /\ o.at \in Nat
  BY JobFacts DEF HInv, CommitTurn, At, JobOK, JobHist, Unsaved, Job
<1>2. /\ j.kind = "chat" /\ j.turn = o.turn /\ j.answers = o.answers /\ j.stage = "reply"
      /\ ConvOf(j) = ConvOf(o)
  BY <1>1 DEF Job, ConvOf
<1>3. job' = [job EXCEPT ![r] = j]
  BY DEF CommitTurn, Goto
<1>4. /\ messages' = messages \cup {Row("user"), Row("agent")}
      /\ clock' = clock /\ asked' = asked /\ answered' = answered
      /\ since' = since /\ listing' = listing /\ due' = due
  BY DEF CommitTurn, SaveTurn, Roles
<1>5. \A x : /\ Row(x).turn = o.turn /\ Row(x).role = x /\ Row(x).conv = ConvOf(o)
             /\ Row(x).at = o.at
  OBVIOUS
<1> HIDE DEF o, j, Row
<1>6. Saved' = Saved \cup {o.turn}
  BY <1>4, <1>5 DEF Saved
<1>7. \A q \in Request : job'[q] = IF q = r THEN j ELSE job[q]
  BY <1>3, HistoryTypes
<1>8. o.at <= clock /\ o.turn <= asked
      /\ \A m \in messages : m.turn \in since[o.turn] => m.at < o.at
  BY <1>1 DEF JobHist
<1>9. \A t \in Turn : o.turn \notin since[t]
  BY <1>1 DEF HInv, RowsOK
<1>10. RowsOK'
  <2>1. ASSUME NEW m \in messages'
        PROVE  /\ m.at <= clock /\ m.turn <= asked
               /\ \E n \in messages' : n.turn = m.turn /\ n.role # m.role /\ n.conv = m.conv
    <3>1. CASE m \in messages
      BY <1>4, <3>1 DEF HInv, RowsOK
    <3>2. CASE m \in {Row("user"), Row("agent")}
      BY <1>4, <1>5, <1>8, <3>2
    <3>3. QED
      BY <1>4, <3>1, <3>2
  <2>2. ASSUME NEW m \in messages', NEW n \in messages', m.turn \in since[n.turn]
        PROVE  m.at < n.at
    <3>1. m \in messages \/ m.turn = o.turn
      BY <1>4, <1>5
    <3>2. n \in messages \/ (n.turn = o.turn /\ n.at = o.at)
      BY <1>4, <1>5
    <3>3. n.turn \in Turn
      BY <1>1, <3>2, HistoryTypes
    <3>4. m \in messages
      BY <1>9, <2>2, <3>1, <3>3
    <3>5. QED
      BY <1>8, <2>2, <3>2, <3>4 DEF HInv, RowsOK
  <2>3. \A a \in answered : \E m \in messages' : m.turn = a[1] /\ m.conv = a[2]
    BY <1>4 DEF HInv, RowsOK
  <2>4. \A t \in Turn : since[t] \subseteq Saved'
    BY <1>6 DEF HInv, RowsOK
  <2>5. QED
    BY <1>4, <2>1, <2>2, <2>3, <2>4 DEF RowsOK
<1>11. ListOK'
  BY <1>4, <1>6 DEF HInv, ListOK, HistoryIsCausal
<1>12. ASSUME NEW q \in Request PROVE JobHist(job[q])'
  <2>1. CASE q = r
    <3>1. Row("user") \in messages'
      BY <1>4
    <3>2. QED
      BY <1>1, <1>2, <1>4, <1>5, <1>7, <2>1, <3>1 DEF JobHist, Unsaved
  <2>2. CASE q # r
    <3>1. job'[q] = job[q] /\ JobHist(job[q]) /\ JobOK(job[q])
          /\ Distinct(o, job[q])
      BY <1>7, <2>2, JobFacts DEF HInv, o
    <3>2. job[q].kind = "chat" => job[q].turn # o.turn /\ job[q].turn \in Turn
      BY <1>1, <3>1 DEF Distinct, JobOK
    <3>3. job[q].stage = "commit" =>
            \A m \in messages' : m.turn \in since[job[q].turn] => m.at < job[q].at
      BY <1>4, <1>5, <1>9, <3>1, <3>2 DEF JobHist, JobOK
    <3>4. QED
      BY <1>4, <1>6, <3>1, <3>2, <3>3 DEF JobHist
  <2>3. QED
    BY <2>1, <2>2
<1>13. (\A p, q \in Request : p # q => Distinct(job[p], job[q]))'
  BY <1>1, <1>2, <1>7 DEF HInv, Distinct, o
<1>14. QED
  BY <1>10, <1>11, <1>12, <1>13 DEF HInv

LEMMA ReplyHist ==
  ASSUME IInv, HInv, NEW r \in Request, Reply(r)
  PROVE  HInv'
<1>1. CASE At(r, "reply") /\ Answer(job[r].turn, ConvOf(job[r]))
  <2> DEFINE a == <<job[r].turn, ConvOf(job[r])>>
  <2>1. /\ messages' = messages /\ clock' = clock /\ asked' = asked
        /\ answered' = answered \cup {a}
        /\ since' = since /\ listing' = listing /\ due' = due /\ Saved' = Saved
    BY <1>1 DEF Answer, Saved
  <2>2. \E m \in messages : m.turn = a[1] /\ m.conv = a[2]
    BY <1>1 DEF HInv, JobHist, At
  <2>3. RowsOK' /\ ListOK'
    BY <2>1, <2>2 DEF HInv, RowsOK, ListOK, HistoryIsCausal
  <2>4. \A q \in Request : job'[q] = IF q = r THEN Idle ELSE job[q]
    BY HistoryTypes DEF Reply, Finish
  <2>5. \A q \in Request : JobHist(job[q])'
    BY <2>1, <2>4, IdleHist DEF HInv, JobHist
  <2>6. (\A p, q \in Request : p # q => Distinct(job[p], job[q]))'
    BY <2>4, IdleHist DEF HInv
  <2>7. QED
    BY <2>3, <2>5, <2>6 DEF HInv
<1>2. CASE UNCHANGED conversationVars
  BY <1>2, FinishHist DEF Reply
<1>3. QED
  BY <1>1, <1>2 DEF Reply

(* The list is every row of the conversation in the order of their times.     *)
LEMMA ReadHist ==
  ASSUME IInv, HInv, NEW r \in Request, ReadMessages(r)
  PROVE  HInv'
<1> DEFINE S == {m \in messages : m.conv = job[r].conv}
<1>1. IsFiniteSet(S) /\ S \subseteq messages
  BY FS_Subset DEF IInv
<1>2. /\ listing' \in SetToSeqs(S) /\ InOrder(listing')
      /\ due' = {a[1] : a \in {b \in job[r].answers : b[2] = job[r].conv}}
      /\ messages' = messages /\ clock' = clock /\ asked' = asked
      /\ answered' = answered /\ since' = since /\ Saved' = Saved
  BY DEF ReadMessages, List, Saved
<1>3. /\ \A m \in S : \E i \in DOMAIN listing' : listing'[i] = m
      /\ \A i \in DOMAIN listing' : listing'[i] \in S /\ i \in Nat
  <2>1. listing' \in Seq(S)
    BY <1>1, <1>2, ListFacts
  <2>2. \A i \in DOMAIN listing' : listing'[i] \in S /\ i \in Nat
    BY <2>1
  <2>3. \A m \in S : \E i \in DOMAIN listing' : listing'[i] = m
    BY <1>1, <1>2, ListFacts
  <2>4. QED
    BY <2>2, <2>3
<1>4. due' \subseteq {listing'[i].turn : i \in DOMAIN listing'}
  <2> SUFFICES ASSUME NEW b \in job[r].answers, b[2] = job[r].conv
               PROVE  \E i \in DOMAIN listing' : listing'[i].turn = b[1]
    BY <1>2
  <2>1. b \in answered
    BY DEF HInv, JobHist
  <2>2. PICK m \in S : m.turn = b[1]
    BY <2>1 DEF HInv, RowsOK
  <2>3. QED
    BY <1>3, <2>2
<1>5. \A i \in DOMAIN listing' : \E k \in DOMAIN listing' :
        listing'[k].turn = listing'[i].turn /\ listing'[k].role # listing'[i].role
  <2> SUFFICES ASSUME NEW i \in DOMAIN listing'
               PROVE  \E k \in DOMAIN listing' :
                        listing'[k].turn = listing'[i].turn /\ listing'[k].role # listing'[i].role
    OBVIOUS
  <2>1. PICK n \in S : n.turn = listing'[i].turn /\ n.role # listing'[i].role
    BY <1>3 DEF HInv, RowsOK
  <2>2. QED
    BY <1>3, <2>1
<1>6. ASSUME NEW i \in DOMAIN listing', NEW k \in DOMAIN listing',
             listing'[i].turn \in since[listing'[k].turn]
      PROVE  i < k
  <2>1. listing'[i] \in messages /\ listing'[k] \in messages /\ i \in Nat /\ k \in Nat
    BY <1>1, <1>3
  <2>2. listing'[i].at < listing'[k].at
    BY <1>6, <2>1 DEF HInv, RowsOK
  <2>3. listing'[i].at \in Nat /\ listing'[k].at \in Nat
    BY <2>1, HistoryTypes
  <2>4. ~(k < i) /\ k # i
    BY <1>2, <2>2, <2>3 DEF InOrder
  <2>5. QED
    BY <2>1, <2>4
<1>7. ListOK'
  <2>1. \A i \in DOMAIN listing' : listing'[i].turn \in Saved
    BY <1>1, <1>3 DEF Saved
  <2>2. HistoryIsCausal'
    BY <1>2, <1>4, <1>5, <1>6 DEF HistoryIsCausal
  <2>3. QED
    BY <1>2, <2>1, <2>2 DEF ListOK
<1>8. RowsOK'
  BY <1>2 DEF HInv, RowsOK
<1>9. \A q \in Request : job'[q] = IF q = r THEN Idle ELSE job[q]
  BY HistoryTypes DEF ReadMessages, Finish
<1>10. \A q \in Request : JobHist(job[q])'
  BY <1>2, <1>9, IdleHist DEF HInv, JobHist
<1>11. (\A p, q \in Request : p # q => Distinct(job[p], job[q]))'
  BY <1>9, IdleHist DEF HInv
<1>12. QED
  BY <1>7, <1>8, <1>10, <1>11 DEF HInv

LEMMA CrashHist ==
  ASSUME HInv, UNCHANGED conversationVars,
         \/ UNCHANGED job
         \/ \A r \in Request : job'[r] = Idle
  PROVE  HInv'
<1>1. RowsOK' /\ ListOK'
  BY DEF HInv, RowsOK, ListOK, HistoryIsCausal, conversationVars, Saved
<1>2. \A r \in Request : job'[r] = job[r] \/ job'[r] = Idle
  OBVIOUS
<1>3. \A r \in Request : JobHist(job[r])'
  BY <1>2, IdleHist DEF HInv, JobHist, conversationVars, Saved
<1>4. (\A p, q \in Request : p # q => Distinct(job[p], job[q]))'
  BY IdleHist DEF HInv
<1>5. QED
  BY <1>1, <1>3, <1>4 DEF HInv

(* Steps of handlers that touch no conversation.                              *)
LEMMA HandleHist ==
  ASSUME IInv, HInv, NEW r \in Request, Handle(r)
  PROVE  HInv'
<1>1. job[r] \in Job /\ JobOK(job[r])
  BY JobFacts
<1>2. ASSUME NEW s \in Stage \ {"commit", "reply"}, Goto(r, s), UNCHANGED conversationVars,
             s \in Unsaved => job[r].stage \in Unsaved
      PROVE  HInv'
  <2> DEFINE j == [job[r] EXCEPT !.stage = s]
  <2>1. /\ j.kind = job[r].kind /\ j.turn = job[r].turn /\ j.answers = job[r].answers
        /\ j.stage = s
    BY <1>1 DEF Job
  <2>2. job' = [job EXCEPT ![r] = j]
    BY <1>2 DEF Goto
  <2> HIDE DEF j
  <2>3. QED
    BY <1>2, <2>1, <2>2, OnwardHist
<1>3. CASE RegisterCheck(r)
  BY <1>2, <1>3, FinishHist DEF RegisterCheck, Stage, Unsaved
<1>4. CASE RegisterCommit(r)
  BY <1>2, <1>4, FinishHist DEF RegisterCommit, Stage, Unsaved
<1>5. CASE RegisterReply(r) \/ LoginReply(r) \/ Ping(r)
  BY <1>5, FinishHist DEF RegisterReply, LoginReply, Ping
<1>6. CASE LoginLookup(r)
  BY <1>2, <1>6 DEF LoginLookup, Stage, Unsaved
<1>7. CASE Authenticate(r)
  BY <1>2, <1>7, FinishHist DEF Authenticate, Ready, At, Stage, Unsaved
<1>8. CASE OpenNode(r) \/ OpenPersist(r)
  BY <1>2, <1>8 DEF OpenNode, OpenPersist, At, Stage, Unsaved
<1>9. CASE CloseNode(r)
  <2> DEFINE j == [job[r] EXCEPT !.stage = "think", !.left = job[r].left - 1]
  <2>1. /\ j.kind = job[r].kind /\ j.turn = job[r].turn /\ j.answers = job[r].answers
        /\ j.stage = "think"
    BY <1>1 DEF Job
  <2>2. job' = [job EXCEPT ![r] = j]
    BY <1>9 DEF CloseNode
  <2> HIDE DEF j
  <2>3. QED
    BY <1>9, <2>1, <2>2, OnwardHist DEF CloseNode, At, Unsaved
<1>10. QED
  BY <1>3, <1>4, <1>5, <1>6, <1>7, <1>8, <1>9, ReadHist, CommitHist, ReplyHist DEF Handle

LEMMA NextHInv == IInv /\ HInv /\ [Next]_vars => HInv'
<1> SUFFICES ASSUME IInv, HInv, [Next]_vars PROVE HInv'
  OBVIOUS
<1>1. CASE Crash
  BY <1>1, CrashHist DEF Crash
<1>2. ASSUME NEW r \in Request, Fail(r) PROVE HInv'
  BY <1>2, FinishHist DEF Fail
<1>3. CASE UNCHANGED vars
  BY <1>3, CrashHist DEF vars
<1>4. QED
  BY <1>1, <1>2, <1>3, ArriveHist, ConnectHist, HandleHist DEF Next

(* However many turns of a conversation run at the same time and however they *)
(* end, a list of its messages has every answered turn, no question without   *)
(* its answer, and never a question before what its user had seen.            *)
THEOREM HistoryInOrder == Spec => []HistoryIsCausal
<1>1. HInv => HistoryIsCausal
  BY DEF HInv, ListOK
<1>2. QED
  BY <1>1, InitHInv, NextHInv, IInvAlways, PTL DEF Spec
=============================================================================
