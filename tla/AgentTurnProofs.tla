-------------------------- MODULE AgentTurnProofs --------------------------
(***************************************************************************)
(* Theorems about AgentTurn for every set of specialists.                    *)
(***************************************************************************)
EXTENDS AgentTurn, FiniteSetTheorems, TLAPS

-----------------------------------------------------------------------------
(* What a node can return, and what happens when it does.                    *)

(* An update writes only the channels of its node.                           *)
Lawful(u) ==
  /\ u \in Update
  /\ u.from # "analyzer" => u.routes = {}
  /\ u.from \notin Author => DOMAIN u.props = {}
  /\ u.from # "coach" => DOMAIN u.props \subseteq {u.from}
  /\ "alert" \in DOMAIN u.props => u.from = "alert"
  /\ u.answer.given <=> u.from = "synthesizer"

(* The history follows the update.                                           *)
Noted(u) ==
  /\ raised' = raised \cup
       (IF u.from # "coach" /\ u.from \in DOMAIN u.props /\ u.props[u.from]
        THEN {u.from} ELSE {})
  /\ coached' = IF u.from = "coach" THEN DOMAIN u.props ELSE coached
  /\ u.from = "synthesizer" /\ (\E a \in DOMAIN proposals : proposals[a]) =>
       u.answer.disclaimer
  /\ IF u.from = "persist"
     THEN stored' = [tokens |-> tokens, decision |-> answer.decision, done |-> TRUE]
          /\ u.tokens = 0
     ELSE stored' = stored

Returned(u) == Lawful(u) /\ Noted(u) /\ Return(u)

LEMMA NodeFacts ==
  /\ Fixed \subseteq Node /\ Specialist \subseteq Node
  /\ \A n \in Specialist : n \notin Fixed /\ n \in Author
  /\ "coach" \in Author /\ "alert" \in Author
  /\ \A n \in {"retrieval", "analyzer", "tracker", "synthesizer", "persist"} : n \notin Author
  /\ Tax \in Specialist
BY SpecialistAssumption DEF Node, Fixed, Author

LEMMA EmptyProposals == <<>> \in Proposals /\ DOMAIN <<>> = {}
<1>1. <<>> \in [{} -> BOOLEAN] /\ DOMAIN <<>> = {}
  OBVIOUS
<1>2. QED
  BY <1>1 DEF Proposals

(* The proposal of a node.                                                   *)
LEMMA OwnProposal ==
  ASSUME NEW n \in Author, NEW f \in BOOLEAN
  PROVE  LET p == [a \in {n} |-> f] IN p \in Proposals /\ DOMAIN p = {n} /\ p[n] = f
<1> DEFINE p == [a \in {n} |-> f]
<1>1. p \in [{n} -> BOOLEAN] /\ DOMAIN p = {n} /\ p[n] = f
  OBVIOUS
<1> HIDE DEF p
<1>2. p \in Proposals
  BY <1>1 DEF Proposals
<1>3. QED
  BY <1>1, <1>2 DEF p

LEMMA BlankFacts ==
  ASSUME NEW n \in Node
  PROVE  /\ NoUpdate(n) \in Update /\ Billed(n) \in Update
         /\ NoUpdate(n).from = n /\ NoUpdate(n).routes = {} /\ NoUpdate(n).props = <<>>
         /\ NoUpdate(n).tokens = 0 /\ ~NoUpdate(n).answer.given
         /\ Billed(n).from = n /\ Billed(n).routes = {} /\ Billed(n).props = <<>>
         /\ Billed(n).tokens = 1 /\ ~Billed(n).answer.given
<1>1. NoAnswer \in Answer /\ ~NoAnswer.given
  BY DEF NoAnswer, Answer
<1>2. NoUpdate(n) \in Update
  BY <1>1, EmptyProposals DEF NoUpdate, Update, Pace
<1>3. /\ NoUpdate(n).from = n /\ NoUpdate(n).routes = {} /\ NoUpdate(n).props = <<>>
      /\ NoUpdate(n).tokens = 0 /\ NoUpdate(n).answer = NoAnswer
  BY DEF NoUpdate
<1>4. Billed(n) \in Update
  BY <1>2 DEF Billed, Update
<1>5. /\ Billed(n).from = NoUpdate(n).from /\ Billed(n).routes = NoUpdate(n).routes
      /\ Billed(n).props = NoUpdate(n).props /\ Billed(n).answer = NoUpdate(n).answer
      /\ Billed(n).tokens = 1
  BY <1>2 DEF Billed, Update
<1>6. QED
  BY <1>1, <1>2, <1>3, <1>4, <1>5

(* What a node returns is an update of that node's channels only.             *)
LEMMA RetrievalReturns ==
  ASSUME TypeOK, Retrieval PROVE \E u \in Update : u.from = "retrieval" /\ Returned(u)
<1> DEFINE u == NoUpdate("retrieval")
<1>1. /\ u \in Update /\ u.from = "retrieval" /\ u.routes = {} /\ u.props = <<>>
      /\ ~u.answer.given
  BY BlankFacts, NodeFacts DEF Fixed
<1>2. Return(u)
  BY DEF Retrieval
<1> HIDE DEF u
<1>3. Lawful(u) /\ Noted(u)
  BY <1>1, EmptyProposals, NodeFacts DEF Lawful, Noted, Retrieval
<1>4. QED
  BY <1>1, <1>2, <1>3 DEF Returned

LEMMA AnalyzerReturns ==
  ASSUME TypeOK, Analyzer PROVE \E u \in Update : u.from = "analyzer" /\ Returned(u)
<1>1. PICK selected \in SUBSET Specialist :
        Return([Billed("analyzer") EXCEPT !.routes = selected])
  BY DEF Analyzer
<1> DEFINE b == Billed("analyzer")
           u == [b EXCEPT !.routes = selected]
<1>2. /\ b \in Update /\ b.from = "analyzer" /\ b.props = <<>> /\ ~b.answer.given
  BY BlankFacts, NodeFacts DEF Fixed
<1>3. u \in Update /\ u.from = "analyzer" /\ u.props = <<>> /\ ~u.answer.given
  BY <1>2 DEF Update
<1>4. Return(u)
  BY <1>1
<1> HIDE DEF u
<1>5. Lawful(u) /\ Noted(u)
  BY <1>3, EmptyProposals, NodeFacts DEF Lawful, Noted, Analyzer
<1>6. QED
  BY <1>3, <1>4, <1>5 DEF Returned

LEMMA NoProposalReturns ==
  ASSUME TypeOK, NEW n \in Specialist, NoProposal(n)
  PROVE  \E u \in Update : u.from = n /\ Returned(u)
<1> DEFINE u == Billed(n)
<1>1. /\ u \in Update /\ u.from = n /\ u.routes = {} /\ u.props = <<>> /\ ~u.answer.given
  BY BlankFacts, NodeFacts
<1>2. Return(u)
  BY DEF NoProposal
<1>3. n \notin Fixed
  BY NodeFacts
<1> HIDE DEF u
<1>4. Lawful(u) /\ Noted(u)
  BY <1>1, <1>3, EmptyProposals, NodeFacts DEF Lawful, Noted, NoProposal, Fixed
<1>5. QED
  BY <1>1, <1>2, <1>4 DEF Returned

LEMMA ProposeReturns ==
  ASSUME TypeOK, NEW n \in Specialist, NEW said \in BOOLEAN, Propose(n, said)
  PROVE  \E u \in Update : u.from = n /\ Returned(u)
<1> DEFINE flag == n = Tax \/ said
           b == Billed(n)
           p == [a \in {n} |-> flag]
           u == [b EXCEPT !.props = p]
<1>1. p \in Proposals /\ DOMAIN p = {n} /\ (p[n] <=> flag)
  <2>1. flag \in BOOLEAN /\ n \in Author
    BY NodeFacts
  <2> HIDE DEF flag
  <2>2. QED
    BY <2>1, OwnProposal
<1>2. b \in Update /\ b.from = n /\ b.routes = {} /\ ~b.answer.given
  BY BlankFacts, NodeFacts
<1>3. Return(u) /\ raised' = (IF flag THEN raised \cup {n} ELSE raised)
      /\ UNCHANGED <<stored, coached>>
  BY DEF Propose
<1> HIDE DEF b, p, flag
<1>4. u \in Update /\ u.from = n /\ u.routes = {} /\ u.props = p /\ ~u.answer.given
  BY <1>1, <1>2 DEF Update
<1>5. n \notin Fixed
  BY NodeFacts
<1> HIDE DEF u
<1>6. Lawful(u)
  BY <1>1, <1>4, <1>5, NodeFacts DEF Lawful, Fixed
<1>7. Noted(u)
  BY <1>1, <1>3, <1>4, <1>5 DEF Noted, Fixed
<1>8. QED
  BY <1>3, <1>4, <1>6, <1>7 DEF Returned

LEMMA CoachReturns ==
  ASSUME TypeOK, Coach PROVE \E u \in Update : u.from = "coach" /\ Returned(u)
<1>1. PICK said \in Proposals :
        /\ "alert" \notin DOMAIN said
        /\ Return([Billed("coach") EXCEPT !.props = said]) /\ coached' = DOMAIN said
        /\ UNCHANGED <<stored, raised>>
  BY DEF Coach
<1> DEFINE b == Billed("coach")
           u == [b EXCEPT !.props = said]
<1>2. b \in Update /\ b.from = "coach" /\ b.routes = {} /\ ~b.answer.given
  BY BlankFacts, NodeFacts DEF Fixed
<1>3. u \in Update /\ u.from = "coach" /\ u.routes = {} /\ u.props = said /\ ~u.answer.given
  BY <1>2 DEF Update
<1>4. Return(u)
  BY <1>1
<1> HIDE DEF u
<1>5. Lawful(u) /\ Noted(u)
  BY <1>1, <1>3, NodeFacts DEF Lawful, Noted
<1>6. QED
  BY <1>3, <1>4, <1>5 DEF Returned

LEMMA TrackerReturns ==
  ASSUME TypeOK, Tracker PROVE \E u \in Update : u.from = "tracker" /\ Returned(u)
<1>1. PICK p \in Pace : Return([NoUpdate("tracker") EXCEPT !.pace = p])
  BY DEF Tracker
<1> DEFINE b == NoUpdate("tracker")
           u == [b EXCEPT !.pace = p]
<1>2. b \in Update /\ b.from = "tracker" /\ b.routes = {} /\ b.props = <<>> /\ ~b.answer.given
  BY BlankFacts, NodeFacts DEF Fixed
<1>3. u \in Update /\ u.from = "tracker" /\ u.routes = {} /\ u.props = <<>> /\ ~u.answer.given
  BY <1>2 DEF Update
<1>4. Return(u)
  BY <1>1
<1> HIDE DEF u
<1>5. Lawful(u) /\ Noted(u)
  BY <1>3, EmptyProposals, NodeFacts DEF Lawful, Noted, Tracker
<1>6. QED
  BY <1>3, <1>4, <1>5 DEF Returned

LEMMA AlertReturns ==
  ASSUME TypeOK, Alert PROVE \E u \in Update : u.from = "alert" /\ Returned(u)
<1>1. PICK due \in SUBSET {Alerts[i] : i \in DOMAIN Alerts} :
        /\ Return([NoUpdate("alert") EXCEPT !.props =
             IF due = {} THEN <<>> ELSE [a \in {"alert"} |-> LastAlert(due) \in TaxAlerts]])
        /\ raised' = IF due # {} /\ LastAlert(due) \in TaxAlerts
                     THEN raised \cup {"alert"} ELSE raised
        /\ UNCHANGED <<stored, coached>>
  BY DEF Alert
<1> DEFINE flag == LastAlert(due) \in TaxAlerts
           p == IF due = {} THEN <<>> ELSE [a \in {"alert"} |-> flag]
           b == NoUpdate("alert")
           u == [b EXCEPT !.props = p]
<1>2. /\ p \in Proposals /\ DOMAIN p \subseteq {"alert"}
      /\ "alert" \in DOMAIN p /\ p["alert"] <=> due # {} /\ flag
  <2>1. [a \in {"alert"} |-> flag] \in Proposals
        /\ DOMAIN [a \in {"alert"} |-> flag] = {"alert"}
        /\ ([a \in {"alert"} |-> flag]["alert"] <=> flag)
    <3>1. flag \in BOOLEAN /\ "alert" \in Author
      BY NodeFacts
    <3> HIDE DEF flag
    <3>2. QED
      BY <3>1, OwnProposal
  <2>2. QED
    BY <2>1, EmptyProposals
<1>3. b \in Update /\ b.from = "alert" /\ b.routes = {} /\ ~b.answer.given
  BY BlankFacts, NodeFacts DEF Fixed
<1>4. Return(u) /\ raised' = (IF due # {} /\ flag THEN raised \cup {"alert"} ELSE raised)
      /\ UNCHANGED <<stored, coached>>
  BY <1>1
<1> HIDE DEF b, p, flag
<1>5. u \in Update /\ u.from = "alert" /\ u.routes = {} /\ u.props = p /\ ~u.answer.given
  BY <1>2, <1>3 DEF Update
<1> HIDE DEF u
<1>6. Lawful(u)
  BY <1>2, <1>5, NodeFacts DEF Lawful
<1>7. Noted(u)
  BY <1>2, <1>4, <1>5 DEF Noted
<1>8. QED
  BY <1>4, <1>5, <1>6, <1>7 DEF Returned

LEMMA SynthesizerReturns ==
  ASSUME TypeOK, Synthesizer PROVE \E u \in Update : u.from = "synthesizer" /\ Returned(u)
<1>1. PICK said \in BOOLEAN, sensitive \in BOOLEAN, decision \in BOOLEAN :
        Return([Billed("synthesizer") EXCEPT !.answer =
          [given |-> TRUE, disclaimer |-> NeedsDisclaimer(said, sensitive),
           decision |-> decision]])
  BY DEF Synthesizer
<1> DEFINE flag == NeedsDisclaimer(said, sensitive)
           ans == [given |-> TRUE, disclaimer |-> flag, decision |-> decision]
           b == Billed("synthesizer")
           u == [b EXCEPT !.answer = ans]
<1>2. flag \in BOOLEAN /\ ((\E a \in DOMAIN proposals : proposals[a]) => flag)
  BY DEF NeedsDisclaimer
<1>3. b \in Update /\ b.from = "synthesizer" /\ b.routes = {} /\ b.props = <<>>
  BY BlankFacts, NodeFacts DEF Fixed
<1>4. Return(u)
  BY <1>1
<1> HIDE DEF b, flag
<1>5. ans \in Answer /\ ans.given /\ (ans.disclaimer <=> flag)
  BY <1>2 DEF Answer
<1>6. u \in Update /\ u.from = "synthesizer" /\ u.routes = {} /\ u.props = <<>> /\ u.answer = ans
  BY <1>3, <1>5 DEF Update
<1> HIDE DEF u, ans
<1>7. Lawful(u) /\ Noted(u)
  BY <1>2, <1>5, <1>6, EmptyProposals, NodeFacts DEF Lawful, Noted, Synthesizer
<1>8. QED
  BY <1>4, <1>6, <1>7 DEF Returned

LEMMA PersistReturns ==
  ASSUME TypeOK, Persist PROVE \E u \in Update : u.from = "persist" /\ Returned(u)
<1> DEFINE u == NoUpdate("persist")
<1>1. /\ u \in Update /\ u.from = "persist" /\ u.routes = {} /\ u.props = <<>>
      /\ u.tokens = 0 /\ ~u.answer.given
  BY BlankFacts, NodeFacts DEF Fixed
<1>2. Return(u)
  BY DEF Persist
<1> HIDE DEF u
<1>3. Lawful(u) /\ Noted(u)
  BY <1>1, EmptyProposals, NodeFacts DEF Lawful, Noted, Persist
<1>4. QED
  BY <1>1, <1>2, <1>3 DEF Returned

(* Every node that does not raise returns such an update.                     *)
LEMMA RunReturns ==
  ASSUME TypeOK, NEW n \in Node, Run(n)
  PROVE  Fail(n) \/ PersistUnconfirmed \/ \E u \in Update : u.from = n /\ Returned(u)
BY RetrievalReturns, AnalyzerReturns, NoProposalReturns, ProposeReturns, CoachReturns,
   TrackerReturns, AlertReturns, SynthesizerReturns, PersistReturns DEF Run

-----------------------------------------------------------------------------
(* The inductive invariant.                                                  *)

(* The order in which nodes are scheduled.                                   *)
Rank(n) ==
  CASE n = "retrieval" -> 1 [] n = "analyzer" -> 2 [] n \in Specialist -> 3
    [] n = "coach" -> 4 [] n = "tracker" -> 5 [] n = "alert" -> 6
    [] n = "synthesizer" -> 7 [] OTHER -> 8

(* The nodes of this superstep, returned or not.                              *)
Scheduled == running \cup {u.from : u \in updates}

(* A superstep is one fixed node or some specialists; each returns once, and   *)
(* after all those that it follows.                                          *)
Shape ==
  /\ Scheduled \subseteq Specialist \/ \E n \in Fixed : Scheduled = {n}
  /\ \A u, v \in updates : u.from = v.from => u = v
  /\ \A u \in updates : Lawful(u) /\ u.from \in returned
  /\ running \cap returned = {}
  /\ \A m \in returned, n \in Scheduled : Rank(m) <= Rank(n)
  /\ IsFiniteSet(updates)
  /\ status # "running" => running = {} /\ updates = {}

(* The specialists scheduled are the ones that were chosen.                   *)
Choice ==
  /\ "retrieval" \in Scheduled \/ "analyzer" \in Scheduled => routes = {}
  /\ Scheduled \cap Specialist # {} => Scheduled = routes
  /\ Scheduled \cap {"coach", "tracker", "alert", "synthesizer", "persist"} # {} =>
       routes \subseteq returned
  /\ CoachHearsAll

(* The calls are those in the channel and those of the superstep.             *)
Spending ==
  /\ status # "failed" => calls = tokens + Cardinality({u \in updates : u.tokens = 1})
  /\ stored.done => /\ running = {} /\ (\A u \in updates : u.from = "persist")
                    /\ stored.tokens = calls

(* A flag the coach did not speak about is still where the synthesizer, and    *)
(* after it the answer, has it.                                              *)
Kept(a) ==
  \/ \E u \in updates : u.from = a /\ a \in DOMAIN u.props /\ u.props[a]
  \/ /\ a \in DOMAIN proposals /\ proposals[a]
     /\ \A u \in updates : a \notin DOMAIN u.props

Flags ==
  /\ raised \subseteq returned
  /\ "coach" \notin returned => coached = {}
  /\ status = "running" => \A a \in raised \ coached : Kept(a)
  /\ ~(raised \subseteq coached) =>
       /\ \A u \in updates : u.from = "synthesizer" => u.answer.disclaimer
       /\ "persist" \in Scheduled \/ status = "answered" => answer.disclaimer

IInv == TypeOK /\ Shape /\ Choice /\ Spending /\ Flags

LEMMA InitIInv == Init => IInv
<1> SUFFICES ASSUME Init PROVE IInv
  OBVIOUS
<1>1. Scheduled = {"retrieval"} /\ "retrieval" \notin Specialist
  BY SpecialistAssumption DEF Init, Scheduled, Fixed
<1>2. TypeOK
  <2>1. NoAnswer \in Answer /\ NotStored \in [tokens : Nat, decision : BOOLEAN, done : BOOLEAN]
    BY DEF NoAnswer, Answer, NotStored
  <2>2. QED
    BY <2>1, EmptyProposals, NodeFacts DEF Init, TypeOK, Pace, Fixed
<1>3. Shape
  BY <1>1, FS_EmptySet DEF Init, Shape, Fixed
<1>4. Choice
  BY <1>1 DEF Init, Choice, CoachHearsAll
<1>5. Spending
  BY FS_EmptySet DEF Init, Spending, NotStored
<1>6. Flags
  BY <1>1 DEF Init, Flags
<1>7. QED
  BY <1>2, <1>3, <1>4, <1>5, <1>6 DEF IInv

-----------------------------------------------------------------------------
(* Steps inside a superstep.                                                 *)

LEMMA RankFacts ==
  /\ Rank("retrieval") = 1 /\ Rank("analyzer") = 2 /\ Rank("coach") = 4 /\ Rank("tracker") = 5
  /\ Rank("alert") = 6 /\ Rank("synthesizer") = 7 /\ Rank("persist") = 8
  /\ \A n \in Specialist : Rank(n) = 3
  /\ \A n \in Node : Rank(n) \in Nat
BY SpecialistAssumption DEF Rank, Fixed, Node

(* A superstep has one rank.                                                 *)
LEMMA OneRank ==
  ASSUME IInv, NEW m \in Scheduled, NEW n \in Scheduled
  PROVE  Rank(m) = Rank(n)
BY RankFacts DEF IInv, Shape

LEMMA StoredType ==
  ASSUME TypeOK
  PROVE  [tokens |-> tokens, decision |-> answer.decision, done |-> TRUE]
           \in [tokens : Nat, decision : BOOLEAN, done : BOOLEAN]
<1> DEFINE d == answer.decision
<1>1. tokens \in Nat /\ d \in BOOLEAN
  BY DEF TypeOK, Answer
<1> HIDE DEF d
<1>2. [tokens |-> tokens, decision |-> d, done |-> TRUE]
        \in [tokens : Nat, decision : BOOLEAN, done : BOOLEAN]
  BY <1>1
<1>3. QED
  BY <1>2 DEF d

LEMMA ReturnTypes ==
  ASSUME TypeOK, NEW u \in Update, Returned(u)
  PROVE  TypeOK'
<1>1. DOMAIN u.props \subseteq Author /\ u.tokens \in Nat /\ u.from \in Node
  BY DEF Update, Proposals
<1>2. stored' \in [tokens : Nat, decision : BOOLEAN, done : BOOLEAN]
  BY StoredType DEF Returned, Noted, TypeOK
<1>3. raised' \in SUBSET Author /\ coached' \in SUBSET Author
  BY <1>1 DEF Returned, Noted, TypeOK
<1>4. running' \in SUBSET Node /\ updates' \in SUBSET Update /\ calls' \in Nat
      /\ returned' \in SUBSET Node
  BY <1>1 DEF Returned, Return, TypeOK
<1>5. UNCHANGED <<routes, proposals, tokens, pace, answer, conv, status>>
  BY DEF Returned, Return, channels
<1>6. QED
  BY <1>2, <1>3, <1>4, <1>5 DEF TypeOK

LEMMA ReturnStep ==
  ASSUME IInv, NEW u \in Update, Returned(u)
  PROVE  IInv'
<1> DEFINE n == u.from
<1>1. /\ status = "running" /\ n \in running /\ n \notin returned
      /\ running' = running \ {n} /\ updates' = updates \cup {u}
      /\ returned' = returned \cup {n} /\ calls' = calls + u.tokens
      /\ UNCHANGED <<routes, proposals, tokens, pace, answer, conv, status>>
  BY DEF Returned, Return, IInv, Shape, channels
<1>2. Lawful(u) /\ Noted(u)
  BY DEF Returned
<1>3. Scheduled' = Scheduled /\ n \in Scheduled
  BY <1>1 DEF Scheduled
<1>4. \A v \in updates : v.from \in returned /\ v.from # n
  BY <1>1 DEF IInv, Shape
<1> HIDE DEF n
<1>5. Shape'
  <2>1. \A m \in returned', k \in Scheduled' : Rank(m) <= Rank(k)
    BY <1>1, <1>3, OneRank, RankFacts DEF IInv, Shape, TypeOK
  <2>2. IsFiniteSet(updates')
    BY <1>1, FS_AddElement DEF IInv, Shape
  <2>3. \A v, w \in updates' : v.from = w.from => v = w
    BY <1>1, <1>4 DEF IInv, Shape, n
  <2>4. \A v \in updates' : Lawful(v) /\ v.from \in returned'
    BY <1>1, <1>2 DEF IInv, Shape, n
  <2>5. running' \cap returned' = {}
    BY <1>1 DEF IInv, Shape
  <2>6. QED
    BY <1>1, <1>3, <2>1, <2>2, <2>3, <2>4, <2>5 DEF IInv, Shape
<1>6. Choice'
  <2>1. CASE n = "coach"
    BY <1>1, <1>3, <2>1 DEF IInv, Choice, CoachHearsAll
  <2>2. CASE n # "coach"
    BY <1>1, <1>3, <2>2 DEF IInv, Choice, CoachHearsAll
  <2>3. QED
    BY <2>1, <2>2
<1>7. ~stored.done
  BY <1>1 DEF IInv, Spending
<1>8. Spending'
  <2> DEFINE B == {v \in updates : v.tokens = 1}
             C == {v \in updates' : v.tokens = 1}
  <2>1. IsFiniteSet(B) /\ Cardinality(B) \in Nat /\ u \notin B
    BY <1>4, FS_Subset, FS_CardinalityType DEF IInv, Shape, n
  <2>2. C = IF u.tokens = 1 THEN B \cup {u} ELSE B
    BY <1>1
  <2> HIDE DEF B, C
  <2>3. Cardinality(C) = Cardinality(B) + u.tokens
    <3>1. CASE u.tokens = 1
      <4>1. C = B \cup {u}
        BY <2>2, <3>1
      <4>2. QED
        BY <2>1, <3>1, <4>1, FS_AddElement
    <3>2. CASE u.tokens = 0
      BY <2>1, <2>2, <3>2
    <3>3. QED
      BY <3>1, <3>2 DEF Update
  <2>4. calls' = tokens' + Cardinality({v \in updates' : v.tokens = 1})
    <3>1. calls = tokens + Cardinality(B) /\ calls \in Nat /\ tokens \in Nat
      BY <1>1 DEF IInv, Spending, TypeOK, B
    <3>2. calls' = tokens' + Cardinality(C)
      BY <1>1, <2>1, <2>3, <3>1 DEF Update
    <3>3. QED
      BY <3>2 DEF C
  <2>5. CASE n = "persist"
    <3>1. Scheduled = {"persist"}
      BY <1>3, <2>5, SpecialistAssumption DEF IInv, Shape, Fixed
    <3>2. updates = {} /\ running = {"persist"}
      BY <1>1, <1>4, <2>5, <3>1 DEF Scheduled
    <3>3. calls = tokens
      BY <1>1, <3>2, FS_EmptySet DEF IInv, Spending, TypeOK
    <3>4. stored'.tokens = tokens /\ u.tokens = 0
      BY <1>2, <2>5 DEF Noted, n
    <3>5. QED
      BY <1>1, <2>4, <2>5, <3>2, <3>3, <3>4 DEF Spending, IInv, TypeOK, n
  <2>6. CASE n # "persist"
    BY <1>1, <1>2, <1>7, <2>4, <2>6 DEF Noted, Spending, n
  <2>7. QED
    BY <2>5, <2>6
<1>9. Flags'
  <2>1. raised' \subseteq returned'
    BY <1>1, <1>2 DEF IInv, Flags, Noted, n
  <2>2. "coach" \notin returned' => coached' = {}
    BY <1>1, <1>2 DEF IInv, Flags, Noted, n
  <2>3. ASSUME NEW a \in raised' \ coached' PROVE Kept(a)'
    <3>1. CASE a = n
      <4>1. n # "coach" => n \in DOMAIN u.props /\ u.props[n]
        BY <1>1, <1>2, <2>3, <3>1 DEF IInv, Flags, Noted, n
      <4>2. n # "coach"
        BY <1>1, <1>2, <2>3, <3>1 DEF IInv, Flags, Noted, n
      <4>3. QED
        BY <1>1, <3>1, <4>1, <4>2 DEF Kept, n
    <3>2. CASE a # n
      <4>1. a \in raised \ coached
        BY <1>1, <1>2, <2>3, <3>2 DEF IInv, Flags, Noted, n
      <4>2. a \notin DOMAIN u.props
        BY <1>2, <2>3, <3>2 DEF Lawful, Noted, n
      <4>3. Kept(a)
        BY <1>1, <4>1 DEF IInv, Flags
      <4>4. QED
        BY <1>1, <4>2, <4>3 DEF Kept
    <3>3. QED
      BY <3>1, <3>2
  <2>4. ASSUME ~(raised' \subseteq coached')
        PROVE  /\ \A v \in updates' : v.from = "synthesizer" => v.answer.disclaimer
               /\ "persist" \in Scheduled' \/ status' = "answered" => answer'.disclaimer
    <3>1. CASE "synthesizer" \in Scheduled \/ "persist" \in Scheduled
      <4>1. Scheduled = {n} /\ n \in {"synthesizer", "persist"}
        BY <1>3, <3>1, SpecialistAssumption DEF IInv, Shape, Fixed
      <4>2. raised' = raised /\ coached' = coached
        BY <1>2, <4>1, NodeFacts DEF Noted, Lawful, n
      <4>3. updates = {}
        BY <1>4, <4>1 DEF Scheduled
      <4>4. PICK a \in raised \ coached : a \in DOMAIN proposals /\ proposals[a]
        BY <1>1, <2>4, <4>2, <4>3 DEF IInv, Flags, Kept
      <4>5. n = "synthesizer" => u.answer.disclaimer
        BY <1>2, <4>4 DEF Noted, n
      <4>6. QED
        BY <1>1, <1>3, <2>4, <4>2, <4>3, <4>5 DEF IInv, Flags, n
    <3>2. CASE "synthesizer" \notin Scheduled /\ "persist" \notin Scheduled
      BY <1>1, <1>3, <3>2 DEF Scheduled, n
    <3>3. QED
      BY <3>1, <3>2
  <2>5. QED
    BY <2>1, <2>2, <2>3, <2>4 DEF Flags
<1>10. TypeOK'
  BY ReturnTypes DEF IInv
<1>11. QED
  BY <1>5, <1>6, <1>8, <1>9, <1>10 DEF IInv

(* A turn that fails keeps what it has stored.                                *)
LEMMA FailStep ==
  ASSUME IInv, status = "running", status' = "failed", running' = {}, updates' = {},
         UNCHANGED <<channels, conv, calls, returned, raised, coached>>,
         \/ stored' = stored
         \/ /\ "persist" \in running
            /\ stored' = [tokens |-> tokens, decision |-> answer.decision, done |-> TRUE]
  PROVE  IInv'
<1>1. /\ UNCHANGED <<routes, proposals, tokens, pace, answer>>
      /\ Scheduled' = {}
  BY DEF channels, Scheduled
<1>2. TypeOK'
  BY <1>1, StoredType DEF IInv, TypeOK
<1>3. Shape'
  BY <1>1, FS_EmptySet DEF Shape
<1>4. Choice'
  BY <1>1 DEF IInv, Choice, CoachHearsAll
<1>5. Spending'
  <2>1. CASE stored' = stored
    BY <2>1 DEF IInv, Spending
  <2>2. CASE "persist" \in running
    <3>1. Scheduled = {"persist"}
      BY <2>2, SpecialistAssumption DEF IInv, Shape, Fixed, Scheduled
    <3>2. updates = {}
      BY <2>2, <3>1 DEF IInv, Shape, Scheduled
    <3>3. calls = tokens
      BY <3>2, FS_EmptySet DEF IInv, Spending, TypeOK
    <3>4. QED
      BY <3>3 DEF IInv, Spending
  <2>3. QED
    BY <2>1, <2>2
<1>6. Flags'
  BY <1>1 DEF IInv, Flags
<1>7. QED
  BY <1>2, <1>3, <1>4, <1>5, <1>6 DEF IInv

-----------------------------------------------------------------------------
(* The end of a superstep.                                                   *)

(* What merge_proposals does: it keeps what nobody wrote, and takes what one   *)
(* node wrote.                                                               *)
LEMMA MergedFacts ==
  ASSUME IInv
  PROVE  /\ Merged \in Proposals
         /\ \A a \in DOMAIN proposals :
              (\A u \in updates : a \notin DOMAIN u.props) =>
                a \in DOMAIN Merged /\ (proposals[a] => Merged[a])
         /\ \A u \in updates : \A a \in DOMAIN u.props :
              (\A v \in updates : a \in DOMAIN v.props => v = u) =>
                a \in DOMAIN Merged /\ (u.props[a] => Merged[a])
<1> DEFINE New(a) == {u \in updates : a \in DOMAIN u.props}
           D == DOMAIN proposals \cup UNION {DOMAIN u.props : u \in updates}
           val(a) == IF New(a) # {} THEN (CHOOSE u \in New(a) : TRUE).props[a] ELSE proposals[a]
<1>1. Merged = [a \in D |-> val(a)]
  BY DEF Merged
<1>2. proposals \in Proposals /\ \A u \in updates : u.props \in Proposals
  BY DEF IInv, TypeOK, Update
<1>3. \A p \in Proposals : DOMAIN p \subseteq Author /\ \A a \in DOMAIN p : p[a] \in BOOLEAN
  BY DEF Proposals
<1>4. D \subseteq Author
  BY <1>2, <1>3
<1>5. ASSUME NEW a \in D PROVE val(a) \in BOOLEAN
  <2>1. CASE New(a) # {}
    <3> DEFINE w == CHOOSE u \in New(a) : TRUE
    <3>1. w \in New(a)
      BY <2>1
    <3> HIDE DEF w
    <3>2. w.props[a] \in BOOLEAN
      BY <1>2, <1>3, <3>1
    <3>3. QED
      BY <2>1, <3>2 DEF w
  <2>2. CASE New(a) = {}
    <3>1. a \in DOMAIN proposals
      BY <2>2
    <3>2. QED
      BY <1>2, <1>3, <2>2, <3>1
  <2>3. QED
    BY <2>1, <2>2
<1>6. ASSUME NEW a \in DOMAIN proposals, \A u \in updates : a \notin DOMAIN u.props
      PROVE  a \in DOMAIN Merged /\ (proposals[a] => Merged[a])
  <2>1. New(a) = {} /\ a \in D
    BY <1>6
  <2>2. QED
    BY <1>1, <2>1
<1>7. ASSUME NEW u \in updates, NEW a \in DOMAIN u.props,
             \A v \in updates : a \in DOMAIN v.props => v = u
      PROVE  a \in DOMAIN Merged /\ (u.props[a] => Merged[a])
  <2>1. New(a) = {u} /\ a \in D
    BY <1>7
  <2>2. (CHOOSE w \in {u} : TRUE) = u
    OBVIOUS
  <2>3. val(a) = u.props[a]
    BY <2>1, <2>2
  <2>4. QED
    BY <1>1, <2>1, <2>3
<1> HIDE DEF D, val
<1>8. Merged \in Proposals
  <2>1. Merged \in [D -> BOOLEAN]
    BY <1>1, <1>5
  <2>2. QED
    BY <1>4, <2>1 DEF Proposals
<1>9. QED
  BY <1>6, <1>7, <1>8

(* The nodes that returned were one fixed node, or all the chosen specialists. *)
LEMMA Returners ==
  ASSUME IInv, AllReturned
  PROVE  \/ \E u \in updates : updates = {u} /\ u.from \in Fixed /\ Scheduled = {u.from}
         \/ /\ \A u \in updates : u.from \in Specialist
            /\ Scheduled = {u.from : u \in updates} /\ Scheduled = routes
<1>1. Scheduled = {u.from : u \in updates} /\ updates # {}
  BY DEF AllReturned, Scheduled
<1>2. CASE Scheduled \subseteq Specialist
  BY <1>1, <1>2 DEF IInv, Choice
<1>3. ASSUME NEW n \in Fixed, Scheduled = {n}
      PROVE  \E u \in updates : updates = {u} /\ u.from \in Fixed /\ Scheduled = {u.from}
  <2>1. PICK u \in updates : TRUE
    BY <1>1
  <2>2. \A v \in updates : v.from = n
    BY <1>1, <1>3
  <2>3. updates = {u} /\ u.from = n
    BY <2>1, <2>2 DEF IInv, Shape
  <2>4. QED
    BY <1>3, <2>1, <2>3
<1>4. QED
  BY <1>2, <1>3 DEF IInv, Shape

LEMMA AfterTypes ==
  ASSUME IInv, NEW u \in updates
  PROVE  After(u) \subseteq Node
BY NodeFacts DEF IInv, TypeOK, Update, Node, Fixed, After, Route

LEMMA BarrierTypes ==
  ASSUME IInv, Barrier
  PROVE  TypeOK'
<1>1. running' \in SUBSET Node /\ updates' \in SUBSET Update
  BY AfterTypes DEF IInv, TypeOK, Barrier
<1>2. routes' \in SUBSET Specialist
  BY DEF IInv, TypeOK, Barrier, Update
<1>3. proposals' \in Proposals
  BY MergedFacts DEF Barrier
<1>4. tokens' \in Nat
  <2>1. Cardinality({u \in updates : u.tokens = 1}) \in Nat
    BY FS_Subset, FS_CardinalityType DEF IInv, Shape
  <2>2. QED
    BY <2>1 DEF Barrier, SumTokens, IInv, TypeOK
<1>5. pace' \in Pace
  BY DEF Barrier, IInv, TypeOK, Update
<1>6. answer' \in Answer
  <2>1. \A u \in updates : u.answer \in Answer
    BY DEF IInv, TypeOK, Update
  <2>2. QED
    BY <2>1 DEF Barrier, IInv, TypeOK
<1>7. status' \in {"running", "answered", "failed"}
  BY DEF Barrier
<1>8. QED
  BY <1>1, <1>2, <1>3, <1>4, <1>5, <1>6, <1>7 DEF Barrier, IInv, TypeOK

(* What the reducers and the history make of the superstep, whichever it was.  *)
LEMMA BarrierSpending ==
  ASSUME IInv, Barrier,
         stored.done => running' = {}
  PROVE  Spending'
<1> DEFINE C == Cardinality({u \in updates : u.tokens = 1})
<1>1. C \in Nat /\ tokens' = tokens + C /\ calls' = calls /\ tokens \in Nat /\ updates' = {}
  BY FS_Subset, FS_CardinalityType DEF Barrier, SumTokens, IInv, Shape, TypeOK
<1>2. calls = tokens + C
  BY DEF Barrier, IInv, Spending
<1>3. Cardinality({u \in updates' : u.tokens = 1}) = 0
  <2>1. {u \in updates' : u.tokens = 1} = {}
    BY <1>1
  <2>2. QED
    BY <2>1, FS_EmptySet
<1> HIDE DEF C
<1>4. calls' = tokens' + 0
  BY <1>1, <1>2
<1>5. QED
  BY <1>1, <1>3, <1>4 DEF Spending, IInv, Barrier

(* No flag is lost in the reducer.                                           *)
LEMMA BarrierKeeps ==
  ASSUME IInv, Barrier, NEW a \in raised \ coached
  PROVE  Kept(a)'
<1>1. Kept(a) /\ updates' = {} /\ proposals' = Merged
  BY DEF IInv, Flags, Barrier
<1>2. CASE a \in DOMAIN proposals /\ proposals[a]
           /\ \A u \in updates : a \notin DOMAIN u.props
  BY <1>1, <1>2, MergedFacts DEF Kept
<1>3. ASSUME NEW u \in updates, u.from = a, a \in DOMAIN u.props, u.props[a]
      PROVE  Kept(a)'
  <2>1. \A v \in updates : a \in DOMAIN v.props => v = u
    <3> SUFFICES ASSUME NEW v \in updates, a \in DOMAIN v.props PROVE v = u
      OBVIOUS
    <3>1. CASE v.from = "coach"
      <4>1. CASE a = "coach"
        BY <1>3, <3>1, <4>1 DEF IInv, Shape
      <4>2. CASE a # "coach"
        <5>1. a \in Scheduled /\ "coach" \in Scheduled
          BY <1>3, <3>1 DEF Scheduled
        <5>2. QED
          BY <4>2, <5>1, SpecialistAssumption DEF IInv, Shape, Fixed
      <4>3. QED
        BY <4>1, <4>2
    <3>2. CASE v.from # "coach"
      BY <1>3, <3>2 DEF IInv, Shape, Lawful
    <3>3. QED
      BY <3>1, <3>2
  <2>2. QED
    BY <1>1, <1>3, <2>1, MergedFacts DEF Kept
<1>4. QED
  BY <1>1, <1>2, <1>3 DEF Kept

(* The specialists have all returned; the coach is next.                      *)
LEMMA CoachNext ==
  ASSUME IInv, Barrier, \A u \in updates : u.from \in Specialist,
         Scheduled = {u.from : u \in updates}, Scheduled = routes
  PROVE  IInv'
<1>1. /\ updates # {} /\ running = {} /\ updates' = {} /\ status = "running"
      /\ returned' = returned /\ raised' = raised /\ coached' = coached /\ stored' = stored
  BY DEF Barrier, AllReturned
<1>2. \A u \in updates : u.from \notin Fixed
  BY NodeFacts
<1>3. \A u \in updates : After(u) = {"coach"}
  BY <1>2 DEF After, Fixed
<1>4. running' = {"coach"} /\ Scheduled' = {"coach"} /\ "coach" \in Fixed
  BY <1>1, <1>3 DEF Barrier, Scheduled, Fixed
<1>5. routes' = routes /\ answer' = answer /\ status' = "running"
  BY <1>1, <1>2 DEF Barrier, IInv, Shape, Lawful, Fixed
<1>6. \A m \in returned : Rank(m) <= 3
  <2>1. PICK n \in Scheduled : n \in Specialist
    BY <1>1
  <2>2. QED
    BY <2>1, RankFacts DEF IInv, Shape
<1>7. Shape'
  BY <1>1, <1>4, <1>5, <1>6, RankFacts, FS_EmptySet DEF IInv, Shape, TypeOK
<1>8. Choice'
  <2>1. routes \subseteq returned
    BY DEF IInv, Shape
  <2>2. QED
    BY <1>1, <1>4, <1>5, <2>1, NodeFacts DEF Choice, CoachHearsAll, Fixed
<1>9. Spending'
  <2>1. ~stored.done
    BY <1>1, <1>2 DEF IInv, Spending, Fixed
  <2>2. QED
    BY <2>1, BarrierSpending
<1>10. Flags'
  <2>1. \A a \in raised' \ coached' : Kept(a)'
    BY <1>1, BarrierKeeps
  <2>2. QED
    BY <1>1, <1>4, <1>5, <2>1 DEF IInv, Flags
<1>11. QED
  BY <1>7, <1>8, <1>9, <1>10, BarrierTypes DEF IInv

(* A fixed node has returned; the next superstep has a higher rank.           *)
LEMMA FixedNext ==
  ASSUME IInv, Barrier, NEW u \in updates, updates = {u}, u.from \in Fixed, Scheduled = {u.from}
  PROVE  IInv'
<1> DEFINE n == u.from
<1>1. /\ running = {} /\ updates' = {} /\ status = "running"
      /\ returned' = returned /\ raised' = raised /\ coached' = coached /\ stored' = stored
      /\ running' = After(u) /\ Scheduled' = After(u)
      /\ routes' = routes \cup u.routes
      /\ status' = IF n = "persist" THEN "answered" ELSE "running"
      /\ answer' = IF u.answer.given THEN u.answer ELSE answer
  BY DEF Barrier, AllReturned, Scheduled
<1>2. Lawful(u) /\ u \in Update /\ n \in returned /\ n \notin Specialist
  BY SpecialistAssumption DEF IInv, Shape, Lawful
<1> HIDE DEF n
<1>3. After(u) = CASE n = "retrieval" -> {"analyzer"} [] n = "analyzer" -> Route(u.routes)
                   [] n = "coach" -> {"tracker"} [] n = "tracker" -> {"alert"}
                   [] n = "alert" -> {"synthesizer"} [] n = "synthesizer" -> {"persist"}
                   [] n = "persist" -> {}
  BY <1>2 DEF After, Fixed, n
<1>4. u.routes \subseteq Specialist /\ (n # "analyzer" => u.routes = {})
  BY <1>2 DEF Update, Lawful, n
<1>5. \/ n = "analyzer" /\ u.routes # {} /\ After(u) = u.routes
      \/ n = "analyzer" /\ u.routes = {} /\ After(u) = {"coach"}
      \/ n = "retrieval" /\ After(u) = {"analyzer"}
      \/ n = "coach" /\ After(u) = {"tracker"}
      \/ n = "tracker" /\ After(u) = {"alert"}
      \/ n = "alert" /\ After(u) = {"synthesizer"}
      \/ n = "synthesizer" /\ After(u) = {"persist"}
      \/ n = "persist" /\ After(u) = {}
  BY <1>3 DEF Fixed, Route, n
<1>6. \A k \in After(u) : Rank(k) > Rank(n)
  BY <1>4, <1>5, RankFacts
<1>7. \A m \in returned : Rank(m) <= Rank(n) /\ Rank(m) \in Nat /\ Rank(n) \in Nat
  BY RankFacts, NodeFacts DEF IInv, Shape, TypeOK, n
<1>8. After(u) \cap returned = {}
  BY <1>6, <1>7
<1>9. Shape'
  <2>1. \A m \in returned', k \in Scheduled' : Rank(m) <= Rank(k)
    <3>1. \A k \in After(u) : Rank(k) \in Nat
      BY AfterTypes, RankFacts
    <3>2. QED
      BY <1>1, <1>6, <1>7, <3>1
  <2>2. Scheduled' \subseteq Specialist \/ \E k \in Fixed : Scheduled' = {k}
    BY <1>1, <1>4, <1>5 DEF Fixed
  <2>3. status' # "running" => running' = {} /\ updates' = {}
    BY <1>1, <1>5
  <2>4. QED
    BY <1>1, <1>8, <2>1, <2>2, <2>3, FS_EmptySet DEF Shape
<1>10. "coach" \in returned => n \notin {"retrieval", "analyzer"}
  BY <1>7, RankFacts
<1>11. Choice'
  <2>1. n \in {"retrieval", "analyzer"} => routes = {}
    BY DEF IInv, Choice, n
  <2>2. n \in {"coach", "tracker", "alert", "synthesizer", "persist"} => routes \subseteq returned
    BY DEF IInv, Choice, n
  <2>3. routes' = {} \/ n \notin {"retrieval"}
    BY <1>1, <1>4, <2>1
  <2>4. CASE n = "analyzer" /\ u.routes # {}
    BY <1>1, <1>4, <1>5, <1>10, <2>1, <2>4, NodeFacts DEF Choice, CoachHearsAll, Fixed
  <2>5. CASE ~(n = "analyzer" /\ u.routes # {})
    <3>1. routes' = routes /\ After(u) \cap Specialist = {}
      BY <1>1, <1>4, <1>5, <2>5, NodeFacts DEF Fixed
    <3>2. routes = {} \/ routes \subseteq returned
      BY <2>1, <2>2 DEF Fixed, n
    <3>3. "retrieval" \notin After(u) /\ ("analyzer" \in After(u) => n = "retrieval")
      BY <1>5, <2>5
    <3>4. QED
      BY <1>1, <2>1, <3>1, <3>2, <3>3 DEF Choice, CoachHearsAll
  <2>6. QED
    BY <2>4, <2>5
<1>12. Spending'
  <2>1. stored.done => n = "persist"
    BY DEF IInv, Spending, n
  <2>2. QED
    BY <1>1, <1>5, <2>1, BarrierSpending
<1>13. Flags'
  <2>1. \A a \in raised' \ coached' : Kept(a)'
    BY <1>1, BarrierKeeps
  <2>2. ASSUME ~(raised \subseteq coached), "persist" \in After(u) \/ n = "persist"
        PROVE  answer'.disclaimer
    <3>1. CASE n = "synthesizer"
      <4>1. u.answer.given /\ u.answer.disclaimer
        BY <1>2, <2>2, <3>1 DEF IInv, Flags, Lawful, n
      <4>2. QED
        BY <1>1, <4>1
    <3>2. CASE n # "synthesizer"
      <4>1. n = "persist"
        BY <1>4, <1>5, <2>2, <3>2, NodeFacts DEF Fixed
      <4>2. ~u.answer.given /\ answer.disclaimer
        BY <1>2, <2>2, <3>2, <4>1 DEF IInv, Flags, Lawful, n
      <4>3. QED
        BY <1>1, <4>2
    <3>3. QED
      BY <3>1, <3>2
  <2>3. raised \subseteq returned /\ ("coach" \notin returned => coached = {})
    BY DEF IInv, Flags
  <2>4. QED
    BY <1>1, <2>1, <2>2, <2>3 DEF Flags
<1>14. QED
  BY <1>9, <1>11, <1>12, <1>13, BarrierTypes DEF IInv

LEMMA NextIInv == IInv /\ [Next]_vars => IInv'
<1> SUFFICES ASSUME IInv, [Next]_vars PROVE IInv'
  OBVIOUS
<1>1. ASSUME NEW n \in Node, Run(n) PROVE IInv'
  <2>1. CASE Fail(n) \/ PersistUnconfirmed
    BY <2>1, FailStep DEF Fail, PersistUnconfirmed
  <2>2. QED
    BY <1>1, <2>1, RunReturns, ReturnStep DEF IInv
<1>2. CASE Barrier
  <2>1. AllReturned
    BY <1>2 DEF Barrier
  <2>2. QED
    BY <1>2, <2>1, Returners, CoachNext, FixedNext
<1>3. CASE UNCHANGED vars
  BY <1>3 DEF vars, channels, IInv, TypeOK, Shape, Choice, Spending, Flags, Scheduled, Kept,
     CoachHearsAll
<1>4. QED
  BY <1>1, <1>2, <1>3 DEF Next, Over

LEMMA IInvAlways == Spec => []IInv
BY InitIInv, NextIInv, PTL DEF Spec

-----------------------------------------------------------------------------
(* Every variable of AgentTurn keeps its type; in particular what a node       *)
(* returns is an update of the state.                                        *)
THEOREM TypeCorrect == Spec => []TypeOK
<1>1. IInv => TypeOK
  BY DEF IInv
<1>2. QED
  BY <1>1, IInvAlways, PTL

(* For any number of specialists the coach runs after all that were chosen.   *)
THEOREM CoachWaits == Spec => []CoachHearsAll
<1>1. IInv => CoachHearsAll
  BY DEF IInv, Choice
<1>2. QED
  BY <1>1, IInvAlways, PTL

(* For any number of specialists that answer side by side, the stored tokens   *)
(* are those of all calls.                                                   *)
THEOREM TokensAddUp == Spec => []TokensAccounted
<1>1. IInv => TokensAccounted
  BY DEF IInv, Spending, TokensAccounted
<1>2. QED
  BY <1>1, IInvAlways, PTL

(* For any number of specialists, a required disclaimer that the coach did not *)
(* speak about reaches the answer.                                           *)
THEOREM DisclaimerReaches == Spec => []DisclaimerKept
<1>1. IInv => DisclaimerKept
  BY DEF IInv, Flags, DisclaimerKept
<1>2. QED
  BY <1>1, IInvAlways, PTL
=============================================================================
