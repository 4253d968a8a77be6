------------------------------ MODULE AgentTurn ------------------------------
(***************************************************************************)
(* One chat turn: POST /chat (routers/chat.py) runs the graph of             *)
(* agent/graph.py over the state of agent/state.py.                          *)
(*                                                                           *)
(* The graph runs in supersteps: all scheduled nodes read the same state and *)
(* run concurrently, and when the last one has returned, their updates go    *)
(* through the reducers and the edges schedule the next nodes.  What a       *)
(* language model answers is any choice its tool schema allows, a truncated  *)
(* answer included.  Texts and scores are left out: a proposal is its node   *)
(* and its requires_disclaimer flag, and a call costs one token.             *)
(***************************************************************************)
EXTENDS Naturals, FiniteSets

CONSTANTS
  Specialist,   \* the nodes of _ROUTE_TO_NODE
  Tax           \* the specialist with force_disclaimer

Fixed == {"retrieval", "analyzer", "coach", "tracker", "alert", "synthesizer", "persist"}

ASSUME SpecialistAssumption ==
  /\ IsFiniteSet(Specialist) /\ Specialist \cap Fixed = {}
  /\ Tax \in Specialist

Node == Specialist \cup Fixed

\* Proposals by the node they are from; the value is requires_disclaimer.
Author == Specialist \cup {"coach", "alert"}
Proposals == UNION {[A -> BOOLEAN] : A \in SUBSET Author}

NoAnswer == [given |-> FALSE, disclaimer |-> FALSE, decision |-> FALSE]
Answer == [given : BOOLEAN, disclaimer : BOOLEAN, decision : BOOLEAN]
NotStored == [tokens |-> 0, decision |-> FALSE, done |-> FALSE]
Pace == {"none", "on", "behind"}

VARIABLES
  running,    \* nodes of this superstep that have not returned
  updates,    \* what the others returned
  routes, proposals, tokens, pace, answer,   \* channels of the state
  conv,       \* conversation_id of the request
  stored,     \* the committed agent message and decision
  status,
  calls,      \* history: calls the provider answered, and bills
  returned,   \* history: nodes that have returned
  raised,     \* history: specialists and alerts whose own proposal had the flag
  coached     \* history: the nodes the coach spoke for

channels == <<routes, proposals, tokens, pace, answer>>
vars == <<running, updates, channels, conv, stored, status, calls, returned, raised,
          coached>>

Update == [from : Node, routes : SUBSET Specialist, props : Proposals, tokens : {0, 1},
           pace : Pace, answer : Answer]

TypeOK ==
  /\ running \in SUBSET Node
  /\ updates \in SUBSET Update
  /\ routes \in SUBSET Specialist
  /\ proposals \in Proposals
  /\ tokens \in Nat /\ calls \in Nat
  /\ pace \in Pace
  /\ answer \in Answer
  /\ conv \in {"new", "known", "missing"}
  /\ stored \in [tokens : Nat, decision : BOOLEAN, done : BOOLEAN]
  /\ status \in {"running", "answered", "failed"}
  /\ returned \in SUBSET Node
  /\ raised \in SUBSET Author /\ coached \in SUBSET Author

Init ==
  /\ running = {"retrieval"} /\ updates = {}
  /\ routes = {} /\ proposals = <<>> /\ tokens = 0 /\ pace = "none" /\ answer = NoAnswer
  /\ conv \in {"new", "known", "missing"}
  /\ stored = NotStored /\ status = "running"
  /\ calls = 0 /\ returned = {} /\ raised = {} /\ coached = {}

-----------------------------------------------------------------------------
(* Nodes.  A node that is done returns an update of the state.               *)

NoUpdate(n) == [from |-> n, routes |-> {}, props |-> <<>>, tokens |-> 0,
                pace |-> "none", answer |-> NoAnswer]
Billed(n) == [NoUpdate(n) EXCEPT !.tokens = 1]

Return(u) ==
  /\ status = "running" /\ u.from \in running
  /\ running' = running \ {u.from}
  /\ updates' = updates \cup {u}
  /\ returned' = returned \cup {u.from}
  /\ calls' = calls + u.tokens
  /\ UNCHANGED <<channels, conv, status>>

(* build_retrieval_context; what it reads is left out.                       *)
Retrieval ==
  /\ Return(NoUpdate("retrieval"))
  /\ UNCHANGED <<stored, raised, coached>>

(* A route that belongs to no specialist ("general", an arena) selects       *)
(* nobody.  An answer that was cut off selects the specialists of both       *)
(* tracks, as a whole one may.                                               *)
Analyzer ==
  /\ \E selected \in SUBSET Specialist :
       Return([Billed("analyzer") EXCEPT !.routes = selected])
  /\ UNCHANGED <<stored, raised, coached>>

(* run_proposal_node.  An answer that was cut off makes no proposal.         *)
NoProposal(n) ==
  /\ Return(Billed(n))
  /\ UNCHANGED <<stored, raised, coached>>

Propose(n, said) ==
  LET flag == n = Tax \/ said IN
  /\ Return([Billed(n) EXCEPT !.props = [a \in {n} |-> flag]])
  /\ raised' = IF flag THEN raised \cup {n} ELSE raised
  /\ UNCHANGED <<stored, coached>>

(* coach_node returns the list of the model, whichever nodes and flags it    *)
(* names, or, when there is no usable list, the proposals as they are.       *)
Coach ==
  /\ \E said \in {s \in Proposals : "alert" \notin DOMAIN s} :
       /\ Return([Billed("coach") EXCEPT !.props = said])
       /\ coached' = DOMAIN said
  /\ UNCHANGED <<stored, raised>>

(* The pace of the net worth, when there are data for one.                   *)
Tracker ==
  /\ \E p \in Pace : Return([NoUpdate("tracker") EXCEPT !.pace = p])
  /\ UNCHANGED <<stored, raised, coached>>

\* The alerts in the order alert_node tries them.  (The surplus alert before
\* them cannot fire: no vault_snapshot has a surplus_monthly.)
Alerts == <<"pace", "roth", "deduction", "milestone", "career">>
TaxAlerts == {"roth", "deduction"}

\* All the alerts are from node "alert", so the reducer keeps the last.
LastAlert(due) ==
  Alerts[CHOOSE i \in DOMAIN Alerts :
           Alerts[i] \in due /\ \A j \in DOMAIN Alerts : Alerts[j] \in due => j <= i]

Alert ==
  /\ \E due \in SUBSET {Alerts[i] : i \in DOMAIN Alerts} :
       /\ "pace" \in due => pace = "behind"
       /\ Return([NoUpdate("alert") EXCEPT !.props =
            IF due = {} THEN <<>> ELSE [a \in {"alert"} |-> LastAlert(due) \in TaxAlerts]])
       /\ raised' = IF due # {} /\ LastAlert(due) \in TaxAlerts
                    THEN raised \cup {"alert"} ELSE raised
  /\ UNCHANGED <<stored, coached>>

\* said: the final model's own flag; sensitive: text_requires_disclaimer.
\* The mutant leaves the flags of the proposals to the model.
TrustTheModel(said, sensitive) == said \/ sensitive
NeedsDisclaimer(said, sensitive) ==
  said \/ sensitive \/ \E a \in DOMAIN proposals : proposals[a]

(* synthesizer_node.  Cut off: _fallback_from_proposals, where the model has *)
(* said nothing and nothing is decided.                                      *)
Synthesizer ==
  /\ \E cutOff, said, sensitive, decision \in BOOLEAN :
       /\ cutOff => ~said /\ ~decision
       /\ Return([Billed("synthesizer") EXCEPT !.answer =
            [given |-> TRUE, disclaimer |-> NeedsDisclaimer(said, sensitive),
             decision |-> decision]])
  /\ UNCHANGED <<stored, raised, coached>>

(* persist_node: conversation, both messages and the decision in one commit. *)
(* An id that is no conversation's is an IntegrityError.                     *)
Persist ==
  /\ conv # "missing"
  /\ Return(NoUpdate("persist"))
  /\ stored' = [tokens |-> tokens, decision |-> answer.decision, done |-> TRUE]
  /\ UNCHANGED <<raised, coached>>

(* A node raises (the provider, the database, a malformed tool input): the   *)
(* others are cancelled and the answer is 500.                               *)
Fail(n) ==
  /\ status = "running" /\ n \in running
  /\ status' = "failed"
  /\ running' = {} /\ updates' = {}
  /\ UNCHANGED <<channels, conv, stored, calls, returned, raised, coached>>

(* The commit succeeds and its answer is lost.                               *)
PersistUnconfirmed ==
  /\ status = "running" /\ "persist" \in running /\ conv # "missing"
  /\ status' = "failed"
  /\ running' = {} /\ updates' = {}
  /\ stored' = [tokens |-> tokens, decision |-> answer.decision, done |-> TRUE]
  /\ UNCHANGED <<channels, conv, calls, returned, raised, coached>>

-----------------------------------------------------------------------------
(* The end of a superstep.                                                   *)

\* merge_proposals: a new proposal replaces the one of the same node.
Merged ==
  LET New(a) == {u \in updates : a \in DOMAIN u.props}
  IN [a \in DOMAIN proposals \cup UNION {DOMAIN u.props : u \in updates} |->
        IF New(a) # {} THEN (CHOOSE u \in New(a) : TRUE).props[a] ELSE proposals[a]]

\* operator.add; the mutant is a channel without a reducer.
LastTokens == IF \E u \in updates : u.tokens = 1 THEN 1 ELSE tokens
SumTokens == tokens + Cardinality({u \in updates : u.tokens = 1})

\* _route_from_analyzer.  The mutants are without `if r in _ROUTE_TO_NODE` and
\* without `or ["coach"]`.
Unmapped(selected) == IF selected = {} THEN {"general"} ELSE selected
SelectedOnly(selected) == selected
Route(selected) == IF selected = {} THEN {"coach"} ELSE selected

After(u) ==
  CASE u.from = "retrieval"     -> {"analyzer"}
    [] u.from = "analyzer"      -> Route(u.routes)
    [] u.from \in Specialist    -> {"coach"}
    [] u.from = "coach"         -> {"tracker"}
    [] u.from = "tracker"       -> {"alert"}
    [] u.from = "alert"         -> {"synthesizer"}
    [] u.from = "synthesizer"   -> {"persist"}
    [] u.from = "persist"       -> {}

\* The mutant follows an edge as soon as its node has returned.
SomeReturned == updates # {}
AllReturned == updates # {} /\ running = {}

Barrier ==
  /\ status = "running" /\ AllReturned
  /\ running' = running \cup UNION {After(u) : u \in updates}
  /\ updates' = {}
  /\ routes' = routes \cup UNION {u.routes : u \in updates}
  /\ proposals' = Merged
  /\ tokens' = SumTokens
  /\ pace' \in IF \E u \in updates : u.from = "tracker"
               THEN {u.pace : u \in updates} ELSE {pace}
  /\ answer' \in IF \E u \in updates : u.answer.given
                 THEN {u.answer : u \in updates} ELSE {answer}
  /\ status' = IF \E u \in updates : u.from = "persist" THEN "answered" ELSE status
  /\ UNCHANGED <<conv, stored, calls, returned, raised, coached>>

Over == status # "running" /\ UNCHANGED vars

Run(n) ==
  \/ n = "retrieval" /\ Retrieval
  \/ n = "analyzer" /\ Analyzer
  \/ n \in Specialist /\ (NoProposal(n) \/ \E said \in BOOLEAN : Propose(n, said))
  \/ n = "coach" /\ Coach
  \/ n = "tracker" /\ Tracker
  \/ n = "alert" /\ Alert
  \/ n = "synthesizer" /\ Synthesizer
  \/ n = "persist" /\ (Persist \/ PersistUnconfirmed)
  \/ Fail(n)

Next == (\E n \in Node : Run(n)) \/ Barrier \/ Over

Spec == Init /\ [][Next]_vars

(* The clients have timeouts (clients.py, db.py), so every node returns or   *)
(* raises, and the engine is a coroutine of the event loop.                  *)
Fairness == (\A n \in Node : WF_vars(Run(n))) /\ WF_vars(Barrier)

FairSpec == Spec /\ Fairness

-----------------------------------------------------------------------------
(* Properties.                                                               *)

(* The coach is scheduled once, after every specialist the analyzer chose    *)
(* has returned, however long each of them takes.                            *)
CoachHearsAll == "coach" \in running \cup returned => routes \subseteq returned

(* The tokens on the stored message are those of all the calls of the turn,  *)
(* also of calls that ran side by side or were cut off.                      *)
TokensAccounted == stored.done => stored.tokens = calls

(* A specialist's proposal that requires the disclaimer reaches the user     *)
(* with it, unless the coach spoke for that specialist again: no later alert, *)
(* truncation or word of the final model can take it away.                   *)
DisclaimerKept ==
  status = "answered" /\ ~(raised \subseteq coached) => answer.disclaimer

(* docs/CONTRACTS.md, hard rules: "`disclaimer` is non-null whenever any     *)
(* contributing proposal set `requires_disclaimer`."                         *)
DisclaimerContract == status = "answered" /\ raised # {} => answer.disclaimer

(* Every turn is answered or fails.                                          *)
TurnEnds == <>(status # "running")
=============================================================================
