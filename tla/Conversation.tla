---------------------------- MODULE Conversation ----------------------------
(***************************************************************************)
(* Stored conversations: the rows persist_node (agent/graph.py) writes and   *)
(* GET /memory/conversations/{id}/messages reads back.  A turn is named by   *)
(* the number of its question, a new conversation by its first turn.         *)
(***************************************************************************)
EXTENDS Naturals, SequencesExt

CONSTANT MaxTurns    \* bound: questions asked

Turn == 1..MaxTurns

VARIABLES
  messages,    \* committed rows
  clock,       \* time of the latest transaction that wrote messages
  asked,       \* number of questions asked
  answered,    \* history: <<turn, conversation_id>> of the answers clients have got
  since,       \* history: for every question, the turns answered before it
  listing,     \* the last list of messages sent to a client, ...
  due          \* ... and history: the turns answered when it was asked for

conversationVars == <<messages, clock, asked, answered, since, listing, due>>

Message == [turn : Turn, role : {"user", "agent"}, conv : Turn, at : Nat]

ConversationTypeOK ==
  /\ messages \subseteq Message
  /\ clock \in Nat /\ asked \in 0..MaxTurns
  /\ answered \subseteq Turn \X Turn
  /\ since \in [Turn -> SUBSET Turn]
  /\ listing \in Seq(Message)
  /\ due \subseteq Turn

ConversationInit ==
  /\ messages = {} /\ clock = 0 /\ asked = 0 /\ answered = {}
  /\ since = [t \in Turn |-> {}] /\ listing = <<>> /\ due = {}

Convs == {m.conv : m \in messages}

(* A client asks; it has seen the answers that have been sent.               *)
Ask ==
  /\ asked < MaxTurns
  /\ asked' = asked + 1
  /\ since' = [since EXCEPT ![asked + 1] = {a[1] : a \in answered}]
  /\ UNCHANGED <<messages, clock, answered, listing, due>>

(* The transaction of persist_node begins: now() is this time in all of it.  *)
BeginTurn == clock' = clock + 1 /\ UNCHANGED <<messages, asked, answered, since, listing, due>>

\* The rows of a turn; the mutant commits the question without the answer.
QuestionOnly == {"user"}
Roles == {"user", "agent"}

(* The commit of persist_node.                                               *)
SaveTurn(t, conv, at) ==
  /\ messages' = messages \cup
       {[turn |-> t, role |-> x, conv |-> conv, at |-> at] : x \in Roles}
  /\ UNCHANGED <<clock, asked, answered, since, listing, due>>

Answer(t, conv) ==
  /\ answered' = answered \cup {<<t, conv>>}
  /\ UNCHANGED <<messages, clock, asked, since, listing, due>>

\* ORDER BY created_at; the rows of one turn tie and come in any order.
\* The mutant has no ORDER BY.
Unordered(rows) == \A i \in DOMAIN rows : rows[i] = rows[i]
InOrder(rows) == \A i, j \in DOMAIN rows : i < j => rows[i].at <= rows[j].at

List(conv, answers) ==
  /\ listing' \in {rows \in SetToSeqs({m \in messages : m.conv = conv}) : InOrder(rows)}
  /\ due' = {a[1] : a \in {b \in answers : b[2] = conv}}
  /\ UNCHANGED <<messages, clock, asked, answered, since>>

=============================================================================
