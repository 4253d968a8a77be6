-------------------------------- MODULE Intake --------------------------------
(***************************************************************************)
(* The onboarding wizard: routers/intake.py (submit, reset, status, snapshot *)
(* refresh) and the snapshot engine of vault/financial_snapshot.py it calls. *)
(*                                                                           *)
(* Every request is one READ COMMITTED transaction.  A submission inserts    *)
(* its rows, lets the engine read the whole vault (one SELECT per table, so  *)
(* not one state of it), and commits rows, snapshot, archive and completion  *)
(* together.  A row is the request that inserted it and its kind: "career",   *)
(* of which the engine accepts one, or "expense", which it reads twice, and   *)
(* which stands for the other sections too.  Amounts are left out.           *)
(*                                                                           *)
(* Requests that are answered without a change (no profile to reset, several *)
(* profiles found by submit, reset or status: 500) are not steps.            *)
(***************************************************************************)
EXTENDS Naturals, FiniteSets

CONSTANTS
  Tx,       \* requests that can be in progress at the same time
  MaxOps,   \* bound: requests in all
  Edit      \* the kinds of rows that vault requests insert and delete

Kind == {"career", "expense"}

ASSUME IntakeAssumption == MaxOps \in Nat /\ Edit \subseteq Kind

Op == 1 .. MaxOps
Row == Op \X Kind
None == 0            \* no profile

VARIABLES
  profiles,   \* user_profile rows, named by the request that inserted them
  complete,   \* those whose intake_completed_at is set
  vault,      \* the other rows
  snaps,      \* financial_snapshots
  archives,   \* intake_submissions
  holder,     \* row lock of a profile: requests that wrote and not committed it
  req,        \* per slot: the request in progress
  answers,    \* history: what GET /intake/status told
  ops,        \* counter: requests so far
  raced       \* history: did two submissions that found no profile overlap?

vars == <<profiles, complete, vault, snaps, archives, holder, req, answers, ops, raced>>

\* op: the number of the request, which is also the time its transaction began.
\* prof, new, done: the profile it loaded or inserts, and what it said.
\* own: its own rows; base: the vault when it began; ladder, saw: the rows the
\* two passes of the engine read.
Idle == [pc |-> "idle", kind |-> "none", op |-> 0, prof |-> None, new |-> FALSE,
         done |-> FALSE, own |-> {}, base |-> {}, ladder |-> {}, saw |-> {}]

Snapshot == [at : Op, ladder : SUBSET Row, saw : SUBSET Row]

TypeOK ==
  /\ profiles \in SUBSET Op /\ complete \in SUBSET profiles
  /\ vault \in SUBSET Row
  /\ snaps \in SUBSET Snapshot
  /\ archives \in SUBSET [op : Op, snap : Op]
  /\ holder \in [Op -> SUBSET Tx]
  /\ req \in [Tx -> [pc : {"idle", "save", "ladders", "analyse", "store", "latest"},
                     kind : {"none", "submit", "refresh", "reset", "status"},
                     op : Op \cup {0}, prof : Op \cup {None}, new : BOOLEAN,
                     done : BOOLEAN, own : SUBSET Row, base : SUBSET Row,
                     ladder : SUBSET Row, saw : SUBSET Row]]
  /\ answers \in SUBSET [completed : BOOLEAN, snapshot : BOOLEAN]
  /\ ops \in 0 .. MaxOps
  /\ raced \in BOOLEAN

Init ==
  /\ profiles = {} /\ complete = {} /\ vault = {}
  /\ snaps = {} /\ archives = {}
  /\ holder = [p \in Op |-> {}]
  /\ req = [t \in Tx |-> Idle]
  /\ answers = {}
  /\ ops = 0
  /\ raced = FALSE

tables == <<profiles, complete, vault, snaps, archives>>

-----------------------------------------------------------------------------
(* Helpers.                                                                  *)

\* select(UserProfile).scalar_one_or_none(), which raises MultipleResultsFound
\* (a 500) when there are several.  The mutant overlooks a profile that was reset.
CompletedOnly == profiles \cap complete
LookedUp == profiles
SeveralProfiles == Cardinality(LookedUp) > 1
TheProfile == IF LookedUp = {} THEN None ELSE CHOOSE p \in LookedUp : TRUE

\* A transaction sees what is committed now and what it wrote itself.  The
\* mutant runs the engine in a session of its own.
CommittedOnly(t) == vault
Visible(t) == vault \cup req[t].own

Careers(t) == {r \in Visible(t) : r[2] = "career"}

\* The engine cannot tell which profile or which career position is meant.
Ambiguous(t) ==
  \/ Cardinality(LookedUp \cup IF req[t].new THEN {req[t].prof} ELSE {}) > 1
  \/ Cardinality(Careers(t)) > 1

Free(t) == req[t].prof = None \/ holder[req[t].prof] \subseteq {t}

Begin(t, r) ==
  /\ req[t].pc = "idle"
  /\ ops < MaxOps
  /\ ops' = ops + 1
  /\ req' = [req EXCEPT ![t] = [r EXCEPT !.op = ops', !.base = vault]]

\* Mutant: the connection goes back to the pool with its transaction open.
StillHeld(t) == UNCHANGED holder
Release(t) == holder' = [p \in Op |-> holder[p] \ {t}]

End(t) == req' = [req EXCEPT ![t] = Idle] /\ Release(t)

-----------------------------------------------------------------------------
(* POST /intake/submit.                                                      *)

\* Profile, found or new, and the sections of the body.
BeginSubmit(t, sections) ==
  /\ ~SeveralProfiles
  /\ LET p == TheProfile IN
     /\ Begin(t, [Idle EXCEPT
          !.pc = "save", !.kind = "submit",
          !.prof = IF p = None THEN ops + 1 ELSE p,
          !.new = (p = None),
          !.done = p \in complete,
          !.own = {<<ops + 1, k>> : k \in sections}])
     /\ raced' = (raced \/ (p = None /\ \E u \in Tx \ {t} : req[u].new))
  /\ UNCHANGED <<tables, holder, answers>>

(* The first flush: INSERT of a new profile, UPDATE of a found one unless    *)
(* the body says what the row says already.  Then the INSERTs of the rest.   *)
Save(t) ==
  /\ req[t].pc = "save"
  /\ \/ ~req[t].new /\ UNCHANGED holder
     \/ Free(t) /\ holder' = [holder EXCEPT ![req[t].prof] = @ \cup {t}]
  /\ req' = [req EXCEPT ![t].pc = "ladders"]
  /\ UNCHANGED <<tables, answers, ops, raced>>

(* compute_wealth_position and compute_income_position.                      *)
ReadLadders(t) ==
  /\ req[t].pc = "ladders"
  /\ req' = [req EXCEPT ![t].pc = "analyse", ![t].ladder = Visible(t)]
  /\ UNCHANGED <<tables, holder, answers, ops, raced>>

(* The rest of _compute_snapshot_data, which reads the expenses once more,   *)
(* and the flush of the snapshot.                                            *)
Analyse(t) ==
  /\ req[t].pc = "analyse"
  /\ ~Ambiguous(t)
  /\ req' = [req EXCEPT ![t].pc = "store", ![t].saw = Visible(t)]
  /\ UNCHANGED <<tables, holder, answers, ops, raced>>

\* MultipleResultsFound, a 500, and everything is rolled back.  The mutant
\* catches the exception and completes the intake all the same.
CompletedAnyway(t) ==
  /\ req[t].pc = "analyse" /\ Ambiguous(t)
  /\ profiles' = profiles \cup ({req[t].prof} \ {None})
  /\ complete' = complete \cup ({req[t].prof} \ {None})
  /\ End(t)
  /\ UNCHANGED <<vault, snaps, archives, answers, ops, raced>>
Refused(t) ==
  /\ req[t].pc = "analyse"
  /\ Ambiguous(t)
  /\ End(t)
  /\ UNCHANGED <<tables, answers, ops, raced>>

ResultOfLadders(t) == [at |-> req[t].op, ladder |-> req[t].ladder]   \* mutant
Result(t) == [at |-> req[t].op, ladder |-> req[t].ladder, saw |-> req[t].saw]

(* The archive, intake_completed_at = now, and the commit of everything.     *)
Store(t) ==
  /\ req[t].pc = "store" /\ req[t].kind = "submit"
  /\ Free(t)
  /\ profiles' = profiles \cup {req[t].prof}
  /\ complete' = complete \cup {req[t].prof}
  /\ vault' = vault \cup req[t].own
  /\ snaps' = snaps \cup {Result(t)}
  /\ archives' = archives \cup {[op |-> req[t].op, snap |-> req[t].op]}
  /\ End(t)
  /\ UNCHANGED <<answers, ops, raced>>

-----------------------------------------------------------------------------
(* POST /intake/snapshot/refresh.                                            *)

BeginRefresh(t) ==
  /\ Begin(t, [Idle EXCEPT !.pc = "ladders", !.kind = "refresh"])
  /\ UNCHANGED <<tables, holder, answers, raced>>

StoreRefresh(t) ==
  /\ req[t].pc = "store" /\ req[t].kind = "refresh"
  /\ snaps' = snaps \cup {Result(t)}
  /\ End(t)
  /\ UNCHANGED <<profiles, complete, vault, archives, answers, ops, raced>>

-----------------------------------------------------------------------------
(* POST /intake/reset.  UPDATE only if the loaded row had a completion time. *)

BeginReset(t) ==
  /\ ~SeveralProfiles /\ profiles # {}
  /\ Begin(t, [Idle EXCEPT !.pc = "store", !.kind = "reset", !.prof = TheProfile,
                           !.done = TheProfile \in complete])
  /\ UNCHANGED <<tables, holder, answers, raced>>

StoreReset(t) ==
  /\ req[t].pc = "store" /\ req[t].kind = "reset"
  /\ req[t].done => Free(t)
  /\ complete' = IF req[t].done THEN complete \ {req[t].prof} ELSE complete
  /\ End(t)
  /\ UNCHANGED <<profiles, vault, snaps, archives, answers, ops, raced>>

-----------------------------------------------------------------------------
(* GET /intake/status: the profile, and then the latest snapshot.            *)

BeginStatus(t) ==
  /\ ~SeveralProfiles
  /\ Begin(t, [Idle EXCEPT !.pc = "latest", !.kind = "status",
                           !.done = TheProfile \in complete])
  /\ UNCHANGED <<tables, holder, answers, raced>>

AnswerStatus(t) ==
  /\ req[t].pc = "latest"
  /\ answers' = answers \cup {[completed |-> req[t].done, snapshot |-> snaps # {}]}
  /\ End(t)
  /\ UNCHANGED <<tables, ops, raced>>

-----------------------------------------------------------------------------
(* Everything else that changes the vault or ends a request.                 *)

\* POST and DELETE of routers/vault.py, each committed at once.
VaultCreate(k) ==
  /\ ops < MaxOps /\ ops' = ops + 1
  /\ vault' = vault \cup {<<ops', k>>}
  /\ UNCHANGED <<profiles, complete, snaps, archives, holder, req, answers, raced>>

VaultDelete(r) ==
  /\ r \in vault /\ r[2] \in Edit
  /\ ops < MaxOps /\ ops' = ops + 1
  /\ vault' = vault \ {r}
  /\ UNCHANGED <<profiles, complete, snaps, archives, holder, req, answers, raced>>

(* The connection or the process is lost.                                    *)
Abort(t) ==
  /\ req[t].pc # "idle"
  /\ End(t)
  /\ UNCHANGED <<tables, answers, ops, raced>>

Quiet == ops = MaxOps /\ (\A t \in Tx : req[t].pc = "idle") /\ UNCHANGED vars

\* Answered with a 500 for good: submit, reset and status find two profiles.
Wedged == SeveralProfiles /\ (\A t \in Tx : req[t].pc = "idle") /\ UNCHANGED vars

Advance(t) ==
  \/ Save(t) \/ ReadLadders(t) \/ Analyse(t) \/ Refused(t)
  \/ Store(t) \/ StoreRefresh(t) \/ StoreReset(t) \/ AnswerStatus(t)

Next ==
  \/ \E t \in Tx :
       \/ \E sections \in SUBSET Kind : BeginSubmit(t, sections)
       \/ BeginRefresh(t) \/ BeginReset(t) \/ BeginStatus(t)
       \/ Advance(t) \/ Abort(t)
  \/ \E k \in Edit : VaultCreate(k)
  \/ \E r \in vault : VaultDelete(r)
  \/ Quiet \/ Wedged

Spec == Init /\ [][Next]_vars

(* The event loop resumes every coroutine whose statement has returned, and  *)
(* PostgreSQL grants a row lock in the order it was asked for.               *)
Fairness == \A t \in Tx : SF_vars(Advance(t))

FairSpec == Spec /\ Fairness

-----------------------------------------------------------------------------
(* Properties.                                                               *)

(* An archived submission points to a snapshot, and both passes that made    *)
(* the snapshot had read every row the submission inserted: the analysis the *)
(* wizard shows is of what the user just typed.                              *)
ArchivedIsAnalysed ==
  \A a \in archives : \E s \in snaps :
    /\ s.at = a.snap
    /\ {r \in vault : r[1] = a.op} \subseteq s.ladder \cap s.saw

(* computed_at is the time the transaction began, and the engine reads       *)
(* later: a snapshot misses nothing that was committed before its            *)
(* computed_at and is still there when it is stored.                         *)
NothingOlderIsMissing ==
  \A t \in Tx : req[t].pc = "store" /\ req[t].kind # "reset" =>
    (req[t].base \cap vault) \cup req[t].own \subseteq req[t].ladder \cap req[t].saw

(* GET /intake/status never says that the intake is complete without naming  *)
(* a snapshot, also when a first submission commits between its two SELECTs. *)
StatusConsistent == [completed |-> TRUE, snapshot |-> FALSE] \notin answers

(* A second user_profile row, with which status, submit, reset and every     *)
(* snapshot answer 500 from then on, takes two submissions that overlapped   *)
(* before either of them committed the first profile.                        *)
SecondProfileOnlyRaced == Cardinality(profiles) > 1 => raced

(* reset_intake: "so the user can redo the intake wizard.  Vault data is     *)
(* preserved."  A submission that found its profile reset gets its snapshot. *)
RedoWorks ==
  \A t \in Tx :
    req[t].pc = "analyse" /\ req[t].kind = "submit" /\ ~req[t].new /\ ~req[t].done
      => ~Ambiguous(t)

(* Every request gets its answer: nobody waits for a profile's lock for ever.*)
RequestsEnd == \A t \in Tx : req[t].pc # "idle" ~> req[t].pc = "idle"
=============================================================================
