-------------------------------- MODULE Import --------------------------------
(***************************************************************************)
(* Statement uploads: POST /imports/transactions (routers/imports.py) with   *)
(* the content hash of integrations/csv_import.py, and DELETE /accounts,     *)
(* which races it.                                                           *)
(*                                                                           *)
(* An upload is one READ COMMITTED transaction: it looks for the account,    *)
(* parses the file, inserts the batch row, reads the hashes the account      *)
(* already has, and inserts the lines that are new to it.  The partial       *)
(* unique index on import_hash is PostgreSQL's: an INSERT of a hash that     *)
(* another open transaction has inserted waits for that transaction.         *)
(* A line is what compute_hash looks at besides the account (date, amount as *)
(* written, description); the categories are left out.                       *)
(***************************************************************************)
EXTENDS Naturals, FiniteSets

CONSTANTS
  Tx,          \* uploads that can be in progress at the same time
  Account,
  Line,        \* the lines a statement may have
  MaxLines,    \* bound: the lines of a file
  MaxUploads   \* bound: uploads in all; an upload's number is its batch id

ASSUME ImportAssumption == Account # {} /\ MaxLines \in Nat /\ MaxUploads \in Nat

Batch == 1 .. MaxUploads
File == UNION {[1 .. n -> Line] : n \in 0 .. MaxLines}   \* what the parsers return
Hash == Account \X Line

VARIABLES
  accounts,   \* committed rows of accounts
  batches,    \* committed import_batches: [id, account, row_count]
  rows,       \* committed transactions: [batch, hash]
  up,         \* per slot: the upload in progress
  uploads,    \* counter: uploads so far
  whole,      \* history: the hashes of the files of the committed uploads
  refused     \* history: uploads the unique index refused, and whether they raced

vars == <<accounts, batches, rows, up, uploads, whole, refused>>
tables == <<accounts, batches, rows>>

\* lines: the file; next: the line it has come to; known: the preloaded hashes;
\* own: hashes inserted; raced: did another upload overlap this one?
Idle == [pc |-> "idle", id |-> 0, acct |-> CHOOSE a \in Account : TRUE, lines |-> <<>>,
         known |-> {}, next |-> 1, own |-> {}, raced |-> FALSE]

Upload == [pc : {"idle", "parse", "hashes", "insert"}, id : Batch \cup {0},
           acct : Account, lines : File, next : 1 .. MaxLines + 1,
           known : SUBSET Hash, own : SUBSET Hash, raced : BOOLEAN]

TypeOK ==
  /\ accounts \in SUBSET Account
  /\ batches \in SUBSET [id : Batch, account : Account, row_count : 0 .. MaxLines]
  /\ rows \in SUBSET [batch : Batch, hash : Hash]
  /\ up \in [Tx -> Upload]
  /\ uploads \in 0 .. MaxUploads
  /\ whole \in SUBSET Hash
  /\ refused \in SUBSET [id : Batch, raced : BOOLEAN]

Init ==
  /\ accounts = Account /\ batches = {} /\ rows = {}
  /\ up = [t \in Tx |-> Idle]
  /\ uploads = 0 /\ whole = {} /\ refused = {}

Open(t) == up[t].pc # "idle"

\* The batch row that is inserted and not committed holds a KEY SHARE lock on
\* its account.
HoldsAccount(t, a) == up[t].pc \in {"hashes", "insert"} /\ up[t].acct = a

Stored == {r.hash : r \in rows}

End(t) == up' = [up EXCEPT ![t] = Idle]

-----------------------------------------------------------------------------
(* import_transactions.                                                      *)

(* The account is there (else 404), and the file arrives.                    *)
Start(t, a, lines) ==
  /\ ~Open(t)
  /\ uploads < MaxUploads
  /\ a \in accounts
  /\ uploads' = uploads + 1
  /\ LET alone == \A u \in Tx \ {t} : ~Open(u) IN
     up' = [u \in Tx |->
       IF u = t THEN [Idle EXCEPT !.pc = "parse", !.id = uploads + 1, !.acct = a,
                                  !.lines = lines, !.raced = ~alone]
       ELSE [up[u] EXCEPT !.raced = Open(u)]]
  /\ UNCHANGED <<tables, whole, refused>>

(* Parsed in a thread; a file that cannot be parsed or is too long is a 422. *)
Unparsable(t) ==
  /\ up[t].pc = "parse"
  /\ End(t)
  /\ UNCHANGED <<tables, uploads, whole, refused>>

(* The flush of the batch row, whose foreign key locks the account.          *)
InsertBatch(t) ==
  /\ up[t].pc = "parse"
  /\ up[t].acct \in accounts
  /\ up' = [up EXCEPT ![t].pc = "hashes"]
  /\ UNCHANGED <<tables, uploads, whole, refused>>

(* The account was deleted since: IntegrityError, a 500.                     *)
AccountGone(t) ==
  /\ up[t].pc = "parse"
  /\ up[t].acct \notin accounts
  /\ End(t)
  /\ UNCHANGED <<tables, uploads, whole, refused>>

ComputeHash(a, l) == <<a, l>>

ReadHashes(t) ==
  /\ up[t].pc = "hashes"
  /\ up' = [up EXCEPT ![t].pc = "insert",
                      ![t].known = {h \in Stored : h[1] = up[t].acct}]
  /\ UNCHANGED <<tables, uploads, whole, refused>>

\* The line the upload has come to.
More(t) == up[t].next \in DOMAIN up[t].lines
HashNow(t) == ComputeHash(up[t].acct, up[t].lines[up[t].next])

\* In existing_hashes or in seen_hashes.  The loop that filters does not await,
\* so it may as well go along with the inserts: what it has seen is what the
\* upload has inserted.  The mutant forgets seen_hashes.
KnownBefore(t) == HashNow(t) \in up[t].known
Known(t) == HashNow(t) \in up[t].known \cup up[t].own

\* `continue`; the mutant breaks off the loop.
LoopEnds(t) == MaxLines + 1
NextLine(t) == up[t].next + 1

SkipLine(t) ==
  /\ up[t].pc = "insert" /\ More(t)
  /\ Known(t)
  /\ up' = [up EXCEPT ![t].next = NextLine(t)]
  /\ UNCHANGED <<tables, uploads, whole, refused>>

\* The INSERT of a hash waits while another open transaction has inserted it.
\* The mutant checks the index against what is committed only.
NeverWaits(t) == FALSE
Waits(t) == \E u \in Tx \ {t} : HashNow(t) \in up[u].own

\* The unique index has the hash.  The mutant is without the index.
NeverTaken(t) == FALSE
Taken(t) == HashNow(t) \in Stored \cup up[t].own

InsertRow(t) ==
  /\ up[t].pc = "insert" /\ More(t)
  /\ ~Known(t) /\ ~Waits(t) /\ ~Taken(t)
  /\ up' = [up EXCEPT ![t].next = @ + 1, ![t].own = @ \cup {HashNow(t)}]
  /\ UNCHANGED <<tables, uploads, whole, refused>>

(* Unique violation: IntegrityError, a 500, and nothing of the file stays.   *)
Duplicate(t) ==
  /\ up[t].pc = "insert" /\ More(t)
  /\ ~Known(t) /\ ~Waits(t) /\ Taken(t)
  /\ refused' = refused \cup {[id |-> up[t].id, raced |-> up[t].raced]}
  /\ End(t)
  /\ UNCHANGED <<tables, uploads, whole>>

\* batch.row_count = inserted; the mutants leave what the batch began with,
\* and add to it.
RowsParsed(t) == Cardinality(DOMAIN up[t].lines)
RowsAdded(t) == RowsParsed(t) + Cardinality(up[t].own)
RowCount(t) == Cardinality(up[t].own)

(* The audit row of the batch, and the commit.                               *)
Commit(t) ==
  /\ up[t].pc = "insert" /\ ~More(t)
  /\ batches' = batches \cup
       {[id |-> up[t].id, account |-> up[t].acct, row_count |-> RowCount(t)]}
  /\ rows' = rows \cup {[batch |-> up[t].id, hash |-> h] : h \in up[t].own}
  /\ whole' = whole \cup {<<up[t].acct, up[t].lines[i]>> : i \in DOMAIN up[t].lines}
  /\ End(t)
  /\ UNCHANGED <<accounts, uploads, refused>>

(* The connection or the process is lost.                                    *)
Abort(t) ==
  /\ Open(t)
  /\ End(t)
  /\ UNCHANGED <<tables, uploads, whole, refused>>

\* Two uploads that wait for each other: PostgreSQL ends one of them.  (The
\* mutant has no deadlock detection.)
NeverStuck(t) == FALSE
Stuck(t) == up[t].pc = "insert" /\ More(t) /\ ~Known(t) /\ Waits(t)

Victim(t) ==
  /\ Stuck(t) /\ \E u \in Tx \ {t} : Stuck(u)
  /\ End(t)
  /\ UNCHANGED <<tables, uploads, whole, refused>>

-----------------------------------------------------------------------------
(* DELETE /accounts: refused while a batch refers to the account, and waits  *)
(* for the uploads that have inserted theirs.                                *)
Unreferenced(a) ==
  /\ \A b \in batches : b.account # a
  /\ \A t \in Tx : ~HoldsAccount(t, a)

DeleteAccount(a) ==
  /\ a \in accounts
  /\ Unreferenced(a)
  /\ accounts' = accounts \ {a}
  /\ UNCHANGED <<batches, rows, up, uploads, whole, refused>>

Quiet == (uploads = MaxUploads \/ accounts = {}) /\ (\A t \in Tx : ~Open(t)) /\ UNCHANGED vars

Advance(t) ==
  \/ Unparsable(t) \/ InsertBatch(t) \/ AccountGone(t) \/ ReadHashes(t) \/ SkipLine(t)
  \/ InsertRow(t) \/ Duplicate(t) \/ Commit(t) \/ Victim(t)

Next ==
  \/ \E t \in Tx :
       \/ \E a \in Account, lines \in File : Start(t, a, lines)
       \/ Advance(t) \/ Abort(t)
  \/ \E a \in Account : DeleteAccount(a)
  \/ Quiet

Spec == Init /\ [][Next]_vars

(* The event loop resumes every upload whose thread or statement returned.   *)
Fairness == \A t \in Tx : SF_vars(Advance(t))

FairSpec == Spec /\ Fairness

-----------------------------------------------------------------------------
(* Properties.                                                               *)

(* docs/issues.md 4c: no transaction is stored twice, whether its file is    *)
(* uploaded again, overlaps another one, or both are uploaded at once.       *)
StoredOnce == \A r, s \in rows : r.hash = s.hash => r = s

(* An upload that was answered with 201 has stored every line of its file,   *)
(* by itself or by an earlier upload: filtering loses nothing.               *)
NothingLost == whole \subseteq Stored

(* A batch counts the rows that point to it, and belongs to an account that  *)
(* is there, also when the account is deleted during the upload.             *)
BatchesRight ==
  \A b \in batches :
    /\ b.row_count = Cardinality({r \in rows : r.batch = b.id})
    /\ b.account \in accounts

(* The preloaded hashes and seen_hashes catch every duplicate unless another *)
(* upload is in progress: the unique index (a 500) is only for races.        *)
RefusedOnlyIfRaced == \A r \in refused : r.raced

(* Uploads are serializable although each reads the hashes first and inserts  *)
(* later, under READ COMMITTED: what a committed upload leaves is what it     *)
(* would have left, had it run by itself at the moment of its commit.         *)
Serial == INSTANCE SerialImport
SerialSpec == Serial!Spec

(* Every upload gets its answer, also when two wait for each other's rows.   *)
UploadsEnd == \A t \in Tx : Open(t) ~> ~Open(t)
=============================================================================
