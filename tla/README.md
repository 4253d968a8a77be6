# Verification of the personal CFO agent

TLA+ models of the backend in `src/`: a single-user financial adviser made of a
FastAPI application, PostgreSQL, a LangGraph agent over a language model and an
APScheduler cron. The modules model what is hard to test in it: requests that
interleave at every `await`, rows that are stale when they are used, e-mails and
commits that succeed although nobody hears of it, restarts. TLC checks each
module on a small instance; TLAPS proves the theorems listed below for every
value of the constants. `PROJECT.json` maps every definition to the lines it
stands for and lists runs, mutants, hazards, findings and theorems.

## 1. Inventory

One process (`main.py`) holds the API, the scheduler and the agent. They share
the database only. Every request handler is a coroutine with one SQLAlchemy
session (`db.get_session`): a READ COMMITTED transaction that the handler
commits explicitly, and that is rolled back by any exception and by the loss of
the connection. The exceptions are the agent's nodes and the digest, which open
several sessions of their own.

| component | state | operations | what is hard | what makes it correct |
|---|---|---|---|---|
| Weekly digest (`digest.py`, `worker/cron.py`, `routers/digest.py`) | `digest_sent_log`; the scheduler's next fire time; the e-mail in a thread | cron run, run-now, send, log, time-out, start and stop of a process | check, send and log are three steps; a thread that outlives its coroutine; missed fire times; replicas | a logged week was delivered; the cron of a process mails a week once; a delivered week is accounted for; no week is skipped unless a restart or a stall of more than the grace hour falls on its fire time; every run ends |
| Vault (`vault/crud.py`, `routers/vault.py`, `routers/holdings.py`) | about a dozen tables and `audit_log` | create, update (of foreign keys too), delete of each entity, three refreshes from market data, the inserts of the intake | load and write are apart; a row is moved to a parent that is being deleted; locks held over HTTP calls; the audit row is a second INSERT, and some writers make none | the trail, with the archived intake, tells which rows exist and is exact without races; only the intake and the price refreshes go unaudited; no orphan; no lost update; nobody waits for ever |
| Intake (`routers/intake.py`, `vault/financial_snapshot.py`) | `user_profile`, `financial_snapshots`, `intake_submissions` and the vault's rows | submit, refresh, reset, status, interview | one transaction reads a dozen tables one after another; "the" profile is looked up, not locked | what is archived was analysed; status is consistent; a second profile takes a race; redo works |
| Agent turn (`agent/`, `routers/chat.py`) | LangGraph channels; `conversations`, `messages`, `decisions` | retrieval, analyzer, four specialists in parallel, coach, tracker, alert, synthesizer, persist | fan-out and reducers; any model answer, cut off or not; failure of any node | the coach hears all; tokens add up; the mandatory disclaimer survives; every turn ends |
| Statement imports (`routers/imports.py`, `integrations/csv_import.py`) | `import_batches`, `transactions` with a unique `import_hash` | upload, category mappings | preloaded hashes go stale; overlapping uploads; account deleted meanwhile | nothing twice, nothing lost, counts right, every upload ends |
| Authentication (`auth.py`, `rate_limit.py`) | `users`; tokens at clients | register, login, bearer check | the check, a hash in a thread and the insert are three steps | nobody registers once there is a user and no first registration is under way |
| Connection pool and sessions (`db.py`) | ten connections | checkout, wait, time-out, return | a chat turn or digest run holds one and takes more | no connection is lost; only turns can starve the server, and not for ever |
| Conversation history (`routers/memory.py`, `memory/models.py`) | reads `messages` | list of messages, other lists, status of a decision | ordered by the time a transaction began; turns of two tabs commit in any order | every answered turn is there, whole, and in causal order |
| Ladders (`vault/wealth_position.py`, `vault/income_position.py`, `routers/wealth.py`) | none; `financial_snapshots` store their steps | twenty SELECTs; endpoints, digest, snapshot and chat derive a step | edits between the SELECTs; tables that cannot be decrypted; stored steps that go stale | every consumer names the lowest unmet step |
| Encryption (`crypto.py`) | keys, cached per process | encrypt, decrypt, rotation | rotation over several deployments | every row stays readable |
| Scenario engine (`scenarios/`) | none | a projection month by month | decimal arithmetic | its numbers |
| Market and property data (`integrations/`) | none | HTTP lookups | partial failure | part of Vault's refreshes |
| Web pages, migrations, scripts, wiring | browser state | | | see section 8 |

## 2. Plan

Order: what loses or falsifies the user's data first.

1. *Done, models:* `Digest` with the abstract `DigestLedger`; `Vault` with the
   abstract `SerialVault`; `Intake`; `AgentTurn`; `Import` with the abstract
   `SerialImport`; `Server`, which composes `ConnPool`, `Accounts` and
   `Conversation`; `Positions`.
2. *Done, proofs:* `DigestProofs`, `ImportProofs` and `VaultProofs` (each with
   its refinement), `AgentTurnProofs`, `ServerProofs`, `HistoryProofs`,
   `IntakeProofs`, `PositionsProofs`. Every safety property of a passing run is a
   theorem.
3. *Left:* key rotation, should its re-encryption get code.

Runs are kept to one per question: a module has one passing run with its safety
and liveness properties, and one run for a statement of the documentation that
the code contradicts. Section 7 also names
disagreements that have no run.

## 3. Modules and code

**`Digest`** follows `generate_and_send_digest` and the job that
`get_scheduler` adds. A *run* is a process and a slot (`cron`, of which
`max_instances` allows one, or a run-now request). `Submit` and `Misfire` are
the scheduler waking up inside and outside `misfire_grace_time`, `Skip` and
`StartSend` the check, `Deliver`, `DeliverUnconfirmed` and `SendFails` the SMTP
thread, `MarkSent` and `MarkFails` the insert, `Timeout` is `wait_for`, `Down`
and `Start` a crash or deployment. Time is the ISO week and three phases of it.
The history variables `cronSent`, `manualSent`, `fired` and `lost` record what
the outside world saw. `DigestLedger` is what the table promises: a week goes
from *none* to *delivered* to *logged* and never back; `LedgerSpec` says that
`Digest` implements it under the mapping `LedgerStatus`.

**`Vault`** uses that all entities have the same handlers: a row is an id with
columns, some of which (`Key`) are foreign keys. `Target` says which rows a key
may refer to and whether it may be NULL; which row it does refer to is a column
like any other, which `POST` sets and `PATCH` may change (`vault/schemas.py:72`,
139-140, 427, 537, 566). `Create` is a flushed INSERT, `Load` is `session.get`,
`Write` the `setattr` loop with its flush and `write_audit_log`, `Remove` the
delete, `Commit` and `Rollback` the end. A write takes the locks it needs at
once (`Needs`): its row's, and a key share on each row that a key it sets refers
to. `WriteStale`, `WriteRefused` and `RemoveRefused` are the ways it fails: the
row is gone, the new parent is gone or missing, the row has children. `Intake`
is what `submit_intake` inserts, without an audit row: any set of new rows, with
keys only to rows it inserts itself. The refreshes write several rows in one
transaction. `LoadProperties` takes an estimate for each address, or none, and
goes through `crud.update_real_estate`; `ListTickers` and `UpdateTicker` take a
price for one ticker after another, or skip it, and write all its holdings with
one UPDATE, which audits nothing (which rows have the ticker is left open: it is
not among the columns). They go in the order of the tickers in the code and in
any order in the model. Row locks and foreign keys are PostgreSQL's, restricted
to the modes these statements take (`Conflict`).
`SerialVault` is what the user may expect who does one thing at a time: each
request is one step that finds the rows as they are and logs what it does (which
the intake and the price refreshes do not).
`SerialUnlessRaced` says that `Vault` implements it at every commit whose rows
were not *raced*, that is, committed while another request had loaded, written or
noted them; it may be any other row that its request refers to, or that refers
to its rows, which others work on.

**`Intake`** has a row as the request that inserted it and its kind.
`BeginSubmit`, `Save`, `ReadLadders`, `Analyse` and `Store` are the stages of
`submit_intake` between its awaits; `refresh`, `reset` and `status` are beside
it. `Ambiguous` is `MultipleResultsFound` in the engine.

**`AgentTurn`** is one turn. `Return` collects the update of a node, `Barrier`
applies the reducers (`Merged`, `SumTokens`) and the edges (`After`, `Route`).
A model's answer is any value its tool schema allows. Scores, prompts and texts
are left out; a call costs one token, which is enough to tell whether any
node's usage is lost or counted twice.

**`Import`** has a slot per upload, which goes through *parse*, *hashes* and
*insert* while other uploads and `DELETE /accounts` go on. An `INSERT` of a hash
that another open transaction inserted waits for it (`Waits`); two that wait for
each other are a deadlock, of which PostgreSQL ends one (`Victim`). The loop
that filters lines has no `await`, so it is taken along with the inserts, line
by line; `seen_hashes` is then what the upload has inserted. `SerialImport` is
what the endpoint promises: an upload is one step, which stores the lines its
account does not have yet with a batch that counts them, and an account goes
only while no batch refers to it. `SerialSpec` says that `Import` implements it;
the commit is the step.

**`Server`** is one process and the requests it works on. It composes three
modules, each of which owns its variables and offers its operations. `ConnPool`
is SQLAlchemy's pool: a session *wants* a connection at its first statement,
gets it in `Checkout`, gives it back in `Return`, `Requeue` (a commit followed
by `session.refresh`) or `Drop` (the end of the request). `Accounts` is table
`users` and the tokens given out. `Conversation` is table `messages`: `Ask` and
`Answer` are the two ends of a question at its client, `BeginTurn` the moment
that `created_at` records, `SaveTurn` the commit of `persist_node`, `List` the
SELECT of `list_messages`. A request is a record `job[r]`: the stage of its
handler between two awaits, and what it carries. `Register` ... `Health` are the
arrivals; `RegisterCheck`, `RegisterCommit`, `RegisterReply`, `LoginLookup`,
`LoginReply`, `Authenticate`, `ReadMessages` and `Ping` the handlers; `OpenNode`,
`CloseNode` and `OpenPersist` what a chat turn or the digest does while the
session of `get_current_user` keeps its connection. `Fail` is any exception at
any stage, `Crash` the loss of the process. Crashes need no bound: nothing
counts them, and they lead to states in which every request has failed.

**`Positions`** has the twenty SELECTs of the two ladders as one step each
(`Select`), with `Edit`, the commit of another handler, before or between them.
`WealthGates` and `IncomeGates` are the gates; `Answer` is what the five
consumers make of them: three endpoints, the digest and the snapshot take the
first gap (`StepOf`), the chat context does so twice, once from the live
position and once for the snapshot in its prompt (`SnapshotStepOf`). `Raise` is
a table that cannot be decrypted: `build_retrieval_context` goes on with an
empty position, all others fail. `Worth` and `Lowest` are the reference
definitions, on a vault instead of on what SELECTs returned.

The `MC*` modules only instantiate these; the values are in the `.cfg` files.

## 4. Runs, bounds and what they show

| run | instance | shows |
|---|---|---|
| `digest` | 2 processes, 1 request slot, 2 weeks, 1 run-now, 1 crash | `CronOncePerWeek`, `DeliveredIsAccountedFor`, `NoSilentSkip`, `RunsEnd`, and the refinement `LedgerSpec` |
| `digest_duplicate` | 1 process, run-now | violation: cron and run-now overlap and both mail the week |
| `digest_restart` | 1 process, 1 restart | violation: a restart in the grace hour skips the week |
| `vault` | 2 rows that keys refer to, 2 holdings with a key (one NOT NULL, one not), a second column of 2 values, 2 requests at once, 3 in all, every handler among them | `LifecycleAudited`, `NoOrphans`, `SerialTrailIsExact`, `MutationsAudited`, `NoColumnReverted`, `SerialUnlessRaced`, `RequestsEnd` with deadlocks |
| `vault_unaudited` | 1 row, 2 requests | violation: the intake inserts rows whose creation is not logged |
| `intake` | 2 requests at once, 3 in all, edits of both kinds of row | `ArchivedIsAnalysed`, `NothingOlderIsMissing`, `StatusConsistent`, `SecondProfileOnlyRaced`, `RequestsEnd` |
| `intake_redo` | 1 request at once | violation: submit, reset, submit fails |
| `agent_turn` | the tax specialist and another one, all answers | `CoachHearsAll`, `TokensAccounted`, `DisclaimerKept`, `TurnEnds` |
| `agent_disclaimer` | the same | violation: a mandatory disclaimer is lost in the coach |
| `import` | 1 account, files of up to 2 of 2 lines, 2 uploads at once, 3 in all | `StoredOnce`, `NothingLost`, `SerialSpec`, `RefusedOnlyIfRaced`, `UploadsEnd` |
| `server` | 3 requests at once and in all, 2 connections, 2 names, 2 questions, 1 node session per turn, any failure and crash | `PoolAccounted`, `StarvedOnlyByTurns`, `RegistrationCloses`, `HistoryIsCausal`, `RequestsEnd` |
| `positions` | an empty vault and one that meets every gate by a hair, one to three other contents per table (an overpaid debt among them), 2 edits, 2 tables that may be unreadable | `QuietReadIsExact`, `BetweenIfImproving` |

Why the bounds are enough. The races here are between two actors: two of every
kind of request, process or upload at once, and one more afterwards (a third
operation that meets what the race left behind), reach every conflict the code
can have; the hazards list says which lines they are. Two weeks let a run cross
a week's end and a week be skipped for another. Two columns are needed for a
column to be reverted by the PATCH of another. Two rows that a key may refer to
let a PATCH move a holding to one that a DELETE is removing; two properties and
two holdings make a refresh a batch, of which one row is stale or missing, and
let two of them deadlock. The rows of the instance do what rows of several tables do
(1 and 2 are referred to and have estimates, 3 and 4 have prices, and a key that is
NOT NULL or not), so it has the behaviours of each table. Three requests are an
intake that inserts the rows and two that race for them. Two lines in a file are needed
for a duplicate in the file, for an overlap and for opposite orders. Two
specialists are needed for two updates in one superstep, and one of them must be
the one with the forced disclaimer. On a pool of two connections two turns
starve each other and a third request with them, and one turn cannot; two
registrations race and a third comes too late; two turns of a conversation
commit in either order while a list is read. Two edits make up a vault that
never was out of two that were, and the vault that meets every gate by a hair
puts each comparison at its boundary. Every property has a mutant: a plausible
bug in a mapped definition under which TLC finds the property violated in the
same instance, so none of these bounds is too small for its property.

Each counter (`MaxWeek`, `MaxManual`, `MaxDown`, `MaxOps`, `MaxUploads`,
`MaxLines`, `MaxRequests`, `MaxTurns`, `MaxEdits`) is a bound of the model and not of the code; the actions `Horizon`,
`Idle`, `Quiet`, `Wedged` and `Over` stutter where it is used up or the turn is
over, so deadlock is checked in those runs. `server` and `positions` stop when
their requests or edits are used up and the answer is given, and have no such
action: there the deadlock check is off. That no request of `Server` waits for
ever is `RequestsEnd`.

## 5. Fairness

* `Digest`: the clock goes on, the scheduler wakes up, a ready coroutine runs,
  and a thread ends by its 30 s socket timeout (`SendFails`). The mail server
  owes nothing; run-now need not be called; processes need not start again.
* `Vault`: a handler is resumed when its statement returns, and a price or an
  estimate comes or times out within 15 s (`integrations/`) (`WF` on `Commit`);
  a statement that waits for a row lock gets it when it is free often enough
  (`SF` on `Step`, PostgreSQL's lock queue); the deadlock detector runs (`Victim`).
* `Intake`, `Import`: the same, as strong fairness of `Advance`.
* `AgentTurn`: every node returns or raises, because the clients have timeouts
  and at most three attempts (`clients.py`) and the database driver raises when
  a connection is lost.
* `Server`: a handler that has its connection goes on (`WF` on `Handle`:
  model calls and mails have time-outs; queries have none in `db.py`, so it is
  assumed that PostgreSQL answers them), and a request that waits for a
  connection gives up after the pool's timeout, SQLAlchemy's default of 30 s (`WF`
  on `TimesOut` and `Fail`). That the pool serves its waiters in any order, or that anything else
  fails, is not assumed.
* `Positions` has no liveness property.

## 6. What is proved

*Assumptions.* `BoundsAssumption` and `RequestAssumption` (the bounds are
numbers, the name `cron` is no request slot) for `Digest`; `ImportAssumption`
(there is an account, the bounds are numbers) for `Import`;
`SpecialistAssumption` (the specialists are a finite set that does not contain
the other nodes, and the tax specialist is one of them) for `AgentTurn`;
`PoolAssumption` and `ServerAssumption` (finitely many request slots, at least
one connection, bounds are numbers) for `Server`; `IntakeAssumption` (the bound
is a number, what can be edited is a kind of row) for `Intake`;
`VaultAssumption` (foreign keys are columns whose values are rows or none, the
price is no foreign key, *absent* is not a row's content, an answer to the intake
gives each row an image, properties and holdings are rows) for `Vault`;
`PositionsAssumption` (a table has finitely many rows, amounts are whole numbers,
in cents say, or missing) for `Positions`. TLC evaluates them.

**`DigestProofs`**: `TypeCorrect`, `CronOnce`, `LoggedIsDelivered`,
`NothingUnaccounted` (`DeliveredIsAccountedFor`), `ImplementsLedger`
(`LedgerSpec`) and `NoWeekPassedOver` (`NoSilentSkip`), for any number of
processes, requests, weeks and crashes. (`LoggedIsDelivered`, that a week in the
log was mailed, is not run by itself: `LedgerSpec` has it in its steps.) That one process's cron mails
a week at most once is not inductive, because whether another run for the week
can start depends on the fire time, which a restart computes afresh from the
clock. The strengthening `OnceInv`: a week that is still *ahead* of a process
(its fire time is not past the week, or the clock is before the week's grace
hour) is one its cron has neither mailed nor is working on, and a run that is
working on a week has not mailed it. For `LoggedIsDelivered` the strengthening
`EvidenceInv` adds that a run at *mark* has delivered its week. The refinement
rests on the same invariant: `StepKind` says that a step is silent, or one
e-mail is accepted, or one sender logs its week, and `LedgerStep` that the
status of one week then moves along its life, since whoever logs a week has
delivered it. For `NoWeekPassedOver`, `ScheduleInv` says what the fire times
look like in each phase as long as nothing has crashed.

**`ImportProofs`**: `TypeCorrect`, `NoDoubleImport` (`StoredOnce`),
`ImportComplete` (`NothingLost`), `RefusalMeansRace` (`RefusedOnlyIfRaced`),
`UploadsSerializable` (`SerialSpec`) and `BatchCounts`, for any number of uploads at once, of accounts
and lines. The inductive invariant `IInv` has a part about each upload alone
(`Bookkeeping`: the lines it is past are stored or inserted, and it has inserted
fewer hashes than it has come lines), one that relates it to the tables
(`AgainstTables`: what it thinks is stored is stored, what it inserted is not,
and unless it raced it knows everything of its account), and one that relates
two uploads (`Apart`: they inserted different hashes, and one that is not marked
as raced is alone). `BInv` adds for the counts that upload numbers are unique
and that rows point to stored batches. Each action has a lemma. The refinement
rests on one more fact, `FromFile` (an upload inserts hashes of its own file
only): with `Bookkeeping` and `AgainstTables` it follows that at its commit an
upload has inserted just what its file has and the table has not *at that
moment* (`InsertedIsNew`), though it looked earlier, so that the commit is one
`Upload` of `SerialImport` and every other step of an upload a stutter. That a
batch counts the rows that point to it (`BatchCounts`) is not run by itself:
`SerialSpec` has the count in its steps.

**`AgentTurnProofs`**: `TypeCorrect`, `CoachWaits` (`CoachHearsAll`),
`TokensAddUp` (`TokensAccounted`) and `DisclaimerReaches` (`DisclaimerKept`), for
any set of specialists. The inductive invariant `IInv` describes a superstep in
progress: which nodes can be active together (`Shape`), what the analyzer has
chosen and who of them has been heard (`Choice`), that the tokens stored and
those of the updates still to be merged are all that were spent (`Spending`; the
sum over parallel updates is what makes it an invariant about finite sets and
not about a counter), and where a required disclaimer is at each stage (`Flags`).

**`ServerProofs`**: `TypeCorrect`, `NoConnectionLost` (`PoolAccounted`),
`FewTurnsNeverStarve` (`StarvedOnlyByTurns`) and `RegistrationStaysClosed`
(`RegistrationCloses`), for any number of requests and any size of the pool.
`IInv` says per request which of its two sessions may hold or want a connection
at each stage (`SessionsOK`). If all connections are held by requests that wait,
each of these holds exactly one, its own, and waits for its node's, so it is a
turn; there are as many of them as connections.

**`HistoryProofs`**: `HistoryInOrder` (`HistoryIsCausal`) on top of it. `HInv`
relates the rows to the questions (`RowsOK`: both messages of a turn, in one
conversation), the last list to the answers that were out when it was asked for
(`ListOK`), and the turn a request works on to both (`JobHist`). The point of
the proof is that a question asked after an answer was seen begins its
transaction after that answer's, although turns commit in any order.

**`IntakeProofs`**: `TypeCorrect`, `SubmissionIsAnalysed` (`ArchivedIsAnalysed`),
`SnapshotIsComplete` (`NothingOlderIsMissing`), `StatusIsTrue`
(`StatusConsistent`) and `OneProfile` (`SecondProfileOnlyRaced`), for any number
of requests at once and in all. `IInv` has a part about each request alone
(`Plain`), one that relates it to the tables (`Against`: what it has read so far
contains what was there when it began, its own rows included, unless they were
deleted; the profile it found is still there), one about two requests (`Apart`:
two that both bring a profile are marked as raced) and one about the tables.

**`VaultProofs`**: `TypeCorrect`, `TrailAndIntakeTellWhichRowsExist`
(`LifecycleAudited`), `ForeignKeysHold` (`NoOrphans`), `ColumnsAreTheBodys`
(`NoColumnReverted`), `OnlySeedsAndPricesGoUnaudited` (`MutationsAudited`),
`TrailIsExactWithoutRaces` (`SerialTrailIsExact`), `SerializableUnlessRaced`
(`SerialUnlessRaced`) and `UnracedVaultIsSerial`; for any rows, columns, values,
foreign keys, intake answers and any number of requests. What a request has
written is not yet visible, so the properties are not inductive. `IInv` adds:
`WriteOK`, that each write is backed by an entry with the values it sets and by
locks: an update or delete by the lock on its row, and a row that is inserted, or
moved by a PATCH, by what keeps the rows its new keys refer to (`KeysOK`,
`Anchored`: a key share, or the same request inserts them); `EntryOK`, the converse;
`TodoOK`, that a row still to be written was created and logged or inserted by
the intake, and has no entry yet; `IdsOK`, that ids are used once; and `LocksOK`, that no two
requests hold conflicting locks. A
commit disturbs nobody's writes: whoever it would disturb holds a lock that
conflicts. `TrailIsExactWithoutRaces` needs to know what a request has loaded,
and `JInv` adds it for the rows that are *quiet* (no two requests worked on them
at once): the copy a request holds is the row as it is committed (`CopyOK`), its
entries are one per row (`NotedOnce`), and each leads from the committed row to
what the write makes of it (`NotedTrue`). The image a trail leaves of a row is
then reached without recursion: `LeftBy` says that an image is the one the first
n entries leave of the image the row started from (nothing, or what the intake
inserted), and appending at most one entry per row, each leading from the old
image to the new, keeps this. The refinement needs a third invariant, `PInv`,
about each kind of request by itself: it works on one row and has one entry for
it (`OneRow`), or on properties or holdings and sets only their price
(`PricesOnly`), or inserts a vault whose keys are its own (`SeedOK`), and each
entry says what its kind does (`EntryLeads`). With `JInv`, the entries of a
commit whose rows were not raced lead from the rows of that moment to those it
leaves, a row without an entry stays, and `WriteOK` has the rest of what
`SerialVault` asks for: a new row's id is new and the rows its keys refer to are
there, as are those a PATCH sets, and a deleted row has no children.
`UnracedVaultIsSerial` says it of whole histories: if no row is ever raced,
`Vault` implements `SerialVault`.

**`PositionsProofs`**: `TypeCorrect`, `QuietAnswersAreExact` (`QuietReadIsExact`)
and `AnswersLieBetween` (`BetweenIfImproving`), for any tables, rows and amounts
and any number of edits; and two facts about the ladders themselves,
`StepIsLowest` (the first of the gaps collected one after the other is the lowest
step not met, for a ladder of any length) and `NetWorthSums` (assets less debts,
each summed over its SELECTs, is what the rows are worth table by table). The
last two are about recursive functions. The library states induction with an
operator as a parameter; here it is the lemma `Induction`, that a set of numbers
with 0 and with n + 1 beside n has them all, from the least element of a set of
numbers (`Least`). Sums and lists of gaps are then solutions of their equations
on the sets (the steps) counted so far (`SumExists`, `ListsExist`). The inductive
invariant `IInv` says of a computation under way what it has read and which
ladder it has built (`Reading`), that without edits it has read the vault
(`Fresh`), and that while edits only improve what it has read lies, measure by
measure, between the vault at its start and the vault (`Bounded`). It lies there
although no vault with all of it need have existed; that a gate met by less is
met by more (`GatesMonotone`) makes the step lie in between.

*Only model-checked.* All liveness (`RunsEnd`, `RequestsEnd`, `TurnEnds`,
`UploadsEnd`): fairness and `ENABLED` are out of the prover's reach. The
violations of section 7 are counterexamples, which TLC finds and nothing proves.

## 7. What the code does not keep

The violation runs show disagreements between the code and what the repository
says about it (`PROJECT.json`, findings, has the lines): the digest's cron can
send a second e-mail for a week; a restart near 07:00 skips the week; the intake
wizard cannot be redone by a user with a career position; the coach can clear a
disclaimer flag that a specialist forced; the intake inserts rows without an audit
entry, where `docs/THREAT_MODEL.md:63` asks to audit every mutation
(`CreationsLogged`).

Further things the models have, without a run of their own:

* `refresh_all_prices` and `refresh_single_price` (`routers/holdings.py`) commit
  without `write_audit_log` as well (`Unaudited` in `Vault`). `MutationsAudited`
  therefore excepts exactly two kinds of change: the rows the intake inserts
  (`Seeded`), and the price of a holding, and nothing else of it, at the end of a
  refresh (`Repriced`). So the trail alone does not tell which rows exist; with
  the intake's insertions it does (`LifecycleAudited`).
* A high-interest debt that was overpaid (a negative balance, which
  `vault/schemas.py` accepts) keeps step 2 unmet, since its gate asks for a sum of
  exactly zero (`vault/wealth_position.py:157`). `BetweenIfImproving` therefore
  counts a debt as better the nearer it is to zero (`AbsOf` in `Positions`).
* When a position cannot be computed, `build_retrieval_context`
  (`memory/retrieval.py:55`) goes on with an empty one, which the prompt then
  presents as the last step with all gates met; `docs/CONTRACTS.md:147` defines
  the position as the lowest step whose gate is unmet (`Raise` in `Positions`).
* Two first registrations that are both past the check are both stored
  (`auth.py:4` promises one user), and `register` can answer 500 after its
  commit, when `refresh` gets no connection (`auth.py:106`). The user can log in.
* Net worth and ladders are computed from SELECTs that may see different
  vaults, and a stored snapshot's steps are not renewed by later edits.
* The two messages of a turn have the same `created_at`, so the database decides
  which of them `list_messages` returns first.

## 8. What is not modelled, and why

* Amounts outside the gates, texts, prompts, scores, rendering and the formats
  of statements: no property is about them, and the conversions keep no state.
* The `/intake` interview and extraction endpoints and the property lookups:
  calls to a service without state of our own.
* The category mappings: two inserts and a delete that only decide a label.
* The lists of conversations, decisions and patterns, and the PATCH of a
  decision's status: one SELECT or one UPDATE of a row nobody else writes.
* The scenario engine: a pure projection in decimal arithmetic. What matters in
  it is its numbers, which a model of small integers does not reproduce.
* Key rotation: the re-encryption it needs between two deployments is done by an
  operator and has no code. `Positions` has what readers do with a cell that no
  configured key decrypts.
* Migrations: a linear order that Alembic keeps, run once per deployment.
  Scripts: command-line checks of the repository. Web pages: forms and charts
  over the API, except the two ends of a question in the chat page
  (`Conversation`).
* A third transaction that waits in a longer cycle of row locks: with two
  requests at once every deadlock is a pair.
