------------------------------- MODULE Digest -------------------------------
(***************************************************************************)
(* The weekly digest: digest.py (generate_and_send_digest), the APScheduler *)
(* cron of worker/cron.py, the POST /digest/run-now handler, and the       *)
(* digest_sent_log table all of them share.                                *)
(*                                                                         *)
(* A server process runs one cron job (max_instances = 1) and serves any   *)
(* number of run-now requests.  Every run is a coroutine that looks at the *)
(* log, hands the e-mail to a worker thread, and writes the log row only   *)
(* when the thread has returned.  What the e-mail says is left out.        *)
(*                                                                         *)
(* Time is the ISO week and three phases of it: "early" is Monday before   *)
(* 07:00 UTC, "grace" the misfire_grace_time hour that starts at 07:00,    *)
(* "rest" everything after it.                                             *)
(***************************************************************************)
EXTENDS Naturals, FiniteSets

CONSTANTS
  Proc,       \* server processes (replicas of the app container)
  Request,    \* slots for concurrent /digest/run-now requests of a process
  MaxWeek,    \* bound: the number of weeks looked at
  MaxManual,  \* bound: how many times /digest/run-now is called in all
  MaxDown     \* bound: how many times a process crashes or is redeployed

ASSUME BoundsAssumption ==
  /\ MaxWeek \in Nat \ {0}
  /\ MaxManual \in Nat
  /\ MaxDown \in Nat

ASSUME RequestAssumption == "cron" \notin Request

Week == 1 .. MaxWeek

\* One cron slot per process, because max_instances is left at its default 1.
Run == Proc \X (Request \cup {"cron"})
IsCron(r) == r[2] = "cron"
CronRun(p) == <<p, "cron">>

\* "check": started, the log not read yet.  "send": the thread has the e-mail.
\* "mark": the thread returned, the log row not committed.  "orphan": wait_for
\* cancelled the coroutine, the thread goes on.
PC == {"idle", "check", "send", "mark", "orphan"}

VARIABLES
  week, phase,  \* the clock
  up,           \* the processes that are running
  due,          \* the week of the cron job's next_run_time, per process
  pc, wk,       \* per run: where it is, and its year_week
  carried,      \* runs in flight when the phase last changed
  logged,       \* the weeks that have a digest_sent_log row
  cronSent,     \* history: e-mails the cron of each process got delivered
  manualSent,   \* history: e-mails run-now got delivered
  fired,        \* history: the weeks some scheduler submitted its job
  lost,         \* history: weeks with an e-mail whose sender never logged it
  manuals,      \* counter: run-now calls so far
  downs         \* counter: crashes so far

clock == <<week, phase>>
runs == <<pc, wk>>
history == <<cronSent, manualSent, fired, lost>>
vars == <<week, phase, up, due, pc, wk, carried, logged, cronSent, manualSent,
          fired, lost, manuals, downs>>

TypeOK ==
  /\ week \in Week
  /\ phase \in {"early", "grace", "rest"}
  /\ up \in SUBSET Proc
  /\ due \in [Proc -> 1 .. MaxWeek + 1]
  /\ pc \in [Run -> PC]
  /\ wk \in [Run -> Week]
  /\ carried \in SUBSET Run
  /\ logged \in SUBSET Week
  /\ cronSent \in [Proc -> [Week -> Nat]]
  /\ manualSent \in [Week -> Nat]
  /\ fired \in SUBSET Week
  /\ lost \in SUBSET Week
  /\ manuals \in Nat
  /\ downs \in Nat

Active(r) == pc[r] # "idle"

Goto(r, label) == pc' = [pc EXCEPT ![r] = label]

Init ==
  /\ week = 1 /\ phase = "early"
  /\ up = Proc
  /\ due = [p \in Proc |-> 1]
  /\ pc = [r \in Run |-> "idle"]
  /\ wk = [r \in Run |-> 1]
  /\ carried = {}
  /\ logged = {}
  /\ cronSent = [p \in Proc |-> [w \in Week |-> 0]]
  /\ manualSent = [w \in Week |-> 0]
  /\ fired = {}
  /\ lost = {}
  /\ manuals = 0
  /\ downs = 0

-----------------------------------------------------------------------------
(* The clock.  Every phase is at least an hour long and a run is bounded by *)
(* wait_for(300 s) or by the 30 s socket timeouts, so a run is in flight    *)
(* over at most one change of phase.  The scheduler may be late by more than *)
(* that: nothing bounds how long a coroutine keeps the event loop.           *)

Tick ==
  /\ \A r \in carried : ~Active(r)
  /\ \/ phase = "early" /\ phase' = "grace" /\ week' = week
     \/ phase = "grace" /\ phase' = "rest" /\ week' = week
     \/ phase = "rest" /\ week < MaxWeek /\ phase' = "early" /\ week' = week + 1
  /\ carried' = {r \in Run : Active(r)}
  /\ UNCHANGED <<up, due, pc, wk, logged, history, manuals, downs>>

(* The scheduler wakes up inside the grace hour and submits the job.  All   *)
(* the fire times missed so far are coalesced into this one.               *)
Submit(p) ==
  /\ p \in up
  /\ due[p] <= week /\ phase = "grace"
  /\ ~Active(CronRun(p))
  /\ due' = [due EXCEPT ![p] = week + 1]
  /\ Goto(CronRun(p), "check")
  /\ wk' = [wk EXCEPT ![CronRun(p)] = week]
  /\ fired' = fired \cup {week}
  /\ UNCHANGED <<clock, up, carried, logged, cronSent, manualSent, lost, manuals,
                 downs>>

\* The mutant has the scheduler's default misfire_grace_time of a second.
TooLateBySeconds(p) == due[p] <= week /\ phase # "early"
TooLate(p) == due[p] <= week /\ phase = "rest"

(* It wakes up later than that: the fire time is a misfire, and is dropped. *)
Misfire(p) ==
  /\ p \in up
  /\ \/ TooLate(p) /\ due' = [due EXCEPT ![p] = week + 1]
     \/ due[p] < week /\ phase = "early" /\ due' = [due EXCEPT ![p] = week]
  /\ UNCHANGED <<clock, up, runs, carried, logged, history, manuals, downs>>

(* POST /digest/run-now.                                                    *)
RunNow(p, q) ==
  /\ p \in up
  /\ manuals < MaxManual
  /\ ~Active(<<p, q>>)
  /\ Goto(<<p, q>>, "check")
  /\ wk' = [wk EXCEPT ![<<p, q>>] = week]
  /\ manuals' = manuals + 1
  /\ UNCHANGED <<clock, up, due, carried, logged, history, downs>>

-----------------------------------------------------------------------------
(* generate_and_send_digest.                                                *)

(* skip_if_already_sent, which only the cron passes, and the row is there.  *)
MustSkip(r) == IsCron(r) /\ wk[r] \in logged

Skip(r) ==
  /\ pc[r] = "check"
  /\ MustSkip(r)
  /\ Goto(r, "idle")
  /\ UNCHANGED <<clock, up, due, wk, carried, logged, history, manuals, downs>>

(* The digest is built and the e-mail handed to a thread.                   *)
StartSend(r) ==
  /\ pc[r] = "check"
  /\ ~MustSkip(r)
  /\ Goto(r, "send")
  /\ UNCHANGED <<clock, up, due, wk, carried, logged, history, manuals, downs>>

(* A database error before the send ends the run.                           *)
ReadFails(r) ==
  /\ pc[r] = "check"
  /\ Goto(r, "idle")
  /\ UNCHANGED <<clock, up, due, wk, carried, logged, history, manuals, downs>>

CountMail(r) ==
  IF IsCron(r)
  THEN /\ cronSent' = [cronSent EXCEPT ![r[1]][wk[r]] = @ + 1]
       /\ UNCHANGED manualSent
  ELSE /\ manualSent' = [manualSent EXCEPT ![wk[r]] = @ + 1]
       /\ UNCHANGED cronSent

(* The mail server accepts the message.  The coroutine goes on to the log   *)
(* row unless it was cancelled meanwhile.                                  *)
Deliver(r) ==
  /\ pc[r] \in {"send", "orphan"}
  /\ CountMail(r)
  /\ \/ pc[r] = "send" /\ Goto(r, "mark") /\ UNCHANGED lost
     \/ pc[r] = "orphan" /\ Goto(r, "idle") /\ lost' = lost \cup {wk[r]}
  /\ UNCHANGED <<clock, up, due, wk, carried, logged, fired, manuals, downs>>

(* The server accepted the message and its answer was lost: smtplib raises. *)
DeliverUnconfirmed(r) ==
  /\ pc[r] \in {"send", "orphan"}
  /\ CountMail(r)
  /\ Goto(r, "idle")
  /\ lost' = lost \cup {wk[r]}
  /\ UNCHANGED <<clock, up, due, wk, carried, logged, fired, manuals, downs>>

\* Mutant: a socket without a timeout.
Hangs(r) == FALSE
SendEnds(r) == pc[r] \in {"send", "orphan"}

(* SMTP not configured, refused, or a 30 s socket timeout.                  *)
SendFails(r) ==
  /\ SendEnds(r)
  /\ Goto(r, "idle")
  /\ UNCHANGED <<clock, up, due, wk, carried, logged, history, manuals, downs>>

\* The mutant takes the ISO week when the row is written.
WeekNow(r) == week
YearWeek(r) == wk[r]

(* INSERT ... ON CONFLICT DO NOTHING, committed.                            *)
MarkSent(r) ==
  /\ pc[r] = "mark"
  /\ logged' = logged \cup {YearWeek(r)}
  /\ Goto(r, "idle")
  /\ UNCHANGED <<clock, up, due, wk, carried, history, manuals, downs>>

MarkFails(r) ==
  /\ pc[r] = "mark"
  /\ Goto(r, "idle")
  /\ lost' = lost \cup {wk[r]}
  /\ UNCHANGED <<clock, up, due, wk, carried, logged, cronSent, manualSent, fired,
                 manuals, downs>>

(* wait_for cancels the cron coroutine at any await.  A thread cannot be    *)
(* cancelled; an INSERT in flight may or may not have been committed.      *)
Timeout(r) ==
  /\ IsCron(r)
  /\ \/ pc[r] = "check" /\ Goto(r, "idle") /\ UNCHANGED <<logged, lost>>
     \/ pc[r] = "send" /\ Goto(r, "orphan") /\ UNCHANGED <<logged, lost>>
     \/ /\ pc[r] = "mark" /\ Goto(r, "idle")
        /\ \/ logged' = logged \cup {wk[r]} /\ UNCHANGED lost
           \/ lost' = lost \cup {wk[r]} /\ UNCHANGED logged
  /\ UNCHANGED <<clock, up, due, wk, carried, cronSent, manualSent, fired, manuals,
                 downs>>

-----------------------------------------------------------------------------
(* A process goes down with all its runs and threads, and comes back.  The  *)
(* job store is in memory: a start computes the next Monday 07:00 from now. *)

Down(p) ==
  /\ p \in up
  /\ downs < MaxDown
  /\ downs' = downs + 1
  /\ up' = up \ {p}
  /\ pc' = [r \in Run |-> IF r[1] = p THEN "idle" ELSE pc[r]]
  /\ lost' = lost \cup {wk[r] : r \in {s \in Run : s[1] = p /\ pc[s] = "mark"}}
  /\ UNCHANGED <<clock, due, wk, carried, logged, cronSent, manualSent, fired, manuals>>

\* Mutants: a restart in the grace hour replays the fire; a fire is passed over.
NextFireReplayed == IF phase # "rest" THEN week ELSE week + 1
NextFireSkips == IF phase = "early" THEN week + 1 ELSE week + 2
NextFire == IF phase = "early" THEN week ELSE week + 1

Start(p) ==
  /\ p \in Proc \ up
  /\ up' = up \cup {p}
  /\ due' = [due EXCEPT ![p] = NextFire]
  /\ UNCHANGED <<clock, runs, carried, logged, history, manuals, downs>>

(* The end of the last week of the model.                                   *)
Horizon ==
  /\ week = MaxWeek /\ phase = "rest"
  /\ UNCHANGED vars

Thread(r) == Deliver(r) \/ DeliverUnconfirmed(r) \/ SendFails(r)
Check(r) == Skip(r) \/ StartSend(r) \/ ReadFails(r)
Mark(r) == MarkSent(r) \/ MarkFails(r)

Next ==
  \/ Tick
  \/ \E p \in Proc : Submit(p) \/ Misfire(p) \/ Down(p) \/ Start(p)
  \/ \E p \in Proc, q \in Request : RunNow(p, q)
  \/ \E r \in Run : Check(r) \/ Thread(r) \/ Mark(r) \/ Timeout(r)
  \/ Horizon

Spec == Init /\ [][Next]_vars

(* What the event loop and the operating system guarantee: a ready coroutine *)
(* or scheduler wake-up runs, the clock goes on, and a thread whose server    *)
(* never answers ends with the 30 s socket timeout.  No server has to answer, *)
(* and nobody has to call run-now.                                            *)
Fairness ==
  /\ WF_vars(Tick)
  /\ \A p \in Proc : WF_vars(Submit(p))
  /\ \A r \in Run : WF_vars(Check(r)) /\ WF_vars(SendFails(r)) /\ WF_vars(Mark(r))

FairSpec == Spec /\ Fairness

-----------------------------------------------------------------------------
(* Properties.                                                              *)

Delivered(w) == manualSent[w] > 0 \/ \E p \in Proc : cronSent[p][w] > 0

(* A log row is evidence of an e-mail: a week that the cron will skip is a   *)
(* week in which some message really was accepted by the mail server.        *)
LoggedOnlyIfDelivered == \A w \in logged : Delivered(w)

(* However often a process is restarted, times out or is stalled, its cron   *)
(* delivers at most one e-mail for a week.                                   *)
CronOncePerWeek == \A p \in Proc, w \in Week : cronSent[p][w] <= 1

(* An e-mail that was accepted is in the log under the week of its run, or    *)
(* about to be, or its sender was cancelled, failed or killed in between.     *)
(* Only such a lost week can be mailed again although nothing overlaps.       *)
DeliveredIsAccountedFor ==
  \A w \in Week : Delivered(w) =>
    \/ w \in logged \cup lost
    \/ \E r \in Run : pc[r] = "mark" /\ wk[r] = w

(* misfire_grace_time = 3600: when the grace hour ends, a scheduler that has  *)
(* looked at its job since 07:00 has submitted it and not passed it over.     *)
(* (A process that restarted has no such promise, see below.)                 *)
OnTime == \E p \in up : due[p] > week
NoSilentSkip ==
  [][phase = "grace" /\ phase' = "rest" /\ OnTime /\ downs = 0 => week \in fired]_vars

(* worker/cron.py: "Survive a brief loop stall / restart near 07:00 without   *)
(* silently skipping the week".  The same of processes that restarted.        *)
SurvivesRestart ==
  [][phase = "grace" /\ phase' = "rest" /\ OnTime => week \in fired]_vars

(* vault/models.py, DigestSentLog: the cron skips weeks already present, "so  *)
(* cron + /digest/run-now (or a second replica) can't send duplicates".  An   *)
(* e-mail of the cron is never a second one for its week, unless the sender   *)
(* of the first one died or failed before it could log it.                    *)
CronNeverDuplicates ==
  [][\A p \in Proc, w \in Week :
        cronSent'[p][w] > cronSent[p][w] => ~Delivered(w) \/ w \in lost]_vars

(* No run stays in flight for ever, a hung mail server included.             *)
RunsEnd == \A r \in Run : Active(r) ~> ~Active(r)

(* What the table promises to the outside (module DigestLedger).             *)
LedgerStatus ==
  [w \in Week |-> IF w \in logged THEN "logged"
                  ELSE IF Delivered(w) THEN "delivered" ELSE "none"]
Ledger == INSTANCE DigestLedger WITH status <- LedgerStatus
LedgerSpec == Ledger!Spec
=============================================================================
