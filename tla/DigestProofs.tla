---------------------------- MODULE DigestProofs ----------------------------
(***************************************************************************)
(* Theorems about Digest for every number of replicas, requests, weeks and  *)
(* restarts.                                                                *)
(***************************************************************************)
EXTENDS Digest, TLAPS

(* A run belongs to a process; the cron slot and the request slots are runs.  *)
LEMMA RunFacts ==
  /\ \A r \in Run : r[1] \in Proc
  /\ \A p \in Proc : CronRun(p) \in Run /\ CronRun(p)[1] = p /\ IsCron(CronRun(p))
  /\ \A p \in Proc, q \in Request :
       <<p, q>> \in Run /\ <<p, q>>[1] = p /\ ~IsCron(<<p, q>>)
  /\ \A r \in Run : IsCron(r) => r = CronRun(r[1])
BY RequestAssumption DEF Run, CronRun, IsCron

(* The scheduler looks one week ahead of the clock.                          *)
LEMMA WeekFacts ==
  ASSUME week \in Week
  PROVE  week \in 1 .. MaxWeek + 1 /\ week + 1 \in 1 .. MaxWeek + 1
BY BoundsAssumption DEF Week

(* Every variable keeps its type.                                            *)
THEOREM TypeCorrect == Spec => []TypeOK
<1>1. Init => TypeOK
  BY BoundsAssumption DEF Init, TypeOK, Week, PC
<1>2. TypeOK /\ [Next]_vars => TypeOK'
  <2> SUFFICES ASSUME TypeOK, [Next]_vars PROVE TypeOK'
    OBVIOUS
  <2> USE WeekFacts DEF TypeOK, Goto, clock, runs, history
  <2>1. CASE Tick
    <3>1. week' \in Week
      BY <2>1, BoundsAssumption DEF Tick, Week
    <3>2. QED
      BY <2>1, <3>1 DEF Tick
  <2>2. ASSUME NEW p \in Proc, Submit(p) PROVE TypeOK'
    <3>1. CronRun(p) \in Run
      BY RunFacts
    <3>2. QED
      BY <2>2, <3>1 DEF Submit, PC
  <2>3. ASSUME NEW p \in Proc, Misfire(p) PROVE TypeOK'
    BY <2>3 DEF Misfire, TooLate
  <2>4. ASSUME NEW p \in Proc, Down(p) PROVE TypeOK'
    BY <2>4 DEF Down, PC
  <2>5. ASSUME NEW p \in Proc, Start(p) PROVE TypeOK'
    BY <2>5 DEF Start, NextFire
  <2>6. ASSUME NEW p \in Proc, NEW q \in Request, RunNow(p, q) PROVE TypeOK'
    <3>1. PICK r \in Run : r = <<p, q>>
      BY RunFacts
    <3>2. pc' = [pc EXCEPT ![r] = "check"] /\ wk' = [wk EXCEPT ![r] = week]
      BY <2>6, <3>1 DEF RunNow
    <3>3. manuals' \in Nat
      BY <2>6 DEF RunNow
    <3>4. UNCHANGED <<clock, up, due, carried, logged, history, downs>>
      BY <2>6 DEF RunNow
    <3>5. QED
      BY <3>2, <3>3, <3>4 DEF PC
  <2>7. ASSUME NEW r \in Run, Check(r) PROVE TypeOK'
    BY <2>7 DEF Check, Skip, StartSend, ReadFails, PC
  <2>8. ASSUME NEW r \in Run, Thread(r) PROVE TypeOK'
    <3>1. ASSUME CountMail(r)
          PROVE  cronSent' \in [Proc -> [Week -> Nat]] /\ manualSent' \in [Week -> Nat]
      <4>1. PICK p \in Proc : p = r[1]
        BY RunFacts
      <4>2. PICK w \in Week : w = wk[r]
        OBVIOUS
      <4>3. CASE IsCron(r)
        <5>1. PICK f : f = [cronSent[p] EXCEPT ![w] = @ + 1]
          OBVIOUS
        <5>2. f \in [Week -> Nat]
          BY <5>1
        <5>3. cronSent' = [cronSent EXCEPT ![p] = f] /\ manualSent' = manualSent
          BY <3>1, <4>1, <4>2, <4>3, <5>1 DEF CountMail
        <5>4. QED
          BY <5>2, <5>3
      <4>4. CASE ~IsCron(r)
        BY <3>1, <4>2, <4>4 DEF CountMail
      <4>5. QED
        BY <4>3, <4>4
    <3>2. CASE Deliver(r)
      BY <3>1, <3>2 DEF Deliver, PC
    <3>3. CASE DeliverUnconfirmed(r)
      BY <3>1, <3>3 DEF DeliverUnconfirmed, PC
    <3>4. CASE SendFails(r)
      BY <3>4 DEF SendFails, SendEnds, PC
    <3>5. QED
      BY <2>8, <3>2, <3>3, <3>4 DEF Thread
  <2>9. ASSUME NEW r \in Run, Mark(r) PROVE TypeOK'
    BY <2>9 DEF Mark, MarkSent, YearWeek, MarkFails, PC
  <2>10. ASSUME NEW r \in Run, Timeout(r) PROVE TypeOK'
    BY <2>10 DEF Timeout, PC
  <2>11. CASE UNCHANGED vars
    BY <2>11 DEF vars
  <2>12. CASE Horizon
    BY <2>12 DEF Horizon, vars
  <2>13. QED
    BY <2>1, <2>2, <2>3, <2>4, <2>5, <2>6, <2>7, <2>8, <2>9, <2>10, <2>11, <2>12
       DEF Next
<1>3. QED
  BY <1>1, <1>2, PTL DEF Spec

-----------------------------------------------------------------------------
(* The cron of a process mails a week at most once.  This is not inductive   *)
(* as it stands: whether a second run for the week can start depends on the  *)
(* next_run_time, which a restart computes afresh from the clock.  A week    *)
(* that is still ahead of a process is one its cron has not touched.         *)

InFlight(p, w) ==
  pc[CronRun(p)] \in {"check", "send", "orphan"} /\ wk[CronRun(p)] = w

Fresh(p, w) == cronSent[p][w] = 0 /\ ~InFlight(p, w)

Ahead(p, w) ==
  \/ p \in up /\ due[p] <= w
  \/ w > week
  \/ w = week /\ phase = "early"

OnceInv ==
  \A p \in Proc, w \in Week :
    /\ cronSent[p][w] <= 1
    /\ InFlight(p, w) => cronSent[p][w] = 0
    /\ Ahead(p, w) => Fresh(p, w)

(* Steps that start no cron run and deliver no e-mail keep OnceInv, if they  *)
(* only ever take weeks away from those that are ahead.                      *)
LEMMA QuietStep ==
  ASSUME TypeOK, OnceInv, UNCHANGED cronSent,
         \A p \in Proc, w \in Week : InFlight(p, w)' => InFlight(p, w),
         \A p \in Proc, w \in Week : Ahead(p, w)' => Ahead(p, w)
  PROVE  OnceInv'
BY DEF OnceInv, Fresh

THEOREM CronOnce == Spec => []CronOncePerWeek
<1>1. Init => OnceInv
  BY RunFacts DEF Init, OnceInv, Fresh, InFlight
<1>2. TypeOK /\ OnceInv /\ [Next]_vars => OnceInv'
  <2> SUFFICES ASSUME TypeOK, OnceInv, [Next]_vars PROVE OnceInv'
    OBVIOUS
  <2> USE DEF clock, runs, history
  <2>0. MaxWeek \in Nat /\ week \in Nat /\ Week \subseteq Nat
    BY BoundsAssumption DEF TypeOK, Week
  <2>1. CASE Tick
    <3>1. \A p \in Proc, w \in Week : InFlight(p, w)' => InFlight(p, w)
      BY <2>1 DEF Tick, InFlight
    <3>2. \A p \in Proc, w \in Week : Ahead(p, w)' => Ahead(p, w)
      BY <2>1, <2>0 DEF Tick, Ahead
    <3>3. QED
      BY <2>1, <3>1, <3>2, QuietStep DEF Tick
  <2>2. ASSUME NEW p \in Proc, Submit(p) PROVE OnceInv'
    <3>1. PICK r \in Run : r = CronRun(p)
      BY RunFacts
    <3>2. /\ pc' = [pc EXCEPT ![r] = "check"]
          /\ wk' = [wk EXCEPT ![r] = week]
          /\ due' = [due EXCEPT ![p] = week + 1]
          /\ due[p] <= week /\ p \in up /\ phase = "grace"
          /\ UNCHANGED <<week, phase, up, cronSent>>
      BY <2>2, <3>1 DEF Submit, Goto
    <3>3. week \in Week /\ Ahead(p, week)
      BY <3>2 DEF TypeOK, Ahead
    <3>4. Fresh(p, week)
      BY <3>3 DEF OnceInv
    <3>5. ASSUME NEW x \in Proc, NEW w \in Week
          PROVE  /\ InFlight(x, w)' => cronSent[x][w] = 0
                 /\ Ahead(x, w)' => Fresh(x, w)'
      <4>1. CASE x # p
        <5>1. CronRun(x) # r /\ CronRun(x) \in Run
          BY <3>1, <4>1, RunFacts DEF CronRun
        <5>2. (InFlight(x, w)' <=> InFlight(x, w)) /\ (Ahead(x, w)' <=> Ahead(x, w))
          BY <3>2, <4>1, <5>1 DEF InFlight, Ahead, TypeOK
        <5>3. QED
          BY <3>2, <5>2 DEF OnceInv, Fresh
      <4>2. CASE x = p
        <5>1. InFlight(x, w)' <=> w = week
          BY <3>1, <3>2, <4>2 DEF InFlight, TypeOK
        <5>2. Ahead(x, w)' => w > week
          BY <3>2, <4>2, <2>0 DEF Ahead, TypeOK
        <5>3. w > week => cronSent[x][w] = 0
          BY DEF OnceInv, Ahead, Fresh
        <5>4. w > week => w # week
          BY <2>0
        <5>5. QED
          BY <3>2, <3>4, <4>2, <5>1, <5>2, <5>3, <5>4 DEF Fresh
      <4>3. QED
        BY <4>1, <4>2
    <3>6. QED
      BY <3>2, <3>5 DEF OnceInv
  <2>3. ASSUME NEW p \in Proc, Misfire(p) PROVE OnceInv'
    <3>1. \A x \in Proc, w \in Week : InFlight(x, w)' => InFlight(x, w)
      BY <2>3 DEF Misfire, TooLate, InFlight
    <3>2. \A x \in Proc, w \in Week : Ahead(x, w)' => Ahead(x, w)
      <4>1. \A x \in Proc : due'[x] >= due[x]
        BY <2>3, <2>0 DEF Misfire, TooLate, TypeOK
      <4>2. \A x \in Proc : due[x] \in Nat /\ due'[x] \in Nat
        BY <2>3, <2>0 DEF Misfire, TooLate, TypeOK
      <4>3. QED
        BY <2>3, <2>0, <4>1, <4>2 DEF Misfire, TooLate, Ahead
    <3>3. QED
      BY <2>3, <3>1, <3>2, QuietStep DEF Misfire, TooLate
  <2>4. ASSUME NEW p \in Proc, Down(p) PROVE OnceInv'
    <3>1. \A x \in Proc, w \in Week : InFlight(x, w)' => InFlight(x, w)
      BY <2>4, RunFacts DEF Down, InFlight
    <3>2. \A x \in Proc, w \in Week : Ahead(x, w)' => Ahead(x, w)
      BY <2>4 DEF Down, Ahead
    <3>3. QED
      BY <2>4, <3>1, <3>2, QuietStep DEF Down
  <2>5. ASSUME NEW p \in Proc, Start(p) PROVE OnceInv'
    <3>1. \A x \in Proc, w \in Week : InFlight(x, w)' => InFlight(x, w)
      BY <2>5 DEF Start, NextFire, InFlight
    <3>2. \A x \in Proc, w \in Week : Ahead(x, w)' => Ahead(x, w)
      BY <2>5, <2>0 DEF Start, NextFire, Ahead, TypeOK
    <3>3. QED
      BY <2>5, <3>1, <3>2, QuietStep DEF Start, NextFire
  <2>6. ASSUME NEW p \in Proc, NEW q \in Request, RunNow(p, q) PROVE OnceInv'
    <3>1. PICK r \in Run : r = <<p, q>> /\ ~IsCron(r)
      BY RunFacts
    <3>2. pc' = [pc EXCEPT ![r] = "check"] /\ wk' = [wk EXCEPT ![r] = week]
      BY <2>6, <3>1 DEF RunNow, Goto
    <3>3. \A x \in Proc : CronRun(x) \in Run /\ CronRun(x) # r
      BY <3>1, RunFacts
    <3>4. \A x \in Proc, w \in Week : InFlight(x, w)' => InFlight(x, w)
      BY <3>2, <3>3 DEF InFlight, TypeOK
    <3>5. \A x \in Proc, w \in Week : Ahead(x, w)' => Ahead(x, w)
      BY <2>6 DEF RunNow, Ahead
    <3>6. QED
      BY <2>6, <3>4, <3>5, QuietStep DEF RunNow
  <2>7. ASSUME NEW r \in Run, Check(r) PROVE OnceInv'
    <3>1. \A x \in Proc, w \in Week : InFlight(x, w)' => InFlight(x, w)
      BY <2>7, RunFacts DEF Check, Skip, StartSend, ReadFails, Goto, InFlight, TypeOK
    <3>2. \A x \in Proc, w \in Week : Ahead(x, w)' => Ahead(x, w)
      BY <2>7 DEF Check, Skip, StartSend, ReadFails, Ahead
    <3>3. QED
      BY <2>7, <3>1, <3>2, QuietStep DEF Check, Skip, StartSend, ReadFails
  <2>8. ASSUME NEW r \in Run, Thread(r) PROVE OnceInv'
    <3>1. /\ pc[r] \in {"send", "orphan"}
          /\ \E l \in {"mark", "idle"} : pc' = [pc EXCEPT ![r] = l]
          /\ UNCHANGED <<week, phase, up, due, wk>>
      BY <2>8 DEF Thread, Deliver, DeliverUnconfirmed, SendFails, SendEnds, Goto
    <3>2. \A x \in Proc, w \in Week : InFlight(x, w)' => InFlight(x, w)
      BY <3>1, RunFacts DEF InFlight, TypeOK
    <3>3. \A x \in Proc, w \in Week : Ahead(x, w)' => Ahead(x, w)
      BY <3>1 DEF Ahead
    <3>4. CASE UNCHANGED cronSent
      BY <3>2, <3>3, <3>4, QuietStep
    <3>5. CASE CountMail(r) /\ IsCron(r)
      <4>1. PICK p \in Proc : p = r[1] /\ r = CronRun(p)
        BY <3>5, RunFacts
      <4>2. PICK v \in Week : v = wk[r]
        BY DEF TypeOK
      <4>3. InFlight(p, v) /\ ~InFlight(p, v)'
        BY <3>1, <4>1, <4>2 DEF InFlight, TypeOK
      <4>4. cronSent[p][v] = 0 /\ ~Ahead(p, v)
        BY <4>3 DEF OnceInv, Fresh
      <4>5. /\ cronSent'[p][v] = 1
            /\ \A x \in Proc, w \in Week :
                 x # p \/ w # v => cronSent'[x][w] = cronSent[x][w]
        BY <3>5, <4>1, <4>2, <4>4 DEF CountMail, TypeOK
      <4>6. ASSUME NEW x \in Proc, NEW w \in Week
            PROVE  /\ cronSent'[x][w] <= 1
                   /\ InFlight(x, w)' => cronSent'[x][w] = 0
                   /\ Ahead(x, w)' => Fresh(x, w)'
        <5>1. CASE x = p /\ w = v
          BY <3>3, <4>3, <4>4, <4>5, <5>1
        <5>2. CASE x # p \/ w # v
          BY <3>2, <3>3, <4>5, <5>2 DEF OnceInv, Fresh
        <5>3. QED
          BY <5>1, <5>2
      <4>7. QED
        BY <4>6 DEF OnceInv
    <3>6. QED
      BY <2>8, <3>4, <3>5
         DEF Thread, Deliver, DeliverUnconfirmed, SendFails, SendEnds, CountMail
  <2>9. ASSUME NEW r \in Run, Mark(r) PROVE OnceInv'
    <3>1. \A x \in Proc, w \in Week : InFlight(x, w)' => InFlight(x, w)
      BY <2>9, RunFacts DEF Mark, MarkSent, YearWeek, MarkFails, Goto, InFlight, TypeOK
    <3>2. \A x \in Proc, w \in Week : Ahead(x, w)' => Ahead(x, w)
      BY <2>9 DEF Mark, MarkSent, YearWeek, MarkFails, Ahead
    <3>3. QED
      BY <2>9, <3>1, <3>2, QuietStep DEF Mark, MarkSent, YearWeek, MarkFails
  <2>10. ASSUME NEW r \in Run, Timeout(r) PROVE OnceInv'
    <3>1. \A x \in Proc, w \in Week : InFlight(x, w)' => InFlight(x, w)
      BY <2>10, RunFacts DEF Timeout, Goto, InFlight, TypeOK
    <3>2. \A x \in Proc, w \in Week : Ahead(x, w)' => Ahead(x, w)
      BY <2>10 DEF Timeout, Ahead
    <3>3. QED
      BY <2>10, <3>1, <3>2, QuietStep DEF Timeout
  <2>11. CASE UNCHANGED vars
    <3>1. UNCHANGED <<pc, wk, week, phase, up, due, cronSent>>
      BY <2>11 DEF vars
    <3>2. QED
      BY <3>1, QuietStep DEF InFlight, Ahead
  <2>12. CASE Horizon
    BY <2>11, <2>12 DEF Horizon
  <2>13. QED
    BY <2>1, <2>2, <2>3, <2>4, <2>5, <2>6, <2>7, <2>8, <2>9, <2>10, <2>11, <2>12
       DEF Next
<1>3. OnceInv => CronOncePerWeek
  BY DEF OnceInv, CronOncePerWeek
<1>4. QED
  BY <1>1, <1>2, <1>3, TypeCorrect, PTL DEF Spec

-----------------------------------------------------------------------------
(* The log is evidence.  The sender that is about to log a week has already  *)
(* got its e-mail accepted, under the very week it will write.               *)

EvidenceInv ==
  /\ LoggedOnlyIfDelivered
  /\ \A r \in Run : pc[r] = "mark" => Delivered(wk[r])

(* An e-mail that was accepted stays accepted: the counters only grow.       *)
LEMMA CountMailGrows ==
  ASSUME TypeOK, NEW r \in Run, CountMail(r)
  PROVE  \A w \in Week : Delivered(w) \/ w = wk[r] => Delivered(w)'
<1>1. PICK w \in Week : w = wk[r]
  BY DEF TypeOK
<1>2. CASE IsCron(r)
  <2>1. PICK p \in Proc : p = r[1]
    BY RunFacts
  <2>2. /\ cronSent'[p][w] = cronSent[p][w] + 1
        /\ \A x \in Proc, v \in Week :
             x # p \/ v # w => cronSent'[x][v] = cronSent[x][v]
        /\ manualSent' = manualSent
    BY <1>1, <1>2, <2>1 DEF CountMail, TypeOK
  <2>3. \A x \in Proc, v \in Week : cronSent[x][v] \in Nat
    BY DEF TypeOK
  <2>4. cronSent'[p][w] > 0
    <3>1. PICK n \in Nat : n = cronSent[p][w]
      BY <2>3
    <3>2. n + 1 > 0
      OBVIOUS
    <3>3. QED
      BY <2>2, <3>1, <3>2
  <2>5. \A x \in Proc, v \in Week : cronSent[x][v] > 0 => cronSent'[x][v] > 0
    BY <2>2, <2>4
  <2>6. QED
    BY <1>1, <2>2, <2>4, <2>5 DEF Delivered
<1>3. CASE ~IsCron(r)
  <2>1. /\ manualSent'[w] = manualSent[w] + 1
        /\ \A v \in Week : v # w => manualSent'[v] = manualSent[v]
        /\ cronSent' = cronSent
    BY <1>1, <1>3 DEF CountMail, TypeOK
  <2>2. manualSent[w] \in Nat
    BY DEF TypeOK
  <2>3. manualSent'[w] > 0
    <3>1. PICK n \in Nat : n = manualSent[w]
      BY <2>2
    <3>2. n + 1 > 0
      OBVIOUS
    <3>3. QED
      BY <2>1, <3>1, <3>2
  <2>4. QED
    BY <1>1, <2>1, <2>3 DEF Delivered
<1>4. QED
  BY <1>2, <1>3

(* The log and every run at its mark are backed by an accepted e-mail.       *)
LEMMA EvidenceAlways == Spec => []EvidenceInv
<1> USE DEF LoggedOnlyIfDelivered
<1>1. Init => EvidenceInv
  BY DEF Init, EvidenceInv
<1>2. TypeOK /\ EvidenceInv /\ [Next]_vars => EvidenceInv'
  <2> SUFFICES ASSUME TypeOK, EvidenceInv, [Next]_vars PROVE EvidenceInv'
    OBVIOUS
  <2> USE DEF clock, runs, history, Goto
  \* A step that counts no e-mail, logs nothing and puts no run before its mark.
  <2>0. ASSUME UNCHANGED <<cronSent, manualSent, logged>>,
               \A r \in Run : pc'[r] = "mark" => pc[r] = "mark" /\ wk'[r] = wk[r]
        PROVE  EvidenceInv'
    BY <2>0 DEF EvidenceInv, Delivered
  <2>1. CASE Tick
    BY <2>0, <2>1 DEF Tick
  <2>2. ASSUME NEW p \in Proc, Submit(p) PROVE EvidenceInv'
    <3>1. PICK r \in Run : r = CronRun(p)
      BY RunFacts
    <3>2. /\ pc' = [pc EXCEPT ![r] = "check"]
          /\ wk' = [wk EXCEPT ![r] = week]
          /\ UNCHANGED <<cronSent, manualSent, logged>>
      BY <2>2, <3>1 DEF Submit
    <3>3. \A s \in Run : pc'[s] = "mark" => pc[s] = "mark" /\ wk'[s] = wk[s]
      BY <3>2 DEF TypeOK
    <3>4. QED
      BY <2>0, <3>2, <3>3
  <2>3. ASSUME NEW p \in Proc, Misfire(p) PROVE EvidenceInv'
    BY <2>0, <2>3 DEF Misfire, TooLate
  <2>4. ASSUME NEW p \in Proc, Down(p) PROVE EvidenceInv'
    BY <2>0, <2>4 DEF Down
  <2>5. ASSUME NEW p \in Proc, Start(p) PROVE EvidenceInv'
    BY <2>0, <2>5 DEF Start, NextFire
  <2>6. ASSUME NEW p \in Proc, NEW q \in Request, RunNow(p, q) PROVE EvidenceInv'
    <3>1. PICK r \in Run : r = <<p, q>>
      BY RunFacts
    <3>2. /\ pc' = [pc EXCEPT ![r] = "check"]
          /\ wk' = [wk EXCEPT ![r] = week]
          /\ UNCHANGED <<cronSent, manualSent, logged>>
      BY <2>6, <3>1 DEF RunNow
    <3>3. \A s \in Run : pc'[s] = "mark" => pc[s] = "mark" /\ wk'[s] = wk[s]
      BY <3>2 DEF TypeOK
    <3>4. QED
      BY <2>0, <3>2, <3>3
  <2>7. ASSUME NEW r \in Run, Check(r) PROVE EvidenceInv'
    BY <2>0, <2>7 DEF Check, Skip, StartSend, ReadFails, TypeOK
  <2>8. ASSUME NEW r \in Run, Thread(r) PROVE EvidenceInv'
    <3>1. CASE SendFails(r)
      BY <2>0, <3>1 DEF SendFails, SendEnds, TypeOK
    <3>2. CASE CountMail(r)
      <4>1. \A s \in Run : s # r /\ pc'[s] = "mark" => pc[s] = "mark"
        BY <2>8 DEF Thread, Deliver, DeliverUnconfirmed, SendFails, SendEnds, TypeOK
      <4>2. UNCHANGED <<wk, logged>>
        BY <2>8 DEF Thread, Deliver, DeliverUnconfirmed, SendFails, SendEnds
      <4>3. \A w \in Week : Delivered(w) \/ w = wk[r] => Delivered(w)'
        BY <3>2, CountMailGrows
      <4>4. \A s \in Run : wk[s] \in Week
        BY DEF TypeOK
      <4>5. ASSUME NEW s \in Run, Delivered(wk[s]) \/ s = r
            PROVE  Delivered(wk[s])'
        BY <4>2, <4>3, <4>4, <4>5 DEF Delivered
      <4>6. \A s \in Run : pc'[s] = "mark" => Delivered(wk[s])'
        <5> SUFFICES ASSUME NEW s \in Run, pc'[s] = "mark" PROVE Delivered(wk[s])'
          OBVIOUS
        <5>1. Delivered(wk[s]) \/ s = r
          BY <4>1 DEF EvidenceInv
        <5>2. QED
          BY <4>5, <5>1
      <4>7. \A w \in logged' : Delivered(w)'
        BY <4>2, <4>3 DEF EvidenceInv, TypeOK
      <4>8. QED
        BY <4>2, <4>6, <4>7 DEF EvidenceInv
    <3>3. QED
      BY <2>8, <3>1, <3>2 DEF Thread, Deliver, DeliverUnconfirmed
  <2>9. ASSUME NEW r \in Run, Mark(r) PROVE EvidenceInv'
    <3>1. /\ \A s \in Run : pc'[s] = "mark" => pc[s] = "mark"
          /\ UNCHANGED <<wk, cronSent, manualSent>>
          /\ pc[r] = "mark"
          /\ logged' \in {logged, logged \cup {wk[r]}}
      BY <2>9 DEF Mark, MarkSent, YearWeek, MarkFails, TypeOK
    <3>2. QED
      BY <3>1 DEF EvidenceInv, Delivered
  <2>10. ASSUME NEW r \in Run, Timeout(r) PROVE EvidenceInv'
    <3>1. /\ \A s \in Run : pc'[s] = "mark" => pc[s] = "mark"
          /\ UNCHANGED <<wk, cronSent, manualSent>>
          /\ logged' = logged \/ (pc[r] = "mark" /\ logged' = logged \cup {wk[r]})
      <4>1. CASE pc[r] \in {"check", "send"}
        BY <2>10, <4>1 DEF Timeout, TypeOK
      <4>2. CASE pc[r] = "mark"
        BY <2>10, <4>2 DEF Timeout, TypeOK
      <4>3. QED
        BY <2>10, <4>1, <4>2 DEF Timeout
    <3>2. QED
      BY <3>1 DEF EvidenceInv, Delivered
  <2>11. CASE UNCHANGED vars
    BY <2>0, <2>11 DEF vars
  <2>12. CASE Horizon
    BY <2>11, <2>12 DEF Horizon
  <2>13. QED
    BY <2>1, <2>2, <2>3, <2>4, <2>5, <2>6, <2>7, <2>8, <2>9, <2>10, <2>11, <2>12
       DEF Next
<1>3. QED
  BY <1>1, <1>2, TypeCorrect, PTL DEF Spec

(* A week that the cron will skip is one in which an e-mail was accepted.    *)
THEOREM LoggedIsDelivered == Spec => []LoggedOnlyIfDelivered
<1>1. EvidenceInv => LoggedOnlyIfDelivered
  BY DEF EvidenceInv
<1>2. QED
  BY <1>1, EvidenceAlways, PTL
-----------------------------------------------------------------------------
(* What a step can do to the e-mails and the log: nothing (Silent), a thread *)
(* gets an e-mail accepted (Mails), or a sender logs its week (Logs).        *)

Silent ==
  /\ UNCHANGED <<cronSent, manualSent, logged>>
  /\ lost \subseteq lost'
  /\ \A r \in Run : pc[r] = "mark" =>
       \/ pc'[r] = "mark" /\ wk'[r] = wk[r]
       \/ wk[r] \in lost'

Mails(r) ==
  /\ CountMail(r)
  /\ UNCHANGED <<wk, logged>>
  /\ lost \subseteq lost'
  /\ \A s \in Run : pc[s] = "mark" => pc'[s] = "mark"
  /\ pc'[r] = "mark" \/ wk[r] \in lost'

Logs(r) ==
  /\ pc[r] = "mark"
  /\ logged' = logged \cup {wk[r]}
  /\ UNCHANGED <<wk, cronSent, manualSent, lost>>
  /\ \A s \in Run : s # r => pc'[s] = pc[s]

LEMMA StepKind ==
  ASSUME TypeOK, [Next]_vars
  PROVE  Silent \/ \E r \in Run : Mails(r) \/ Logs(r)
<1> USE DEF TypeOK, Goto, clock, runs, history
<1>1. CASE Tick
  BY <1>1 DEF Tick, Silent
<1>2. ASSUME NEW p \in Proc, Submit(p) PROVE Silent
  <2>1. PICK r \in Run : r = CronRun(p)
    BY RunFacts
  <2>2. /\ pc[r] = "idle"
        /\ pc' = [pc EXCEPT ![r] = "check"]
        /\ wk' = [wk EXCEPT ![r] = week]
        /\ UNCHANGED <<cronSent, manualSent, logged, lost>>
    BY <1>2, <2>1 DEF Submit, Active
  <2>3. QED
    BY <2>2 DEF Silent
<1>3. ASSUME NEW p \in Proc, Misfire(p) PROVE Silent
  BY <1>3 DEF Misfire, TooLate, Silent
<1>4. ASSUME NEW p \in Proc, Down(p) PROVE Silent
  BY <1>4 DEF Down, Silent
<1>5. ASSUME NEW p \in Proc, Start(p) PROVE Silent
  BY <1>5 DEF Start, NextFire, Silent
<1>6. ASSUME NEW p \in Proc, NEW q \in Request, RunNow(p, q) PROVE Silent
  <2>1. PICK r \in Run : r = <<p, q>>
    BY RunFacts
  <2>2. /\ pc[r] = "idle"
        /\ pc' = [pc EXCEPT ![r] = "check"]
        /\ wk' = [wk EXCEPT ![r] = week]
        /\ UNCHANGED <<cronSent, manualSent, logged, lost>>
    BY <1>6, <2>1 DEF RunNow, Active
  <2>3. QED
    BY <2>2 DEF Silent
<1>7. ASSUME NEW r \in Run, Check(r) PROVE Silent
  BY <1>7 DEF Check, Skip, StartSend, ReadFails, Silent
<1>8. ASSUME NEW r \in Run, Thread(r) PROVE Silent \/ Mails(r)
  <2>1. CASE Deliver(r)
    BY <2>1 DEF Deliver, Mails
  <2>2. CASE DeliverUnconfirmed(r)
    BY <2>2 DEF DeliverUnconfirmed, Mails
  <2>3. CASE SendFails(r)
    BY <2>3 DEF SendFails, SendEnds, Silent
  <2>4. QED
    BY <1>8, <2>1, <2>2, <2>3 DEF Thread
<1>9. ASSUME NEW r \in Run, Mark(r) PROVE Silent \/ Logs(r)
  BY <1>9 DEF Mark, MarkSent, YearWeek, MarkFails, Silent, Logs
<1>10. ASSUME NEW r \in Run, Timeout(r) PROVE Silent \/ Logs(r)
  <2>1. CASE pc[r] \in {"check", "send"}
    BY <1>10, <2>1 DEF Timeout, Silent
  <2>2. CASE pc[r] = "mark"
    BY <1>10, <2>2 DEF Timeout, Silent, Logs
  <2>3. QED
    BY <1>10, <2>1, <2>2 DEF Timeout
<1>11. CASE UNCHANGED vars
  BY <1>11 DEF vars, Silent
<1>12. CASE Horizon
  BY <1>11, <1>12 DEF Horizon
<1>13. QED
  BY <1>1, <1>2, <1>3, <1>4, <1>5, <1>6, <1>7, <1>8, <1>9, <1>10, <1>11, <1>12
     DEF Next

(* An e-mail changes what was delivered for the week of its run only.        *)
LEMMA CountMailOnly ==
  ASSUME TypeOK, NEW r \in Run, CountMail(r), NEW w \in Week, w # wk[r]
  PROVE  Delivered(w)' <=> Delivered(w)
<1>1. CASE IsCron(r)
  <2>1. PICK p \in Proc : p = r[1]
    BY RunFacts
  <2>2. manualSent' = manualSent /\ \A x \in Proc : cronSent'[x][w] = cronSent[x][w]
    BY <1>1, <2>1 DEF CountMail, TypeOK
  <2>3. QED
    BY <2>2 DEF Delivered
<1>2. CASE ~IsCron(r)
  BY <1>2 DEF CountMail, Delivered, TypeOK
<1>3. QED
  BY <1>1, <1>2

(* What was delivered is logged, about to be, or known to have lost its      *)
(* sender.  The accounting is inductive by itself.                           *)
THEOREM NothingUnaccounted == Spec => []DeliveredIsAccountedFor
<1>1. Init => DeliveredIsAccountedFor
  BY DEF Init, DeliveredIsAccountedFor, Delivered
<1>2. TypeOK /\ DeliveredIsAccountedFor /\ [Next]_vars => DeliveredIsAccountedFor'
  <2> SUFFICES ASSUME TypeOK, DeliveredIsAccountedFor, [Next]_vars,
                      NEW w \in Week, Delivered(w)'
               PROVE  \/ w \in logged' \cup lost'
                      \/ \E r \in Run : pc'[r] = "mark" /\ wk'[r] = w
    BY DEF DeliveredIsAccountedFor
  <2>1. CASE Silent
    <3>1. Delivered(w)
      BY <2>1 DEF Silent, Delivered
    <3>2. QED
      BY <2>1, <3>1 DEF Silent, DeliveredIsAccountedFor
  <2>2. ASSUME NEW r \in Run, Mails(r)
        PROVE  \/ w \in logged' \cup lost'
               \/ \E s \in Run : pc'[s] = "mark" /\ wk'[s] = w
    <3>1. CASE w = wk[r]
      BY <2>2, <3>1 DEF Mails
    <3>2. CASE w # wk[r]
      <4>1. Delivered(w)
        BY <2>2, <3>2, CountMailOnly DEF Mails
      <4>2. QED
        BY <2>2, <4>1 DEF Mails, DeliveredIsAccountedFor
    <3>3. QED
      BY <3>1, <3>2
  <2>3. ASSUME NEW r \in Run, Logs(r)
        PROVE  \/ w \in logged' \cup lost'
               \/ \E s \in Run : pc'[s] = "mark" /\ wk'[s] = w
    <3>1. Delivered(w)
      BY <2>3 DEF Logs, Delivered
    <3>2. QED
      BY <2>3, <3>1 DEF Logs, DeliveredIsAccountedFor
  <2>4. QED
    BY <2>1, <2>2, <2>3, StepKind
<1>3. QED
  BY <1>1, <1>2, TypeCorrect, PTL DEF Spec

-----------------------------------------------------------------------------
(* The log implements the ledger.                                            *)

(* A step that changes the status of one week, and that along its life.      *)
LEMMA LedgerStep ==
  ASSUME NEW u \in Week,
         \A w \in Week : w # u => (w \in logged' <=> w \in logged),
         \A w \in Week : w # u => (Delivered(w)' <=> Delivered(w)),
         \/ (u \in logged' <=> u \in logged) /\ Delivered(u)'
         \/ u \in logged' /\ Delivered(u)
  PROVE  [Ledger!Next]_LedgerStatus
<1>1. Ledger!Week = Week
  BY DEF Ledger!Week, Week
<1>2. \A w \in Week : LedgerStatus[w] = IF w \in logged THEN "logged"
                       ELSE IF Delivered(w) THEN "delivered" ELSE "none"
  BY DEF LedgerStatus
<1>3. \A w \in Week : LedgerStatus'[w] = IF w \in logged' THEN "logged"
                       ELSE IF Delivered(w)' THEN "delivered" ELSE "none"
  BY DEF LedgerStatus
<1>4. LedgerStatus' = [LedgerStatus EXCEPT ![u] = LedgerStatus'[u]]
  <2>1. \A w \in Week : w # u => LedgerStatus'[w] = LedgerStatus[w]
    BY <1>2, <1>3
  <2>2. LedgerStatus = [w \in Week |-> LedgerStatus[w]]
    BY DEF LedgerStatus
  <2>3. LedgerStatus' = [w \in Week |-> LedgerStatus'[w]]
    BY DEF LedgerStatus
  <2>4. QED
    BY <2>1, <2>2, <2>3
<1>5. CASE LedgerStatus'[u] = LedgerStatus[u]
  <2>1. LedgerStatus = [w \in Week |-> LedgerStatus[w]]
    BY DEF LedgerStatus
  <2>2. LedgerStatus' = LedgerStatus
    BY <1>4, <1>5, <2>1
  <2>3. QED
    BY <2>2
<1>6. CASE LedgerStatus[u] = "none" /\ LedgerStatus'[u] = "delivered"
  <2>1. Ledger!Deliver(u)
    BY <1>4, <1>6 DEF Ledger!Deliver
  <2>2. QED
    BY <1>1, <2>1 DEF Ledger!Next
<1>7. CASE LedgerStatus[u] = "delivered" /\ LedgerStatus'[u] = "logged"
  <2>1. Ledger!Log(u)
    BY <1>4, <1>7 DEF Ledger!Log
  <2>2. QED
    BY <1>1, <2>1 DEF Ledger!Next
<1>8. QED
  BY <1>2, <1>3, <1>5, <1>6, <1>7

(* Digest implements DigestLedger: whatever runs, crashes and time-outs do,   *)
(* a week is delivered, then logged, each once, and never the other way.     *)
THEOREM ImplementsLedger == Spec => LedgerSpec
<1>1. Init => Ledger!Init
  BY DEF Init, Ledger!Init, Ledger!Week, Week, LedgerStatus, Delivered
<1>2. TypeOK /\ EvidenceInv /\ [Next]_vars => [Ledger!Next]_LedgerStatus
  <2> SUFFICES ASSUME TypeOK, EvidenceInv, [Next]_vars
               PROVE  [Ledger!Next]_LedgerStatus
    OBVIOUS
  <2>1. CASE Silent
    <3>1. LedgerStatus' = LedgerStatus
      BY <2>1 DEF Silent, LedgerStatus, Delivered
    <3>2. QED
      BY <3>1
  <2>2. ASSUME NEW r \in Run, Mails(r) PROVE [Ledger!Next]_LedgerStatus
    <3>1. PICK u \in Week : u = wk[r]
      BY DEF TypeOK
    <3>2. Delivered(u)' /\ logged' = logged
      BY <2>2, <3>1, CountMailGrows DEF Mails
    <3>3. \A w \in Week : w # u => (Delivered(w)' <=> Delivered(w))
      BY <2>2, <3>1, CountMailOnly DEF Mails
    <3>4. QED
      BY <3>2, <3>3, LedgerStep
  <2>3. ASSUME NEW r \in Run, Logs(r) PROVE [Ledger!Next]_LedgerStatus
    <3>1. PICK u \in Week : u = wk[r]
      BY DEF TypeOK
    <3>2. Delivered(u) /\ logged' = logged \cup {u}
      BY <2>3, <3>1 DEF Logs, EvidenceInv
    <3>3. \A w \in Week : Delivered(w)' <=> Delivered(w)
      BY <2>3 DEF Logs, Delivered
    <3>4. QED
      BY <3>2, <3>3, LedgerStep
  <2>4. QED
    BY <2>1, <2>2, <2>3, StepKind
<1>3. Spec => []EvidenceInv
  BY EvidenceAlways
<1>4. QED
  BY <1>1, <1>2, <1>3, TypeCorrect, PTL DEF Spec, LedgerSpec, Ledger!Spec

-----------------------------------------------------------------------------
(* Without a restart, a scheduler's next fire time is past the week only if   *)
(* it has submitted the job, or only after the grace hour.                    *)

ScheduleInv ==
  downs = 0 =>
    /\ up = Proc
    /\ \A p \in Proc :
         /\ due[p] <= week + 1
         /\ phase = "early" => due[p] <= week
         /\ phase = "grace" /\ due[p] > week => week \in fired

THEOREM NoWeekPassedOver == Spec => NoSilentSkip
<1>1. Init => ScheduleInv
  BY DEF Init, ScheduleInv
<1>2. TypeOK /\ ScheduleInv /\ [Next]_vars => ScheduleInv'
  <2> SUFFICES ASSUME TypeOK, ScheduleInv, [Next]_vars, downs' = 0
               PROVE  ScheduleInv'
    BY DEF ScheduleInv
  <2> USE DEF clock, runs, history
  <2>0. /\ week \in Nat /\ downs \in Nat
        /\ \A p \in Proc : due[p] \in Nat
        /\ due \in [Proc -> 1 .. MaxWeek + 1]
    BY BoundsAssumption DEF TypeOK, Week
  <2>1. CASE Tick
    BY <2>1, <2>0 DEF Tick, ScheduleInv
  <2>2. ASSUME NEW p \in Proc, Submit(p) PROVE ScheduleInv'
    BY <2>2, <2>0 DEF Submit, ScheduleInv
  <2>3. ASSUME NEW p \in Proc, Misfire(p) PROVE ScheduleInv'
    BY <2>3, <2>0 DEF Misfire, TooLate, ScheduleInv
  <2>4. ASSUME NEW p \in Proc, Down(p) PROVE FALSE
    BY <2>4, <2>0 DEF Down
  <2>5. ASSUME NEW p \in Proc, Start(p) PROVE FALSE
    BY <2>5 DEF Start, ScheduleInv
  <2>6. ASSUME NEW p \in Proc, NEW q \in Request, RunNow(p, q) PROVE ScheduleInv'
    BY <2>6 DEF RunNow, ScheduleInv
  <2>7. ASSUME NEW r \in Run, Check(r) PROVE ScheduleInv'
    BY <2>7 DEF Check, Skip, StartSend, ReadFails, ScheduleInv
  <2>8. ASSUME NEW r \in Run, Thread(r) PROVE ScheduleInv'
    BY <2>8 DEF Thread, Deliver, DeliverUnconfirmed, SendFails, SendEnds, ScheduleInv
  <2>9. ASSUME NEW r \in Run, Mark(r) PROVE ScheduleInv'
    BY <2>9 DEF Mark, MarkSent, YearWeek, MarkFails, ScheduleInv
  <2>10. ASSUME NEW r \in Run, Timeout(r) PROVE ScheduleInv'
    BY <2>10 DEF Timeout, ScheduleInv
  <2>11. CASE UNCHANGED vars
    BY <2>11 DEF vars, ScheduleInv
  <2>12. CASE Horizon
    BY <2>11, <2>12 DEF Horizon
  <2>13. QED
    BY <2>1, <2>2, <2>3, <2>4, <2>5, <2>6, <2>7, <2>8, <2>9, <2>10, <2>11, <2>12
       DEF Next
<1>3. ScheduleInv => (phase = "grace" /\ phase' = "rest" /\ OnTime /\ downs = 0
                      => week \in fired)
  BY DEF ScheduleInv, OnTime
<1>4. QED
  BY <1>1, <1>2, <1>3, TypeCorrect, PTL DEF Spec, NoSilentSkip
=============================================================================
