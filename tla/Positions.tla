------------------------------ MODULE Positions ------------------------------
(***************************************************************************)
(* The two ladders (vault/wealth_position.py, vault/income_position.py) and  *)
(* the places that tell a step of them: the endpoints of routers/wealth.py,  *)
(* the digest, the snapshot and the context of a chat turn                   *)
(* (memory/retrieval.py).                                                    *)
(*                                                                           *)
(* A position is computed from twenty SELECTs, each of which sees what is    *)
(* committed when it runs, so edits of the vault may fall between any two.   *)
(* A table with a cell that no listed key decrypts cannot be read (crypto.py) *)
(* and raises.  One computation is followed at a time: others only read.     *)
(* Amounts are monthly equivalents; texts and rounding are left out.         *)
(***************************************************************************)
EXTENDS Integers, Sequences, FiniteSets, FiniteSetsExt, Functions

CONSTANTS
  NULL,
  Contents,          \* for every table the sets of rows it may have
  Vaults,            \* the vaults to begin with
  Losable,           \* tables that may have a cell that cannot be decrypted
  DefaultExpenses,   \* DEFAULT_MONTHLY_EXPENSES
  TaxTarget,         \* the limits of IRA and HSA
  MaxEdits           \* bound: edits of the vault

(* The SELECTs, in order, and the table each of them reads.                  *)
Wealth == << "balances", "things", "homes", "pensions", "owed", "mortgages", "spending",
             "cash", "dear", "ira", "hsa", "brokerage", "equity", "ventures" >>
Income == << "streams", "economics", "benchmarks", "careers", "deductions", "milestones" >>

TableOf ==
  [balances |-> "accounts", things |-> "assets", homes |-> "real_estate",
   pensions |-> "retirement", owed |-> "debts", mortgages |-> "real_estate",
   spending |-> "expenses", cash |-> "accounts", dear |-> "debts", ira |-> "retirement",
   hsa |-> "retirement", brokerage |-> "accounts", equity |-> "real_estate",
   ventures |-> "business", streams |-> "streams", economics |-> "economics",
   benchmarks |-> "benchmarks", careers |-> "careers", deductions |-> "deductions",
   milestones |-> "milestones"]

Selects == Wealth \o Income
Name == DOMAIN TableOf
Table == {TableOf[n] : n \in Name}

\* The columns with amounts, which may be empty.
AmountsOf ==
  [accounts |-> {"balance"}, assets |-> {"value"}, real_estate |-> {"value", "mortgage", "equity"},
   retirement |-> {"balance", "ytd"}, debts |-> {"balance"}, expenses |-> {"amount"},
   business |-> {"net"}]

ASSUME PositionsAssumption ==
  /\ DOMAIN Contents = Table /\ Losable \subseteq Table
  /\ \A v \in Vaults : DOMAIN v = Table /\ \A t \in Table : v[t] \in Contents[t]
  /\ \A t \in DOMAIN AmountsOf : \A rows \in Contents[t] :
       /\ IsFiniteSet(rows)
       /\ \A r \in rows : \A c \in AmountsOf[t] : r[c] = NULL \/ r[c] \in Int
  /\ DefaultExpenses \in Int /\ TaxTarget \in Int /\ MaxEdits \in Nat

-----------------------------------------------------------------------------
(* The ladders, from what the SELECTs returned.                              *)

Amount(x) == IF x = NULL THEN 0 ELSE x
Total(rows, Field(_)) == SumFunction([r \in rows |-> Amount(Field(r))])
Kinds(rows, kinds) == {r \in rows : r.kind \in kinds}

CashKinds == {"checking", "savings", "cash", "hysa", "money_market", ""}
BrokerageKinds == {"brokerage", "taxable", "investment"}
IRAKinds == {"roth_ira", "traditional_ira", "ira"}

\* compute_wealth_position; the mutant leaves the mortgages out.
GrossWorth(got) ==
  LET Balance(r) == r.balance  Value(r) == r.value IN
  Total(got.balances, Balance) + Total(got.things, Value) + Total(got.homes, Value)
    + Total(got.pensions, Balance) - Total(got.owed, Balance)

NetWorth(got) ==
  LET Balance(r) == r.balance  Value(r) == r.value  Mortgage(r) == r.mortgage IN
  Total(got.balances, Balance) + Total(got.things, Value) + Total(got.homes, Value)
    + Total(got.pensions, Balance) - Total(got.owed, Balance) - Total(got.mortgages, Mortgage)

Cash(rows) == LET Balance(r) == r.balance IN Total(Kinds(rows, CashKinds), Balance)
Brokerage(rows) == LET Balance(r) == r.balance IN Total(Kinds(rows, BrokerageKinds), Balance)
Dear(rows) == LET Balance(r) == r.balance IN Total({r \in rows : r.apr = "high"}, Balance)
YTD(rows, kinds) == LET Ytd(r) == r.ytd IN Total(Kinds(rows, kinds), Ytd)
Ventures(rows) == LET Net(r) == IF Amount(r.net) > 0 THEN r.net ELSE 0 IN Total(rows, Net)

(* No expenses, or none that sum to anything, count as the default.          *)
Spending(rows) ==
  LET Typical(r) == r.amount
      total == Total(rows, Typical) IN
  IF total > 0 THEN total ELSE DefaultExpenses

(* equity_estimate, else what the value exceeds the mortgage by.             *)
Equity(rows) ==
  LET Of(r) == CASE r.equity # NULL -> r.equity
                 [] r.equity = NULL /\ r.value # NULL /\ r.value > Amount(r.mortgage) ->
                      r.value - Amount(r.mortgage)
                 [] OTHER -> 0 IN
  Total(rows, Of)

WealthGates(got) ==
  << Cash(got.cash) >= 3 * Spending(got.spending),
     Dear(got.dear) = 0,
     YTD(got.ira, IRAKinds) + YTD(got.hsa, {"hsa"}) >= TaxTarget,
     Brokerage(got.brokerage) > 0,
     Equity(got.equity) > 0,
     Ventures(got.ventures) > 0 >>

(* The typical amount of a stream, else its rolling average.                 *)
Earned(rows) == {r \in rows : r.typical # NULL \/ r.rolling # NULL}
Earning(r) == IF r.typical # NULL THEN r.typical ELSE r.rolling

(* Step 2: no stream is more than 30% below the top one, or they can be      *)
(* ranked by the hour.                                                       *)
IncomeGates(got) ==
  LET amounts == {Earning(r) : r \in Earned(got.streams)} IN
  << got.economics # {} /\ got.streams # {},
     \/ Cardinality(Earned(got.streams)) <= 1 \/ got.economics # {} \/ Max(amounts) <= 0
     \/ 10 * (Max(amounts) - Min(amounts)) <= 3 * Max(amounts),
     got.benchmarks # {} /\ got.careers # {},
     got.deductions # {},
     got.milestones # {} >>

\* [step for step in ladder if not step["funded"]]
OpenGaps(gates) ==
  LET Gaps[i \in 0..Len(gates)] ==
        IF i = 0 THEN <<>>
        ELSE IF gates[i] THEN Gaps[i - 1] ELSE Append(Gaps[i - 1], i)
  IN Gaps[Len(gates)]

-----------------------------------------------------------------------------
(* The step each consumer tells.                                             *)

\* Digest, snapshot and the bridges of the chat: the first gap, else the
\* last step.  The mutants take the last gap, and count past the last step.
LastGap(gaps, top) == IF gaps = <<>> THEN top ELSE gaps[Len(gaps)]
PastTop(gaps, top) == IF gaps = <<>> THEN top + 1 ELSE gaps[1]
StepOf(gaps, top) == IF gaps = <<>> THEN top ELSE gaps[1]

\* _build_vault_snapshot: an empty ladder is one that could not be computed.
SnapshotStepOf(ladder, top) ==
  IF ladder = <<>> THEN 0 ELSE StepOf(OpenGaps(ladder), top)

-----------------------------------------------------------------------------
VARIABLES
  vault,     \* committed rows of every table
  lost,      \* tables with a cell that cannot be decrypted
  edits,     \* number of edits so far
  reading,   \* the computation under way
  stored,    \* the latest snapshot
  told,      \* the answer
  before     \* history: for the computation, the vault at its start, whether edits
             \* came since, only edits that improve, and whether the snapshot is of
             \* the vault as it was

vars == <<vault, lost, edits, reading, stored, told, before>>

Kind == {"allocation", "income", "both", "chat"}
NoReading == [kind |-> "none", next |-> 0, got |-> <<>>, wealth |-> <<>>, income |-> <<>>]

Step == 0..6
NoAnswer == [kind |-> "none", ok |-> FALSE, wealth |-> {}, income |-> {}, worth |-> 0]

Gates == {<<>>} \cup [1..6 -> BOOLEAN] \cup [1..5 -> BOOLEAN]

TypeOK ==
  /\ DOMAIN vault = Table /\ \A t \in Table : vault[t] \in Contents[t]
  /\ lost \subseteq Losable /\ edits \in 0..MaxEdits
  /\ reading.kind \in Kind \cup {"none"} /\ reading.next \in 0..Len(Selects)
  /\ DOMAIN reading.got \subseteq Name
  /\ reading.wealth \in Gates /\ reading.income \in Gates
  /\ stored \in [wealth : Step, income : 0..5]
  /\ told.kind \in Kind \cup {"none"} /\ told.ok \in BOOLEAN /\ told.worth \in Int
  /\ told.wealth \subseteq Step /\ told.income \subseteq 0..5

(* What the SELECTs return when nothing commits between them.                *)
Quietly(v) == [n \in Name |-> v[TableOf[n]]]

(* The intake has been submitted, and no edit came after its snapshot.       *)
Init ==
  /\ vault \in Vaults /\ lost \in {{}} \cup {{t} : t \in Losable}
  /\ edits = 0 /\ reading = NoReading /\ told = NoAnswer
  /\ stored = [wealth |-> StepOf(OpenGaps(WealthGates(Quietly(vault))), 6),
               income |-> StepOf(OpenGaps(IncomeGates(Quietly(vault))), 5)]
  /\ before = [vault |-> vault, edited |-> FALSE, improved |-> TRUE, fresh |-> TRUE]

AbsOf(n) == IF n < 0 THEN -n ELSE n

(* What the gates of the wealth ladder compare; more is better.  A debt may  *)
(* be overpaid, and the gate asks for nothing owed and nothing overpaid.     *)
Measures(v) ==
  << Cash(v["accounts"]), -Spending(v["expenses"]), -AbsOf(Dear(v["debts"])),
     YTD(v["retirement"], IRAKinds), YTD(v["retirement"], {"hsa"}),
     Brokerage(v["accounts"]), Equity(v["real_estate"]), Ventures(v["business"]) >>
Improves(v, w) == \A i \in DOMAIN Measures(v) : Measures(v)[i] <= Measures(w)[i]

(* A commit of any handler that writes one table.  A table that cannot be    *)
(* read cannot be edited.                                                    *)
Edit ==
  /\ edits < MaxEdits /\ told = NoAnswer /\ edits' = edits + 1
  /\ \E t \in Table \ lost : \E rows \in Contents[t] \ {vault[t]} :
       LET after == [vault EXCEPT ![t] = rows] IN
       /\ vault' = after
       /\ before' = [before EXCEPT !.edited = TRUE, !.fresh = FALSE,
                       !.improved = @ /\ Improves(vault, after)]
  /\ UNCHANGED <<lost, reading, stored, told>>

-----------------------------------------------------------------------------
FirstOf(kind) == IF kind = "income" THEN Len(Wealth) + 1 ELSE 1
LastOf(kind) == IF kind = "allocation" THEN Len(Wealth) ELSE Len(Selects)

Begin ==
  /\ reading = NoReading /\ told = NoAnswer
  /\ \E k \in Kind : reading' = [NoReading EXCEPT !.kind = k, !.next = FirstOf(k)]
  /\ before' = [before EXCEPT !.vault = vault, !.edited = FALSE, !.improved = TRUE]
  /\ UNCHANGED <<vault, lost, edits, stored, told>>

(* The answer of a computation that got this far.  The endpoints and the     *)
(* digest only tell it; the snapshot engine stores it too.                   *)
Answer(r) ==
  /\ reading' = NoReading
  /\ told' = [kind |-> r.kind,
              ok |-> (r.kind = "income" \/ r.wealth # <<>>) /\ (r.kind = "allocation" \/ r.income # <<>>),
              worth |-> IF r.wealth = <<>> THEN 0 ELSE NetWorth(r.got),
              wealth |-> CASE r.kind = "income" -> {}
                           [] r.kind = "chat" -> {StepOf(OpenGaps(r.wealth), 6),
                                                  SnapshotStepOf(r.wealth, 6)}
                           [] OTHER -> {StepOf(OpenGaps(r.wealth), 6)},
              income |-> CASE r.kind = "allocation" -> {}
                           [] r.kind = "chat" -> {StepOf(OpenGaps(r.income), 5),
                                                  SnapshotStepOf(r.income, 5)}
                           [] OTHER -> {StepOf(OpenGaps(r.income), 5)}]
  /\ \/ /\ r.kind = "both"
        /\ stored' = [wealth |-> StepOf(OpenGaps(r.wealth), 6),
                      income |-> StepOf(OpenGaps(r.income), 5)]
        /\ before' = [before EXCEPT !.fresh = ~before.edited]
     \/ UNCHANGED <<stored, before>>

Proceed(r) ==
  IF r.next = LastOf(r.kind) THEN Answer(r)
  ELSE /\ reading' = [r EXCEPT !.next = @ + 1]
       /\ UNCHANGED <<stored, told, before>>

(* The next SELECT; after the last one of a ladder the ladder is built.      *)
Select ==
  /\ reading # NoReading
  /\ LET i == reading.next
         got == [n \in DOMAIN reading.got \cup {Selects[i]} |->
                   IF n = Selects[i] THEN vault[TableOf[n]] ELSE reading.got[n]]
         r == [reading EXCEPT !.got = got] IN
     /\ TableOf[Selects[i]] \notin lost
     /\ Proceed(CASE i = Len(Wealth) -> [r EXCEPT !.wealth = WealthGates(got)]
                  [] i = Len(Selects) -> [r EXCEPT !.income = IncomeGates(got)]
                  [] OTHER -> r)
  /\ UNCHANGED <<vault, lost, edits>>

(* A SELECT raises.  build_retrieval_context goes on with an empty ladder;   *)
(* every other caller fails.                                                 *)
Raise ==
  /\ reading # NoReading /\ TableOf[Selects[reading.next]] \in lost
  /\ IF reading.kind = "chat"
     THEN Proceed([reading EXCEPT !.next =
            IF reading.next <= Len(Wealth) THEN Len(Wealth) ELSE Len(Selects)])
     ELSE /\ reading' = NoReading /\ told' = [NoAnswer EXCEPT !.kind = reading.kind]
          /\ UNCHANGED <<stored, before>>
  /\ UNCHANGED <<vault, lost, edits>>

Next == Edit \/ Begin \/ Select \/ Raise

Spec == Init /\ [][Next]_vars

-----------------------------------------------------------------------------
(* What the answers are held against: a vault and not what SELECTs returned. *)

Sum(rows, Of(_)) == SumFunction([r \in rows |-> Of(r)])
Worth(v) ==
  LET Balance(r) == Amount(r.balance)
      Home(r) == Amount(r.value) - Amount(r.mortgage)
      Value(r) == Amount(r.value) IN
  Sum(v["accounts"], Balance) + Sum(v["retirement"], Balance)
    + Sum(v["assets"], Value) + Sum(v["real_estate"], Home)
    - Sum(v["debts"], Balance)

WealthMet(v) == WealthGates(Quietly(v))
IncomeMet(v) == IncomeGates(Quietly(v))

\* docs/CONTRACTS.md:147, "the position is the lowest step whose gate is unmet".
Lowest(met) ==
  IF \A i \in DOMAIN met : met[i] THEN Len(met)
  ELSE CHOOSE i \in DOMAIN met : ~met[i] /\ \A j \in 1..(i - 1) : met[j]

Told == told' # told /\ told'.ok

(* When nothing commits during the SELECTs, every consumer names the lowest  *)
(* step whose gate the vault does not meet and its net worth, and a snapshot *)
(* made since the last edit names the same steps as the live position beside *)
(* it in the prompt.                                                         *)
QuietReadIsExact ==
  [][Told /\ ~before.edited =>
       /\ told'.wealth \subseteq {Lowest(WealthMet(vault))}
       /\ told'.income \subseteq {Lowest(IncomeMet(vault))}
       /\ told'.kind # "income" => told'.worth = Worth(vault)
       /\ before'.fresh =>
            stored' = [wealth |-> Lowest(WealthMet(vault)), income |-> Lowest(IncomeMet(vault))]]_vars

(* Edits that commit between the SELECTs can make up a vault that never was. *)
(* As long as each of them improves matters, the step told is still one      *)
(* between those of the vaults before and after: no gate is claimed that is  *)
(* not met by now, and none is lost that was met.                            *)
BetweenIfImproving ==
  [][Told /\ before.improved =>
       \A s \in told'.wealth :
         Lowest(WealthMet(before.vault)) <= s /\ s <= Lowest(WealthMet(vault))]_vars

=============================================================================
