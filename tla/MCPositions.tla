---------------------------- MODULE MCPositions ----------------------------
(* An empty vault, and one that meets every gate by a hair; every table has  *)
(* one or two other contents.  Default expenses are 1, the tax target is 2.  *)
EXTENDS Positions

Acc(k, n) == [kind |-> k, balance |-> n]
Home(v, m, e) == [value |-> v, mortgage |-> m, equity |-> e]
Plan(k, n) == [kind |-> k, balance |-> n, ytd |-> n]
Stream(t, r) == [typical |-> t, rolling |-> r]
One == {{}, {[id |-> 1]}}

MCContents ==
  [accounts |-> {{}, {Acc("hysa", 6), Acc("brokerage", 1)}, {Acc("checking", 3), Acc("credit", 5)}},
   assets |-> {{}, {[value |-> 1]}},
   real_estate |-> {{}, {Home(3, 2, NULL)}, {Home(2, 2, NULL), Home(NULL, 1, 0)}},
   retirement |-> {{}, {Plan("roth_ira", 1), Plan("hsa", 1)}, {Plan("roth_ira", 1), Plan("401k", 1)}},
   debts |-> {{}, {[balance |-> 2, apr |-> "low"]}, {[balance |-> 1, apr |-> "high"]},
             {[balance |-> -1, apr |-> "high"]}},
   expenses |-> {{}, {[amount |-> 2]}},
   business |-> {{}, {[net |-> 1], [net |-> -1]}, {[net |-> -1]}},
   streams |-> {{}, {Stream(10, NULL), Stream(NULL, 7)}, {Stream(10, 1), Stream(6, NULL)}},
   economics |-> One, benchmarks |-> One, careers |-> One, deductions |-> One,
   milestones |-> One]

Empty == [t \in Table |-> {}]
Full ==
  [t \in Table |->
     CASE t = "accounts" -> {Acc("hysa", 6), Acc("brokerage", 1)}
       [] t = "real_estate" -> {Home(3, 2, NULL)}
       [] t = "retirement" -> {Plan("roth_ira", 1), Plan("hsa", 1)}
       [] t = "debts" -> {[balance |-> 2, apr |-> "low"]}
       [] t = "expenses" -> {[amount |-> 2]}
       [] t = "business" -> {[net |-> 1], [net |-> -1]}
       [] t = "streams" -> {Stream(10, NULL), Stream(NULL, 7)}
       [] t = "assets" -> {[value |-> 1]}
       [] OTHER -> {[id |-> 1]}]
MCVaults == {Empty, Full}
=============================================================================
