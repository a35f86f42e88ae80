---------------------------- MODULE PettyCashProofs ----------------------------
(***************************************************************************)
(* Proofs about PettyCash, for any lines, amounts, projects, users and     *)
(* workers.                                                                *)
(***************************************************************************)
EXTENDS PettyCash, FiniteSetTheorems, WellFoundedInduction, TLAPS

---------------------------------------------------------------------------
\* The inductive invariant.

AmountsOfLines == [Line -> Amounts \cup {NULL}]
ExpensesOfLines == [Line -> LineExpense \cup {NULL}]

\* What an edit of the lines that loaded read makes of line l: its expense was a draft, and
\* it goes with the line or follows its amount; none is created.
Edited(req, l) ==
    LET read == req.readExpense[l]
        new == req.newExpense[l]
    IN  /\ read # NULL /\ read # new => read.status = "draft"
        /\ read = NULL => new = NULL
        /\ new # NULL => req.newAmount[l] # NULL /\ new.amount = req.newAmount[l]

\* What a handler at work holds: rows of their types, of a report it loaded as a draft.
Held(req) ==
    /\ req.op \in {"header", "edit", "post"}
    /\ req.readReport \in PettyCashReport
    /\ req.newReport \in PettyCashReport
    /\ req.readReport.status = "draft"
    /\ req.readAmount \in AmountsOfLines
    /\ req.newAmount \in AmountsOfLines
    /\ req.readExpense \in ExpensesOfLines
    /\ req.newExpense \in ExpensesOfLines
    /\ req.removed \in Nat
    /\ IF req.op = "edit" THEN \A l \in Line : Edited(req, l)
       ELSE req.newAmount = req.readAmount /\ req.newExpense = req.readExpense

\* A line that had no expense when some handler loaded the report still has none.
LoadedBefore(req) ==
    \A l \in Line : req.readExpense[l] = NULL => expense[l] = NULL

\* The total a handler is about to write, if nobody came between so far.
TotalHeld(req) ==
    ~ overlapped => req.newReport.total_amount = Total(req.newAmount) + req.removed

TablesTyped ==
    /\ report \in PettyCashReport \cup {NULL}
    /\ amount \in AmountsOfLines
    /\ expense \in ExpensesOfLines
    /\ accepting \subseteq ProjectCode
    /\ created \in BOOLEAN
    /\ lingering \in Nat

RequestsHeld ==
    \A w \in Worker :
        \/ request[w] = Idle
        \/ request[w].op = "delete_project"
        \/ Held(request[w]) /\ LoadedBefore(request[w]) /\ TotalHeld(request[w])

\* An expense of a line has its line, also when edits overlap.
ExpensesHaveLines == \A l \in Line : expense[l] # NULL => amount[l] # NULL

\* Nothing happens to the report before it is created.
NotBefore ==
    ~ created => /\ report = NULL
                 /\ \A l \in Line : amount[l] = NULL
                 /\ \A w \in Worker : request[w] = Idle \/ request[w].op = "delete_project"
                 /\ lingering = 0

IInv ==
    /\ TablesTyped
    /\ DOMAIN request = Worker
    /\ RequestsHeld
    /\ ExpensesHaveLines
    /\ NotBefore
    /\ ExpensesFollowLines
    /\ TotalExplained

---------------------------------------------------------------------------
\* Numbers and finite sets have least members: induction for what follows.

\* Every set of numbers that is not empty has a least one.
LEMMA LeastNumber ==
    ASSUME NEW T \in SUBSET Nat, T # {}
    PROVE  \E n \in T : \A m \in T : n <= m
<1> DEFINE less == {ss \in Nat \X Nat : ss[1] < ss[2]}
<1>1. IsWellFoundedOn(less, Nat)
  BY NatLessThanWellFounded DEF OpToRel
<1>2. PICK n \in T : \A m \in T : <<m, n>> \notin less
  BY <1>1, WFMin
<1>3. \A m \in T : ~ (m < n)
  BY <1>2
<1> QED
  BY <1>3

\* Every family of subsets of a finite set that is not empty has a smallest member.
LEMMA SmallestSet ==
    ASSUME NEW S, IsFiniteSet(S), NEW T \in SUBSET SUBSET S, T # {}
    PROVE  \E s \in T : \A t \in T : t \subseteq s => t = s
<1> DEFINE sizes == {Cardinality(s) : s \in T}
<1>1. \A s \in T : IsFiniteSet(s) /\ Cardinality(s) \in Nat
  BY FS_Subset, FS_CardinalityType
<1>2. PICK n \in sizes : \A m \in sizes : n <= m
  <2>1. sizes \in SUBSET Nat /\ sizes # {}
    BY <1>1
  <2> HIDE DEF sizes
  <2> QED
    BY <2>1, LeastNumber
<1>3. PICK s \in T : n = Cardinality(s)
  BY <1>2
<1>4. ASSUME NEW t \in T, t \subseteq s
      PROVE  t = s
  <2>1. Cardinality(t) <= Cardinality(s) /\ (Cardinality(s) = Cardinality(t) => s = t)
    BY <1>1, <1>4, FS_Subset
  <2>2. Cardinality(s) <= Cardinality(t)
    BY <1>2, <1>3
  <2> QED
    BY <1>1, <2>1, <2>2
<1> QED
  BY <1>4

---------------------------------------------------------------------------
\* Sums over finite sets, one member at a time.

SumOver(val, S) == MapThenSumSet(LAMBDA x : val[x], S)

Picked(s) == CHOOSE x \in s : TRUE

IsSum(sum, val, S) ==
    sum = [s \in SUBSET S |-> IF s = {} THEN 0 ELSE val[Picked(s)] + sum[s \ {Picked(s)}]]

LEMMA SumUnique ==
    ASSUME NEW val, NEW S, NEW T, NEW f, NEW g, IsSum(f, val, S), IsSum(g, val, T),
           NEW u \in SUBSET (S \cap T), IsFiniteSet(u)
    PROVE  f[u] = g[u]
<1> DEFINE differ == {s \in SUBSET u : f[s] # g[s]}
<1> SUFFICES ASSUME differ # {} PROVE FALSE
  BY u \in SUBSET u
<1>1. PICK s \in differ : \A t \in differ : t \subseteq s => t = s
  <2>1. differ \in SUBSET SUBSET u
    OBVIOUS
  <2> HIDE DEF differ
  <2> QED
    BY <2>1, SmallestSet
<1>2. /\ f[s] = IF s = {} THEN 0 ELSE val[Picked(s)] + f[s \ {Picked(s)}]
      /\ g[s] = IF s = {} THEN 0 ELSE val[Picked(s)] + g[s \ {Picked(s)}]
  BY DEF IsSum
<1>3. s # {} /\ Picked(s) \in s
  BY <1>1, <1>2 DEF Picked
<1>4. f[s \ {Picked(s)}] = g[s \ {Picked(s)}]
  BY <1>1, <1>3
<1> QED
  BY <1>1, <1>2, <1>3, <1>4

LEMMA SumExists ==
    ASSUME NEW S, IsFiniteSet(S), NEW val
    PROVE  \E sum : IsSum(sum, val, S)
<1> DEFINE missing == {s \in SUBSET S : ~ \E sum : IsSum(sum, val, s)}
<1> SUFFICES ASSUME missing # {} PROVE FALSE
  BY S \in SUBSET S
<1>1. PICK s \in missing : \A t \in missing : t \subseteq s => t = s
  <2>1. missing \in SUBSET SUBSET S
    OBVIOUS
  <2> HIDE DEF missing
  <2> QED
    BY <2>1, SmallestSet
<1> DEFINE Of(t) == (CHOOSE sum : IsSum(sum, val, t))[t]
           whole == [t \in SUBSET s |-> IF t = {} THEN 0
                                         ELSE val[Picked(t)] + Of(t \ {Picked(t)})]
<1>2. ASSUME NEW t \in SUBSET s, t # s
      PROVE  IsSum(CHOOSE sum : IsSum(sum, val, t), val, t)
  BY <1>1, <1>2
<1>3. ASSUME NEW t \in SUBSET s, t # s
      PROVE  whole[t] = Of(t)
  <2> DEFINE sum == CHOOSE h : IsSum(h, val, t)
             rest == t \ {Picked(t)}
             less == CHOOSE h : IsSum(h, val, rest)
  <2>1. IsSum(sum, val, t)
    BY <1>2, <1>3
  <2>2. sum[t] = IF t = {} THEN 0 ELSE val[Picked(t)] + sum[rest]
    <3> HIDE DEF sum
    <3> QED
      BY <2>1 DEF IsSum
  <2>3. t # {} => sum[rest] = less[rest]
    <3>1. rest \in SUBSET s /\ rest # s /\ IsFiniteSet(rest)
      BY <1>1, <1>3, FS_Subset
    <3>2. IsSum(less, val, rest)
      BY <1>2, <3>1
    <3> HIDE DEF sum, less
    <3> QED
      BY <2>1, <3>1, <3>2, SumUnique
  <2> QED
    BY <2>2, <2>3
<1>4. ASSUME NEW t \in SUBSET s, t # {}
      PROVE  /\ t \ {Picked(t)} \in SUBSET s
             /\ t \ {Picked(t)} # s
  BY <1>4 DEF Picked
<1>5. \A t \in SUBSET s : t # {} => whole[t \ {Picked(t)}] = Of(t \ {Picked(t)})
  <2> HIDE DEF whole, Of
  <2> QED
    BY <1>3, <1>4
<1>6. IsSum(whole, val, s)
  <2> HIDE DEF Of
  <2>1. whole = [t \in SUBSET s |-> IF t = {} THEN 0
                                    ELSE val[Picked(t)] + whole[t \ {Picked(t)}]]
    BY <1>5
  <2> HIDE DEF whole
  <2> QED
    BY <2>1 DEF IsSum
<1> QED
  BY <1>1, <1>6

LEMMA SumStep ==
    ASSUME NEW S, IsFiniteSet(S), NEW val
    PROVE  /\ S = {} => SumOver(val, S) = 0
           /\ S # {} => /\ Picked(S) \in S
                        /\ SumOver(val, S) = val[Picked(S)] + SumOver(val, S \ {Picked(S)})
<1> DEFINE Sum(T) == CHOOSE g : IsSum(g, val, T)
           rest == S \ {Picked(S)}
<1>1. \A T : SumOver(val, T) = Sum(T)[T]
  BY Zenon DEF SumOver, MapThenSumSet, MapThenFoldSet, IsSum, Picked
<1>2. IsFiniteSet(rest)
  BY FS_Subset
<1>3. IsSum(Sum(S), val, S) /\ IsSum(Sum(rest), val, rest)
  BY <1>2, SumExists
<1> HIDE DEF Sum
<1>4. Sum(S)[S] = IF S = {} THEN 0 ELSE val[Picked(S)] + Sum(S)[rest]
  BY <1>3 DEF IsSum
<1>5. Sum(S)[rest] = Sum(rest)[rest]
  BY <1>2, <1>3, SumUnique
<1>6. S # {} => Picked(S) \in S
  BY DEF Picked
<1> QED
  BY <1>1, <1>4, <1>5, <1>6

\* A sum of numbers is one, and of those at least zero at least zero.
LEMMA SumType ==
    ASSUME NEW S, IsFiniteSet(S), NEW val, \A x \in S : val[x] \in Int
    PROVE  /\ SumOver(val, S) \in Int
           /\ (\A x \in S : val[x] >= 0) => SumOver(val, S) >= 0
<1> DEFINE Holds(s) == /\ SumOver(val, s) \in Int
                       /\ (\A x \in S : val[x] >= 0) => SumOver(val, s) >= 0
           wrong == {s \in SUBSET S : ~ Holds(s)}
<1> SUFFICES ASSUME wrong # {} PROVE FALSE
  BY S \in SUBSET S
<1>1. PICK s \in wrong : \A t \in wrong : t \subseteq s => t = s
  <2>1. wrong \in SUBSET SUBSET S
    OBVIOUS
  <2> HIDE DEF wrong
  <2> QED
    BY <2>1, SmallestSet
<1> DEFINE rest == s \ {Picked(s)}
<1>2. IsFiniteSet(s)
  BY FS_Subset
<1>3. s # {}
  <2>1. s = {} => SumOver(val, s) = 0
    BY <1>2, SumStep
  <2> QED
    BY <1>1, <2>1
<1>4. Picked(s) \in s /\ SumOver(val, s) = val[Picked(s)] + SumOver(val, rest)
  BY <1>2, <1>3, SumStep
<1>5. Holds(rest)
  <2>1. rest \in SUBSET S /\ rest \subseteq s /\ rest # s
    BY <1>4
  <2> HIDE DEF Holds, rest
  <2> QED
    BY <1>1, <2>1
<1>6. Picked(s) \in S
  BY <1>4
<1> HIDE DEF rest
<1> QED
  BY <1>1, <1>4, <1>5, <1>6

\* Any member may be counted first.
LEMMA SumRemove ==
    ASSUME NEW S, IsFiniteSet(S), NEW val, \A x \in S : val[x] \in Int
    PROVE  \A x \in S : SumOver(val, S) = val[x] + SumOver(val, S \ {x})
<1> DEFINE Holds(s) == \A x \in s : SumOver(val, s) = val[x] + SumOver(val, s \ {x})
           wrong == {s \in SUBSET S : ~ Holds(s)}
<1> SUFFICES ASSUME wrong # {} PROVE FALSE
  BY S \in SUBSET S
<1>1. PICK s \in wrong : \A t \in wrong : t \subseteq s => t = s
  <2>1. wrong \in SUBSET SUBSET S
    OBVIOUS
  <2> HIDE DEF wrong
  <2> QED
    BY <2>1, SmallestSet
<1>2. PICK x \in s : SumOver(val, s) # val[x] + SumOver(val, s \ {x})
  BY <1>1
<1> DEFINE p == Picked(s)
           both == s \ {p, x}
<1>3. /\ IsFiniteSet(s)
      /\ IsFiniteSet(s \ {x})
      /\ IsFiniteSet(s \ {p})
      /\ IsFiniteSet(both)
  BY FS_Subset
<1>4. p \in s /\ SumOver(val, s) = val[p] + SumOver(val, s \ {p})
  BY <1>3, SumStep
<1>5. p # x
  BY <1>2, <1>4
<1>6. Holds(s \ {p}) /\ Holds(s \ {x})
  <2>1. /\ s \ {p} \in SUBSET S /\ s \ {p} \subseteq s /\ s \ {p} # s
        /\ s \ {x} \in SUBSET S /\ s \ {x} \subseteq s /\ s \ {x} # s
    BY <1>4
  <2> HIDE DEF Holds, p
  <2> QED
    BY <1>1, <2>1
<1>7. (s \ {p}) \ {x} = both /\ (s \ {x}) \ {p} = both
  OBVIOUS
<1>8. SumOver(val, s \ {p}) = val[x] + SumOver(val, both)
  BY <1>5, <1>6, <1>7
<1>9. SumOver(val, s \ {x}) = val[p] + SumOver(val, both)
  BY <1>4, <1>5, <1>6, <1>7
<1>10. SumOver(val, both) \in Int
  BY <1>3, SumType
<1>11. val[x] \in Int /\ val[p] \in Int
  BY <1>4
<1> HIDE DEF p, both
<1> QED
  BY <1>2, <1>4, <1>8, <1>9, <1>10, <1>11

\* A set falls into two: so does its sum.
LEMMA SumSplit ==
    ASSUME NEW S, NEW B, NEW C, IsFiniteSet(S), S = B \cup C, B \cap C = {},
           NEW f, NEW g, NEW h, \A x \in S : h[x] \in Int,
           \A x \in B : h[x] = f[x],
           \A x \in C : h[x] = g[x]
    PROVE  SumOver(h, S) = SumOver(f, B) + SumOver(g, C)
<1> DEFINE Holds(s) == SumOver(h, s) = SumOver(f, s \cap B) + SumOver(g, s \ B)
           wrong == {s \in SUBSET S : ~ Holds(s)}
<1> SUFFICES ASSUME wrong # {} PROVE FALSE
  <2>1. S \cap B = B /\ S \ B = C
    OBVIOUS
  <2> QED
    BY <2>1, S \in SUBSET S
<1>1. PICK s \in wrong : \A t \in wrong : t \subseteq s => t = s
  <2>1. wrong \in SUBSET SUBSET S
    OBVIOUS
  <2> HIDE DEF wrong
  <2> QED
    BY <2>1, SmallestSet
<1> DEFINE p == Picked(s)
           rest == s \ {p}
<1>2. /\ IsFiniteSet(s) /\ IsFiniteSet(s \cap B) /\ IsFiniteSet(s \ B)
      /\ IsFiniteSet(rest \cap B) /\ IsFiniteSet(rest \ B)
  BY FS_Subset
<1>3. s # {}
  <2>1. /\ s = {} => SumOver(h, s) = 0
        /\ s \cap B = {} => SumOver(f, s \cap B) = 0
        /\ s \ B = {} => SumOver(g, s \ B) = 0
    BY <1>2, SumStep
  <2> QED
    BY <1>1, <2>1
<1>4. p \in s /\ SumOver(h, s) = h[p] + SumOver(h, rest)
  BY <1>2, <1>3, SumStep
<1>5. Holds(rest)
  <2>1. rest \in SUBSET S /\ rest \subseteq s /\ rest # s
    BY <1>4
  <2> HIDE DEF Holds, rest
  <2> QED
    BY <1>1, <2>1
<1>6. \A x \in S \cap B : f[x] \in Int
  OBVIOUS
<1>7. \A x \in S \ B : g[x] \in Int
  OBVIOUS
<1>8. SumOver(f, rest \cap B) \in Int /\ SumOver(g, rest \ B) \in Int
  BY <1>2, <1>6, <1>7, SumType
<1>9. p \in S
  BY <1>4
<1>10. SumOver(h, s) # SumOver(f, s \cap B) + SumOver(g, s \ B)
  BY <1>1
<1>11. CASE p \in B
  <2>1. \A x \in s \cap B : SumOver(f, s \cap B) = f[x] + SumOver(f, (s \cap B) \ {x})
    <3>1. \A x \in s \cap B : f[x] \in Int
      BY <1>6
    <3> QED
      BY <1>2, <3>1, SumRemove
  <2>2. (s \cap B) \ {p} = rest \cap B /\ s \ B = rest \ B
    BY <1>11
  <2>3. SumOver(f, s \cap B) = f[p] + SumOver(f, rest \cap B)
    BY <1>4, <1>11, <2>1, <2>2
  <2>4. f[p] \in Int /\ h[p] = f[p]
    BY <1>9, <1>11
  <2>5. SumOver(g, s \ B) = SumOver(g, rest \ B)
    BY <2>2
  <2> HIDE DEF p, rest, wrong
  <2> QED
    BY <1>10, <1>4, <1>5, <1>8, <2>3, <2>4, <2>5
<1>12. CASE p \notin B
  <2>1. \A x \in s \ B : SumOver(g, s \ B) = g[x] + SumOver(g, (s \ B) \ {x})
    <3>1. \A x \in s \ B : g[x] \in Int
      BY <1>7
    <3> QED
      BY <1>2, <3>1, SumRemove
  <2>2. (s \ B) \ {p} = rest \ B /\ s \cap B = rest \cap B
    BY <1>12
  <2>3. SumOver(g, s \ B) = g[p] + SumOver(g, rest \ B)
    BY <1>4, <1>12, <2>1, <2>2
  <2>4. g[p] \in Int /\ h[p] = g[p]
    BY <1>9, <1>12
  <2>5. SumOver(f, s \cap B) = SumOver(f, rest \cap B)
    BY <2>2
  <2> HIDE DEF p, rest, wrong
  <2> QED
    BY <1>10, <1>4, <1>5, <1>8, <2>3, <2>4, <2>5
<1> QED
  BY <1>11, <1>12


---------------------------------------------------------------------------
\* Totals.

LineSet(amounts) == {l \in Line : amounts[l] # NULL}

LEMMA AmountFacts ==
    /\ \A a \in Amounts : a \in Int /\ a >= 0 /\ a # NULL
    /\ NULL \notin LineExpense
    /\ NULL \notin PettyCashReport
<1>1. /\ Amounts \subseteq Nat \ {0}
      /\ \A a \in Amounts : a # NULL
      /\ NULL \notin LineExpense
      /\ NULL \notin PettyCashReport
  BY Zenon, LineAssumption
<1> QED
  BY <1>1

LEMMA TotalType ==
    ASSUME NEW amounts \in AmountsOfLines
    PROVE  Total(amounts) \in Nat
<1>1. Total(amounts) = SumOver(amounts, LineSet(amounts))
  BY Zenon DEF Total, SumOver, LineSet
<1>2. IsFiniteSet(LineSet(amounts))
  BY LineAssumption, FS_Subset DEF LineSet
<1>3. \A l \in LineSet(amounts) : amounts[l] \in Int /\ amounts[l] >= 0
  BY AmountFacts DEF LineSet, AmountsOfLines
<1>4. SumOver(amounts, LineSet(amounts)) \in Int /\ SumOver(amounts, LineSet(amounts)) >= 0
  BY <1>2, <1>3, SumType
<1> QED
  BY <1>1, <1>4

\* The total an edit leaves counts the lines it keeps and those it removes.
LEMMA TotalOfBoth ==
    ASSUME NEW kept \in SUBSET Line, NEW values \in [kept -> Amounts],
           NEW before \in AmountsOfLines
    PROVE  LET after == [l \in Line |-> IF l \in kept THEN values[l] ELSE NULL]
               gone == [l \in Line |-> IF l \in kept THEN NULL ELSE before[l]]
               all == [l \in Line |-> IF l \in kept THEN values[l] ELSE before[l]]
           IN  /\ after \in AmountsOfLines
               /\ gone \in AmountsOfLines
               /\ all \in AmountsOfLines
               /\ Total(all) = Total(after) + Total(gone)
<1> DEFINE after == [l \in Line |-> IF l \in kept THEN values[l] ELSE NULL]
           gone == [l \in Line |-> IF l \in kept THEN NULL ELSE before[l]]
           all == [l \in Line |-> IF l \in kept THEN values[l] ELSE before[l]]
           S == LineSet(all)
           B == LineSet(after)
           C == LineSet(gone)
<1>1. after \in AmountsOfLines /\ gone \in AmountsOfLines /\ all \in AmountsOfLines
  BY DEF AmountsOfLines
<1>2. /\ \A l \in S : all[l] \in Int
      /\ \A l \in B : all[l] = after[l]
      /\ \A l \in C : all[l] = gone[l]
  BY <1>1, AmountFacts DEF AmountsOfLines, LineSet
<1>3. S = B \cup C /\ B \cap C = {}
  BY AmountFacts DEF LineSet
<1>4. IsFiniteSet(S)
  BY LineAssumption, FS_Subset DEF LineSet
<1> HIDE DEF after, gone, all, S, B, C
<1>5. SumOver(all, S) = SumOver(after, B) + SumOver(gone, C)
  BY <1>2, <1>3, <1>4, SumSplit
<1>6. /\ Total(all) = SumOver(all, S)
      /\ Total(after) = SumOver(after, B)
      /\ Total(gone) = SumOver(gone, C)
  BY Zenon DEF Total, SumOver, LineSet, S, B, C
<1>7. Total(all) = Total(after) + Total(gone)
  BY <1>3, <1>5, <1>6
<1> QED
  BY <1>1, <1>7 DEF after, gone, all

---------------------------------------------------------------------------
\* What the handlers hold when they have computed it.

Loaded(req) ==
    /\ req.readReport = report
    /\ req.readAmount = amount
    /\ req.readExpense = expense

LEMMA HeaderHeld ==
    ASSUME IInv, report # NULL, report.status = "draft", NEW project \in ProjectCode,
           NEW req, Loaded(req), req.op = "header", req.removed = 0,
           req.newReport = [report EXCEPT !.project = project, !.total_amount = Total(amount)],
           req.newAmount = amount, req.newExpense = expense
    PROVE  Held(req) /\ LoadedBefore(req) /\ TotalHeld(req)
<1>1. Total(amount) \in Nat
  BY TotalType DEF IInv, TablesTyped
<1>2. report \in PettyCashReport
  BY DEF IInv, TablesTyped
<1>3. req.newReport \in PettyCashReport /\ req.newReport.total_amount = Total(amount)
  BY <1>1, <1>2 DEF PettyCashReport
<1> QED
  BY <1>1, <1>2, <1>3 DEF IInv, TablesTyped, ExpensesHaveLines, Held, LoadedBefore, TotalHeld, Loaded

LEMMA PostHeld ==
    ASSUME IInv, report # NULL, report.status = "draft",
           NEW req, Loaded(req), req.op = "post", req.removed = lingering,
           req.newReport = [report EXCEPT !.status = "posted"],
           req.newAmount = amount, req.newExpense = expense
    PROVE  Held(req) /\ LoadedBefore(req) /\ TotalHeld(req)
<1>1. report \in PettyCashReport
  BY DEF IInv, TablesTyped
<1>2. /\ req.newReport \in PettyCashReport
      /\ req.newReport.total_amount = report.total_amount
  BY <1>1 DEF PettyCashReport
<1> QED
  BY <1>1, <1>2 DEF IInv, TablesTyped, ExpensesHaveLines, TotalExplained, Held, LoadedBefore,
                    TotalHeld, Loaded

\* The edit of the lines: every line follows its amount, and no expense past draft changes.
Edits(req, project, kept, values) ==
    /\ project \in ProjectCode
    /\ kept \in SUBSET Line
    /\ values \in [kept -> Amounts]
    /\ MayChange(kept, LineSet(amount))
    /\ Loaded(req)
    /\ req.op = "edit"
    /\ req.newReport = [report EXCEPT !.project = project,
                                      !.total_amount = TotalAfter(values)]
    /\ req.newAmount = [l \in Line |-> IF l \in kept THEN values[l] ELSE NULL]
    /\ req.newExpense = Booked(project, values)
    /\ req.removed = Total([l \in Line |-> IF l \in kept THEN NULL ELSE amount[l]])

LEMMA EditHeld ==
    ASSUME IInv, report # NULL, report.status = "draft",
           NEW req, NEW project, NEW kept, NEW values,
           Edits(req, project, kept, values)
    PROVE  Held(req) /\ LoadedBefore(req) /\ TotalHeld(req)
<1> USE DEF Edits, LineSet
<1> DEFINE all == [l \in Line |-> IF l \in kept THEN values[l] ELSE amount[l]]
<1>1. /\ req.newAmount \in AmountsOfLines
      /\ [l \in Line |-> IF l \in kept THEN NULL ELSE amount[l]] \in AmountsOfLines
      /\ all \in AmountsOfLines
      /\ Total(all) = Total(req.newAmount) + req.removed
  BY TotalOfBoth DEF IInv, TablesTyped
<1>2. TotalAfter(values) = Total(all)
  BY DOMAIN values = kept DEF TotalAfter
<1>3. Total(all) \in Nat /\ req.removed \in Nat
  BY <1>1, TotalType
<1> HIDE DEF all
<1>4. report \in PettyCashReport
  BY DEF IInv, TablesTyped
<1>5. req.newReport \in PettyCashReport /\ req.newReport.total_amount = Total(all)
  BY <1>2, <1>3, <1>4 DEF PettyCashReport
<1>6. ASSUME NEW l \in Line
      PROVE  Edited(req, l) /\ req.newExpense[l] \in LineExpense \cup {NULL}
  <2>1. expense[l] \in LineExpense \cup {NULL} /\ (expense[l] # NULL => l \in LineSet(amount))
    BY DEF IInv, TablesTyped, ExpensesOfLines, ExpensesHaveLines
  <2>2. req.newExpense[l] = IF l \notin kept \/ expense[l] = NULL THEN NULL
                            ELSE [expense[l] EXCEPT !.project = project, !.amount = values[l]]
    BY DOMAIN values = kept DEF Booked
  <2>3. CASE l \notin kept
    BY <2>1, <2>2, <2>3 DEF Edited, Loaded, MayChange
  <2>4. CASE expense[l] = NULL
    BY <2>2, <2>4 DEF Edited, Loaded
  <2>5. CASE l \in kept /\ expense[l] # NULL
    <3>1. req.newExpense[l] \in LineExpense /\ req.newExpense[l].amount = values[l]
      BY <2>1, <2>2, <2>5 DEF LineExpense
    <3>2. expense[l].status = "draft" /\ req.newAmount[l] = values[l] /\ values[l] # NULL
      BY <2>1, <2>5, AmountFacts DEF MayChange
    <3> QED
      BY <2>5, <3>1, <3>2 DEF Edited, Loaded
  <2> QED
    BY <2>3, <2>4, <2>5
<1>7. req.newExpense \in ExpensesOfLines
  <2>1. req.newExpense = [l \in Line |-> req.newExpense[l]]
    BY DEF Booked
  <2> QED
    BY <1>6, <2>1 DEF ExpensesOfLines
<1>8. Held(req)
  BY <1>1, <1>3, <1>4, <1>5, <1>6, <1>7 DEF Held, Loaded, IInv, TablesTyped
<1>9. LoadedBefore(req)
  BY DEF LoadedBefore, Loaded
<1>10. TotalHeld(req)
  BY <1>1, <1>5 DEF TotalHeld
<1> QED
  BY <1>8, <1>9, <1>10


---------------------------------------------------------------------------
\* Every action keeps the invariant.

LEMMA CreateKept == IInv /\ CreateReport => IInv'
<1> SUFFICES ASSUME IInv, CreateReport PROVE IInv'
  OBVIOUS
<1>1. PICK actor \in Staff(WriteRoles), project \in accepting, values \in PettyCashReportCreate :
          /\ amount' = [l \in Line |-> IF l \in DOMAIN values THEN values[l] ELSE NULL]
          /\ expense' = [l \in Line |->
                 IF l \in DOMAIN values THEN DraftExpense(project, values[l]) ELSE NULL]
          /\ report' = [status |-> "draft", project |-> project,
                        total_amount |-> Total(amount'), created_by |-> actor]
  BY Zenon DEF CreateReport
<1>2. PICK lines \in SUBSET Line : values \in [lines -> Amounts] /\ DOMAIN values = lines
  BY DEF PettyCashReportCreate
<1>3. /\ created' = TRUE
      /\ lingering' = lingering /\ lingering = 0
      /\ request' = request
      /\ \A w \in Worker : request[w] = Idle \/ request[w].op = "delete_project"
      /\ UNCHANGED <<accepting, overlapped, edited>>
  BY DEF CreateReport, IInv, NotBefore
<1>4. project \in ProjectCode /\ actor \in User
  BY DEF IInv, TablesTyped, Staff
<1>5. amount' \in AmountsOfLines
  BY <1>1, <1>2 DEF AmountsOfLines
<1>6. Total(amount') \in Nat
  BY <1>5, TotalType
<1>7. report' \in PettyCashReport /\ report' # NULL /\ report'.total_amount = Total(amount')
  BY <1>1, <1>4, <1>6, AmountFacts DEF PettyCashReport
<1>8. ASSUME NEW l \in Line
      PROVE  /\ expense'[l] \in LineExpense \cup {NULL}
             /\ expense'[l] # NULL => amount'[l] # NULL /\ expense'[l].amount = amount'[l]
             /\ amount'[l] \in Amounts \cup {NULL}
  <2>1. CASE l \in lines
    <3>1. values[l] \in Amounts /\ values[l] # NULL
      BY <1>2, <2>1, AmountFacts
    <3>2. expense'[l] = DraftExpense(project, values[l]) /\ amount'[l] = values[l]
      BY <1>1, <1>2, <2>1
    <3> QED
      BY <1>4, <3>1, <3>2 DEF DraftExpense, LineExpense
  <2>2. CASE l \notin lines
    BY <1>1, <1>2, <2>2
  <2> QED
    BY <2>1, <2>2
<1>9. expense' \in ExpensesOfLines
  BY <1>1, <1>8 DEF ExpensesOfLines
<1>10. TablesTyped'
  BY <1>1, <1>2, <1>3, <1>5, <1>7, <1>9 DEF TablesTyped, IInv
<1>11. RequestsHeld' /\ (DOMAIN request = Worker)' /\ NotBefore'
  BY <1>3, <1>7 DEF IInv, RequestsHeld, NotBefore
<1>12. ExpensesHaveLines' /\ ExpensesFollowLines'
  BY <1>7, <1>8 DEF ExpensesHaveLines, ExpensesFollowLines, TypeOK
<1>13. TotalExplained'
  BY <1>3, <1>6, <1>7 DEF TotalExplained
<1> QED
  BY <1>10, <1>11, <1>12, <1>13 DEF IInv

\* A handler that holds what it computed writes nothing yet.
LEMMA HandleKept ==
    ASSUME IInv, NEW w \in Worker, UNCHANGED tables,
           NEW req, request' = [request EXCEPT ![w] = req],
           \/ req = Idle \/ req.op = "delete_project"
           \/ created /\ Held(req) /\ LoadedBefore(req) /\ TotalHeld(req)
    PROVE  IInv'
<1>1. /\ UNCHANGED <<accepting, report, amount, expense, created, lingering, edited, overlapped>>
      /\ DOMAIN request' = Worker
  BY DEF tables, IInv
<1>2. ASSUME NEW v \in Worker
      PROVE  \/ request'[v] = Idle \/ request'[v].op = "delete_project"
             \/ (Held(request[v]) /\ LoadedBefore(request[v]) /\ TotalHeld(request[v]))'
  <2>1. PICK q : q = request'[v]
    OBVIOUS
  <2>2. q = Idle \/ q.op = "delete_project" \/ (Held(q) /\ LoadedBefore(q) /\ TotalHeld(q))
    BY <2>1 DEF IInv, RequestsHeld
  <2> QED
    BY <1>1, <2>1, <2>2 DEF Held, LoadedBefore, TotalHeld
<1>3. RequestsHeld'
  BY <1>2 DEF RequestsHeld
<1> QED
  BY <1>1, <1>3 DEF IInv, TablesTyped, ExpensesHaveLines, NotBefore, ExpensesFollowLines, TypeOK,
                    TotalExplained

\* What a commit makes of the expense of a line.
LEMMA ExpenseWritten ==
    ASSUME NEW current \in LineExpense \cup {NULL}, NEW read \in LineExpense \cup {NULL},
           NEW new \in LineExpense \cup {NULL}, ~ Misses(current, read, new)
    PROVE  /\ Written(current, read, new) \in LineExpense \cup {NULL}
           /\ current = read => Written(current, read, new) = new
           /\ read # new /\ (read = NULL \/ new = NULL) => Written(current, read, new) = new
           /\ Written(current, read, new) # NULL => current # NULL \/ (read = NULL /\ new # NULL)
           /\ read = new => Written(current, read, new) = current
<1>1. CASE read = new \/ read = NULL \/ new = NULL
  BY <1>1 DEF Written, Misses
<1>2. CASE read # new /\ read # NULL /\ new # NULL
  <2>1. current \in LineExpense /\ read \in LineExpense /\ new \in LineExpense
    BY <1>2 DEF Misses
  <2>2. Written(current, read, new) = Merged(current, read, new)
    BY <1>2 DEF Written
  <2>3. Merged(current, read, new) \in LineExpense
    BY <2>1 DEF Merged, LineExpense
  <2>4. current = read => Merged(current, read, new) = new
    BY <2>1 DEF Merged, LineExpense
  <2> QED
    BY <1>2, <2>1, <2>2, <2>3, <2>4, AmountFacts
<1> QED
  BY <1>1, <1>2

LEMMA ReportWritten ==
    ASSUME NEW current \in PettyCashReport \cup {NULL}, NEW read \in PettyCashReport,
           NEW new \in PettyCashReport, ~ Misses(current, read, new)
    PROVE  /\ Written(current, read, new) \in PettyCashReport \cup {NULL}
           /\ current = read => Written(current, read, new) = new
           /\ Written(current, read, new) # NULL => current # NULL
<1>1. read # NULL /\ new # NULL
  BY AmountFacts
<1>2. CASE read = new
  BY <1>2 DEF Written
<1>3. CASE read # new
  <2>1. current \in PettyCashReport
    BY <1>1, <1>3 DEF Misses
  <2>2. Written(current, read, new) = Merged(current, read, new)
    BY <1>1, <1>3 DEF Written
  <2>3. Merged(current, read, new) \in PettyCashReport
    BY <2>1 DEF Merged, PettyCashReport
  <2>4. current = read => Merged(current, read, new) = new
    BY <2>1 DEF Merged, PettyCashReport
  <2> QED
    BY <2>1, <2>2, <2>3, <2>4, AmountFacts
<1> QED
  BY <1>2, <1>3

LEMMA CommitKept ==
    ASSUME IInv, NEW w \in Worker, Commit(w)
    PROVE  IInv'
<1>1. PICK req : req = request[w]
  OBVIOUS
<1> DEFINE on_time == <<report, amount, expense>>
                      = <<req.readReport, req.readAmount, req.readExpense>>
<1>2. Held(req) /\ LoadedBefore(req) /\ TotalHeld(req) /\ created
  BY <1>1 DEF Commit, IInv, RequestsHeld, NotBefore, Idle
<1>3. /\ ~ Misses(report, req.readReport, req.newReport)
      /\ \A l \in Line : ~ Misses(expense[l], req.readExpense[l], req.newExpense[l])
      /\ \A l \in Line : amount[l] = NULL => req.newAmount[l] \in {NULL, req.readAmount[l]}
      /\ report' = Written(report, req.readReport, req.newReport)
      /\ amount' = [l \in Line |->
             WrittenAmount(amount[l], req.readAmount[l], req.newAmount[l])]
      /\ expense' = [l \in Line |->
             Written(expense[l], req.readExpense[l], req.newExpense[l])]
      /\ lingering' = req.removed
      /\ edited' = IF req.op = "edit" THEN {} ELSE edited
      /\ overlapped' = (overlapped \/ ~ on_time)
      /\ request' = [request EXCEPT ![w] = Idle]
      /\ UNCHANGED <<accepting, created>>
  BY <1>1 DEF Commit
<1> HIDE DEF on_time
<1>4. ASSUME NEW l \in Line
      PROVE  /\ expense[l] \in LineExpense \cup {NULL}
             /\ req.readExpense[l] \in LineExpense \cup {NULL}
             /\ req.newExpense[l] \in LineExpense \cup {NULL}
             /\ amount[l] \in Amounts \cup {NULL}
             /\ req.readAmount[l] \in Amounts \cup {NULL}
             /\ req.newAmount[l] \in Amounts \cup {NULL}
  BY <1>2 DEF IInv, TablesTyped, Held, AmountsOfLines, ExpensesOfLines
<1>5. ASSUME NEW l \in Line
      PROVE  /\ expense'[l] \in LineExpense \cup {NULL}
             /\ expense[l] = req.readExpense[l] => expense'[l] = req.newExpense[l]
             /\ req.readExpense[l] # req.newExpense[l]
                /\ (req.readExpense[l] = NULL \/ req.newExpense[l] = NULL)
                    => expense'[l] = req.newExpense[l]
             /\ expense'[l] # NULL
                    => expense[l] # NULL \/ (req.readExpense[l] = NULL /\ req.newExpense[l] # NULL)
             /\ req.readExpense[l] = req.newExpense[l] => expense'[l] = expense[l]
  <2>1. expense'[l] = Written(expense[l], req.readExpense[l], req.newExpense[l])
    BY <1>3
  <2>2. ~ Misses(expense[l], req.readExpense[l], req.newExpense[l])
    BY <1>3
  <2>3. PICK c, r, n : c = expense[l] /\ r = req.readExpense[l] /\ n = req.newExpense[l]
    OBVIOUS
  <2>4. /\ c \in LineExpense \cup {NULL} /\ r \in LineExpense \cup {NULL}
        /\ n \in LineExpense \cup {NULL} /\ ~ Misses(c, r, n)
    BY <1>4, <2>2, <2>3
  <2>5. /\ Written(c, r, n) \in LineExpense \cup {NULL}
        /\ c = r => Written(c, r, n) = n
        /\ r # n /\ (r = NULL \/ n = NULL) => Written(c, r, n) = n
        /\ Written(c, r, n) # NULL => c # NULL \/ (r = NULL /\ n # NULL)
        /\ r = n => Written(c, r, n) = c
    BY <2>4, ExpenseWritten
  <2> QED
    BY <2>1, <2>3, <2>5
<1>6. ASSUME NEW l \in Line
      PROVE  /\ amount'[l] \in Amounts \cup {NULL}
             /\ amount[l] = req.readAmount[l] => amount'[l] = req.newAmount[l]
             /\ amount'[l] = IF req.readAmount[l] = req.newAmount[l] THEN amount[l]
                             ELSE req.newAmount[l]
  BY <1>3, <1>4 DEF WrittenAmount
<1>7. /\ report' \in PettyCashReport \cup {NULL}
      /\ report = req.readReport => report' = req.newReport
  BY <1>2, <1>3, ReportWritten DEF IInv, TablesTyped, Held
<1>8. amount' \in AmountsOfLines /\ expense' \in ExpensesOfLines
  BY <1>3, <1>5, <1>6 DEF AmountsOfLines, ExpensesOfLines
<1>9. TablesTyped'
  BY <1>2, <1>3, <1>7, <1>8 DEF IInv, TablesTyped, Held
<1>10. ASSUME NEW l \in Line
       PROVE  Edited(req, l) \/ (/\ req.newAmount[l] = req.readAmount[l]
                                 /\ req.newExpense[l] = req.readExpense[l])
  BY <1>2 DEF Held
\* No expense appears.
<1>11. ASSUME NEW l \in Line, expense'[l] # NULL
       PROVE  expense[l] # NULL
  BY <1>5, <1>10, <1>11 DEF Edited
<1>13. ASSUME NEW l \in Line, expense'[l] # NULL
       PROVE  amount'[l] # NULL
  <2>1. expense[l] # NULL /\ amount[l] # NULL
    BY <1>11, <1>13 DEF IInv, ExpensesHaveLines
  <2>2. SUFFICES ASSUME req.readAmount[l] # req.newAmount[l], req.newAmount[l] = NULL
                 PROVE  FALSE
    BY <1>6, <2>1
  <2>3. req.newExpense[l] = NULL
    BY <1>10, <2>2 DEF Edited
  <2>4. req.readExpense[l] # NULL
    BY <1>2, <2>1 DEF LoadedBefore
  <2> QED
    BY <1>5, <1>13, <2>3, <2>4
<1>14. ExpensesHaveLines'
  BY <1>13 DEF ExpensesHaveLines
<1>15. ASSUME ~ overlapped'
       PROVE  /\ ~ overlapped
              /\ report = req.readReport
              /\ amount = req.readAmount
              /\ expense = req.readExpense
              /\ report' = req.newReport
              /\ \A l \in Line : amount'[l] = req.newAmount[l] /\ expense'[l] = req.newExpense[l]
  <2>1. ~ overlapped /\ report = req.readReport /\ amount = req.readAmount
        /\ expense = req.readExpense
    BY <1>3, <1>15 DEF on_time
  <2> QED
    BY <1>5, <1>6, <1>7, <2>1
<1>16. ASSUME NEW v \in Worker, request'[v] # Idle, request'[v].op # "delete_project"
       PROVE  (Held(request[v]) /\ LoadedBefore(request[v]) /\ TotalHeld(request[v]))'
  <2>1. request'[v] = request[v] /\ v # w
    BY <1>3, <1>16 DEF IInv
  <2>2. PICK q : q = request[v]
    OBVIOUS
  <2>3. Held(q) /\ LoadedBefore(q) /\ TotalHeld(q)
    BY <1>16, <2>1, <2>2 DEF IInv, RequestsHeld
  <2>4. Held(q)' /\ TotalHeld(q)'
    BY <1>3, <2>3 DEF Held, TotalHeld
  <2>6. LoadedBefore(q)'
    BY <1>11, <2>3 DEF LoadedBefore
  <2> QED
    BY <2>1, <2>2, <2>4, <2>6
<1>17. RequestsHeld' /\ (DOMAIN request = Worker)'
  BY <1>3, <1>16 DEF RequestsHeld, IInv
<1>18. NotBefore'
  BY <1>2, <1>3 DEF NotBefore
<1>19. ExpensesFollowLines'
  <2>1. TypeOK'
    BY <1>5, <1>6, <1>7 DEF TypeOK
  <2>2. ASSUME ~ overlapped', NEW l \in Line, expense'[l] # NULL, l \notin edited'
        PROVE  expense'[l].amount = amount'[l]
    <3>1. CASE req.op = "edit"
      <4>1. Edited(req, l)
        BY <1>2, <3>1 DEF Held
      <4> QED
        BY <1>15, <2>2, <4>1 DEF Edited
    <3>2. CASE req.op # "edit"
      <4>1. req.newAmount = req.readAmount /\ req.newExpense = req.readExpense
        BY <1>2, <3>2 DEF Held
      <4>2. expense'[l] = expense[l] /\ amount'[l] = amount[l] /\ l \notin edited
        BY <1>3, <1>15, <2>2, <3>2, <4>1
      <4> QED
        BY <1>15, <2>2, <4>2 DEF IInv, ExpensesFollowLines
    <3> QED
      BY <3>1, <3>2
  <2> QED
    BY <1>13, <2>1, <2>2 DEF ExpensesFollowLines
<1>20. TotalExplained'
  <2>1. SUFFICES ASSUME ~ overlapped'
                 PROVE  report'.total_amount = Total(amount') + lingering'
    BY DEF TotalExplained
  <2>2. amount' = req.newAmount
    BY <1>2, <1>8, <1>15, <2>1 DEF Held, AmountsOfLines
  <2> QED
    BY <1>2, <1>3, <1>15, <2>1, <2>2 DEF TotalHeld
<1> QED
  BY <1>9, <1>14, <1>17, <1>18, <1>19, <1>20 DEF IInv

\* The expense of one line changes in its own router: it does not come back once deleted,
\* and follows its line unless it is edited there.
LEMMA RowKept ==
    ASSUME IInv, NEW l \in Line, expense[l] # NULL, NEW row \in LineExpense \cup {NULL},
           SetExpense(l, row),
           \/ row # NULL /\ row.amount = expense[l].amount /\ edited' = edited
           \/ row = NULL /\ edited' = edited
           \/ edited' = edited \cup {l}
    PROVE  IInv'
<1>1. /\ expense' = [expense EXCEPT ![l] = row]
      /\ UNCHANGED <<report, amount, accepting, request, created, lingering, overlapped>>
  BY DEF SetExpense
<1>2. ASSUME NEW k \in Line
      PROVE  /\ expense'[k] = IF k = l THEN row ELSE expense[k]
             /\ expense'[k] # NULL => expense[k] # NULL
             /\ expense'[k] \in LineExpense \cup {NULL}
  BY <1>1 DEF IInv, TablesTyped, ExpensesOfLines
<1>3. expense' \in ExpensesOfLines
  BY <1>1, <1>2 DEF IInv, TablesTyped, ExpensesOfLines
<1>4. TablesTyped' /\ NotBefore' /\ TotalExplained' /\ (DOMAIN request = Worker)'
  BY <1>1, <1>3 DEF IInv, TablesTyped, NotBefore, TotalExplained
<1>5. ExpensesHaveLines'
  BY <1>1, <1>2 DEF IInv, ExpensesHaveLines
<1>6. ASSUME NEW v \in Worker, request'[v] # Idle, request'[v].op # "delete_project"
      PROVE  (Held(request[v]) /\ LoadedBefore(request[v]) /\ TotalHeld(request[v]))'
  <2>1. PICK q : q = request[v]
    OBVIOUS
  <2>2. Held(q) /\ LoadedBefore(q) /\ TotalHeld(q) /\ q = request'[v]
    BY <1>1, <1>6, <2>1 DEF IInv, RequestsHeld
  <2>3. Held(q)' /\ TotalHeld(q)'
    BY <1>1, <2>2 DEF Held, TotalHeld
  <2>4. LoadedBefore(q)'
    BY <1>1, <1>2, <2>2 DEF LoadedBefore
  <2> QED
    BY <2>2, <2>3, <2>4
<1>7. RequestsHeld'
  BY <1>6 DEF RequestsHeld
<1>8. ExpensesFollowLines'
  <2>1. TypeOK'
    BY <1>1, <1>2 DEF IInv, ExpensesFollowLines, TypeOK
  <2>2. ASSUME ~ overlapped', NEW k \in Line, expense'[k] # NULL
        PROVE  amount'[k] # NULL /\ (k \notin edited' => expense'[k].amount = amount'[k])
    BY <1>1, <1>2, <2>2 DEF IInv, ExpensesFollowLines
  <2> QED
    BY <2>1, <2>2 DEF ExpensesFollowLines
<1> QED
  BY <1>4, <1>5, <1>7, <1>8 DEF IInv

LEMMA ExpensesKept ==
    ASSUME IInv, NEW l \in Line, EditExpense(l) \/ MoveExpense(l) \/ DeleteExpense(l)
    PROVE  IInv'
<1>1. expense[l] # NULL /\ expense[l] \in LineExpense
  BY DEF EditExpense, MoveExpense, DeleteExpense, IInv, TablesTyped, ExpensesOfLines
<1>2. CASE EditExpense(l)
  <2>1. PICK value \in Amounts : SetExpense(l, [expense[l] EXCEPT !.amount = value])
    BY <1>2 DEF EditExpense
  <2>2. [expense[l] EXCEPT !.amount = value] \in LineExpense
    BY <1>1 DEF LineExpense
  <2> QED
    BY <1>1, <1>2, <2>1, <2>2, RowKept DEF EditExpense
<1>3. CASE MoveExpense(l)
  <2>1. PICK status \in {"submitted", "approved", "paid", "rejected"} :
            SetExpense(l, [expense[l] EXCEPT !.status = status])
    BY <1>3 DEF MoveExpense
  <2>2. /\ [expense[l] EXCEPT !.status = status] \in LineExpense
        /\ [expense[l] EXCEPT !.status = status].amount = expense[l].amount
    BY <1>1 DEF LineExpense
  <2> QED
    BY <1>1, <1>3, <2>1, <2>2, RowKept DEF MoveExpense
<1>4. CASE DeleteExpense(l)
  BY <1>1, <1>4, RowKept DEF DeleteExpense
<1> QED
  BY <1>2, <1>3, <1>4

LEMMA HandlersKept ==
    ASSUME IInv, NEW w \in Worker,
           \/ UpdateHeader(w) \/ UpdateLines(w) \/ PostReport(w) \/ Rollback(w)
           \/ DeleteProject(w)
    PROVE  IInv'
<1>1. accepting \subseteq ProjectCode
  BY DEF IInv, TablesTyped
<1>2. CASE UpdateHeader(w)
  <2>1. PICK project \in accepting :
            Handle(w, "header", [report EXCEPT !.project = project, !.total_amount = Total(amount)],
                   amount, expense, 0)
    BY <1>2 DEF UpdateHeader
  <2>2. report # NULL /\ report.status = "draft" /\ project \in ProjectCode
    BY <1>1, <1>2 DEF UpdateHeader, Editable
  <2>3. PICK req : req = [op |-> "header", readReport |-> report,
                          newReport |-> [report EXCEPT !.project = project,
                                                       !.total_amount = Total(amount)],
                          readAmount |-> amount, newAmount |-> amount,
                          readExpense |-> expense, newExpense |-> expense, removed |-> 0]
    OBVIOUS
  <2>4. request' = [request EXCEPT ![w] = req] /\ UNCHANGED tables
    BY <2>1, <2>3 DEF Handle
  <2>5. Held(req) /\ LoadedBefore(req) /\ TotalHeld(req)
    BY <2>2, <2>3, HeaderHeld DEF Loaded
  <2>6. created
    BY <2>2 DEF IInv, NotBefore
  <2> QED
    BY <2>4, <2>5, <2>6, HandleKept
<1>3. CASE UpdateLines(w)
  <2> DEFINE lines == {l \in Line : amount[l] # NULL}
  <2>1. PICK project \in accepting, kept \in SUBSET lines :
            /\ MayChange(kept, lines)
            /\ \E values \in [kept -> Amounts] :
                   Handle(w, "edit",
                          [report EXCEPT !.project = project,
                                         !.total_amount = TotalAfter(values)],
                          [l \in Line |-> IF l \in kept THEN values[l] ELSE NULL],
                          Booked(project, values),
                          Total([l \in Line |-> IF l \in kept THEN NULL ELSE amount[l]]))
    BY <1>3 DEF UpdateLines
  <2> HIDE DEF lines
  <2>2. PICK values \in [kept -> Amounts] :
            Handle(w, "edit",
                   [report EXCEPT !.project = project,
                                  !.total_amount = TotalAfter(values)],
                   [l \in Line |-> IF l \in kept THEN values[l] ELSE NULL],
                   Booked(project, values),
                   Total([l \in Line |-> IF l \in kept THEN NULL ELSE amount[l]]))
    BY <2>1
  <2>3. report # NULL /\ report.status = "draft" /\ project \in ProjectCode
    BY <1>1, <1>3 DEF UpdateLines, Editable
  <2>4. PICK req : req = [op |-> "edit", readReport |-> report,
                          newReport |-> [report EXCEPT !.project = project,
                                             !.total_amount = TotalAfter(values)],
                          readAmount |-> amount,
                          newAmount |-> [l \in Line |-> IF l \in kept THEN values[l] ELSE NULL],
                          readExpense |-> expense,
                          newExpense |-> Booked(project, values),
                          removed |-> Total([l \in Line |-> IF l \in kept THEN NULL
                                                            ELSE amount[l]])]
    OBVIOUS
  <2>5. request' = [request EXCEPT ![w] = req] /\ UNCHANGED tables
    BY <2>2, <2>4 DEF Handle
  <2>6. Edits(req, project, kept, values)
    BY <2>1, <2>2, <2>3, <2>4 DEF Edits, Loaded, LineSet, lines
  <2>7. Held(req) /\ LoadedBefore(req) /\ TotalHeld(req)
    BY <2>3, <2>6, EditHeld
  <2>8. created
    BY <2>3 DEF IInv, NotBefore
  <2> QED
    BY <2>5, <2>7, <2>8, HandleKept
<1>4. CASE PostReport(w)
  <2>1. PICK req : req = [op |-> "post", readReport |-> report,
                          newReport |-> [report EXCEPT !.status = "posted"],
                          readAmount |-> amount, newAmount |-> amount,
                          readExpense |-> expense, newExpense |-> expense,
                          removed |-> lingering]
    OBVIOUS
  <2>2. request' = [request EXCEPT ![w] = req] /\ UNCHANGED tables
    BY <1>4, <2>1 DEF PostReport, Handle
  <2>3. report # NULL /\ report.status = "draft"
    BY <1>4 DEF PostReport
  <2>4. Held(req) /\ LoadedBefore(req) /\ TotalHeld(req)
    BY <2>1, <2>3, PostHeld DEF Loaded
  <2>5. created
    BY <2>3 DEF IInv, NotBefore
  <2> QED
    BY <2>2, <2>4, <2>5, HandleKept
<1>5. CASE Rollback(w)
  BY <1>5, HandleKept DEF Rollback
<1>6. CASE DeleteProject(w)
  <2>1. PICK req : /\ req.op = "delete_project"
                   /\ request' = [request EXCEPT ![w] = req]
                   /\ UNCHANGED tables
    BY <1>6, Zenon DEF DeleteProject
  <2> QED
    BY <2>1, HandleKept
<1> QED
  BY <1>2, <1>3, <1>4, <1>5, <1>6

\* The deletion of a project takes the report with all its lines and expenses, or leaves
\* the report and takes or unlinks expenses.
LEMMA DeletionKept ==
    ASSUME IInv, NEW w \in Worker, CommitDeletion(w)
    PROVE  IInv'
<1>1. PICK req : req = request[w]
  OBVIOUS
<1>2. /\ report' = IF req.report THEN NULL ELSE report
      /\ amount' = IF req.report THEN [l \in Line |-> NULL] ELSE amount
      /\ expense' = [l \in Line |->
             IF req.report \/ l \in req.expenses \/ expense[l] = NULL THEN NULL
             ELSE IF expense[l].project = req.project THEN [expense[l] EXCEPT !.project = NULL]
             ELSE expense[l]]
      /\ accepting' \subseteq accepting
      /\ request' = [request EXCEPT ![w] = Idle]
      /\ UNCHANGED <<created, lingering, edited, overlapped>>
  BY <1>1 DEF CommitDeletion
<1>3. ASSUME NEW l \in Line
      PROVE  /\ expense'[l] \in LineExpense \cup {NULL}
             /\ expense[l] = NULL => expense'[l] = NULL
             /\ expense'[l] # NULL => expense'[l].amount = expense[l].amount /\ ~ req.report
             /\ amount'[l] = IF req.report THEN NULL ELSE amount[l]
  <2>1. expense[l] \in LineExpense \cup {NULL}
    BY DEF IInv, TablesTyped, ExpensesOfLines
  <2>2. expense[l] # NULL => [expense[l] EXCEPT !.project = NULL] \in LineExpense
    BY <2>1 DEF LineExpense
  <2>3. expense[l] # NULL => [expense[l] EXCEPT !.project = NULL].amount = expense[l].amount
    BY <2>1 DEF LineExpense
  <2> QED
    BY <1>2, <2>1, <2>2, <2>3
<1>4. report' \in PettyCashReport \cup {NULL} /\ amount' \in AmountsOfLines
  BY <1>2 DEF IInv, TablesTyped, AmountsOfLines
<1>5. expense' \in ExpensesOfLines
  BY <1>2, <1>3 DEF ExpensesOfLines
<1>6. TablesTyped'
  BY <1>2, <1>4, <1>5 DEF IInv, TablesTyped
<1>7. ASSUME NEW v \in Worker, request'[v] # Idle, request'[v].op # "delete_project"
      PROVE  (Held(request[v]) /\ LoadedBefore(request[v]) /\ TotalHeld(request[v]))'
  <2>1. PICK q : q = request[v]
    OBVIOUS
  <2>2. Held(q) /\ LoadedBefore(q) /\ TotalHeld(q) /\ q = request'[v]
    BY <1>2, <1>7, <2>1 DEF IInv, RequestsHeld
  <2>3. Held(q)' /\ TotalHeld(q)'
    BY <1>2, <2>2 DEF Held, TotalHeld
  <2>4. LoadedBefore(q)'
    BY <1>3, <2>2 DEF LoadedBefore
  <2> QED
    BY <2>2, <2>3, <2>4
<1>8. RequestsHeld' /\ (DOMAIN request = Worker)'
  BY <1>2, <1>7 DEF RequestsHeld, IInv
<1>9. NotBefore'
  BY <1>2, <1>3 DEF IInv, NotBefore
<1>10. ExpensesHaveLines' /\ ExpensesFollowLines'
  <2>1. ASSUME NEW l \in Line, expense'[l] # NULL
        PROVE  amount'[l] # NULL /\ amount'[l] = amount[l] /\ expense'[l].amount = expense[l].amount
               /\ expense[l] # NULL
    BY <1>3, <2>1 DEF IInv, ExpensesHaveLines
  <2>2. TypeOK'
    BY <1>3, <1>4 DEF TypeOK, AmountsOfLines
  <2> QED
    BY <1>2, <2>1, <2>2 DEF IInv, ExpensesHaveLines, ExpensesFollowLines
<1>11. TotalExplained'
  BY <1>2 DEF IInv, TotalExplained
<1> QED
  BY <1>6, <1>8, <1>9, <1>10, <1>11 DEF IInv

LEMMA Kept == IInv /\ [Next]_vars => IInv'
<1> SUFFICES ASSUME IInv, [Next]_vars PROVE IInv'
  OBVIOUS
<1>1. CASE UNCHANGED vars
  BY <1>1 DEF vars, tables, IInv, TablesTyped, RequestsHeld, Held, LoadedBefore, TotalHeld, Edited,
              ExpensesHaveLines, NotBefore, ExpensesFollowLines, TypeOK, TotalExplained
<1>2. CASE \E p \in ProjectCode : AdministerProject(p)
  <2>1. /\ UNCHANGED <<report, amount, expense, request, created, lingering, edited, overlapped>>
        /\ accepting' \subseteq ProjectCode
    BY <1>2 DEF AdministerProject, IInv, TablesTyped
  <2> QED
    BY <2>1 DEF IInv, TablesTyped, RequestsHeld, Held, LoadedBefore, TotalHeld, Edited,
                ExpensesHaveLines, NotBefore, ExpensesFollowLines, TypeOK, TotalExplained
<1> QED
  BY <1>1, <1>2, CreateKept, HandlersKept, CommitKept, DeletionKept, ExpensesKept DEF Next

---------------------------------------------------------------------------
\* IInv, what tables and requests in hand agree on, is an invariant.
THEOREM Inductive == Spec => []IInv
<1>1. ASSUME Init PROVE IInv
  <2>1. /\ report = NULL /\ created = FALSE /\ lingering = 0 /\ accepting \subseteq ProjectCode
        /\ amount \in AmountsOfLines /\ \A l \in Line : amount[l] = NULL
        /\ expense \in ExpensesOfLines /\ \A l \in Line : expense[l] = NULL
        /\ DOMAIN request = Worker /\ \A w \in Worker : request[w] = Idle
    BY <1>1 DEF Init, AmountsOfLines, ExpensesOfLines
  <2> QED
    BY <2>1 DEF IInv, TablesTyped, RequestsHeld, ExpensesHaveLines, NotBefore,
                ExpensesFollowLines, TypeOK, TotalExplained
<1> QED
  BY <1>1, Kept, PTL DEF Spec

\* A line never has its expense back once that was deleted, and unless edits overlapped
\* the drafts ask for what the lines of the report say (update_report), for any lines.
THEOREM ExpensesFollowLinesHolds == Spec => []ExpensesFollowLines
<1>1. IInv => ExpensesFollowLines
  BY DEF IInv
<1> QED
  BY <1>1, Inductive, PTL

\* The total of a report is the sum of its lines and of those the last edit removed
\* (_recalculate_total), however many there are.
THEOREM TotalExplainedHolds == Spec => []TotalExplained
<1>1. IInv => TotalExplained
  BY DEF IInv
<1> QED
  BY <1>1, Inductive, PTL

\* What a commit changes of an expense past draft, or of a posted report, its handler
\* loaded as a draft.
LEMMA CommitExcused ==
    ASSUME IInv, NEW w \in Worker, Commit(w)
    PROVE  /\ request'[w] = Idle
           /\ request[w].op \in {"header", "edit", "post"}
           /\ request[w].readReport.status = "draft"
           /\ \A l \in Line : expense[l] # NULL /\ expense'[l] # expense[l]
                                  => /\ request[w].op = "edit"
                                     /\ request[w].readExpense[l].status = "draft"
<1>1. PICK req : req = request[w]
  OBVIOUS
<1>2. /\ req.op \in {"header", "edit", "post"}
      /\ request' = [request EXCEPT ![w] = Idle]
      /\ expense' = [l \in Line |->
             Written(expense[l], req.readExpense[l], req.newExpense[l])]
  BY <1>1 DEF Commit
<1>3. Held(req)
  BY <1>1, <1>2 DEF IInv, RequestsHeld, Idle
<1>4. ASSUME NEW l \in Line, expense[l] # NULL, expense'[l] # expense[l]
      PROVE  req.op = "edit" /\ req.readExpense[l].status = "draft"
  <2>1. req.readExpense[l] # req.newExpense[l]
    BY <1>2, <1>4 DEF Written
  <2>2. req.op = "edit" /\ Edited(req, l)
    BY <1>3, <2>1 DEF Held
  <2> QED
    BY <2>1, <2>2 DEF Edited
<1> QED
  BY <1>1, <1>2, <1>3, <1>4 DEF Held, IInv

\* What the deletion of a project changes it loaded, or it is an expense of that project.
LEMMA DeletionExcused ==
    ASSUME IInv, NEW w \in Worker, CommitDeletion(w)
    PROVE  /\ request'[w] = Idle
           /\ request[w].op = "delete_project"
           /\ ~ UNCHANGED <<report, amount>> => request[w].report
           /\ \A l \in Line : expense[l] # NULL /\ expense'[l] # expense[l]
                                  => \/ request[w].report \/ l \in request[w].expenses
                                     \/ expense[l].project = request[w].project
<1>1. PICK req : req = request[w]
  OBVIOUS
<1>2. /\ req.op = "delete_project"
      /\ request' = [request EXCEPT ![w] = Idle]
      /\ report' = IF req.report THEN NULL ELSE report
      /\ amount' = IF req.report THEN [l \in Line |-> NULL] ELSE amount
      /\ expense' = [l \in Line |->
             IF req.report \/ l \in req.expenses \/ expense[l] = NULL THEN NULL
             ELSE IF expense[l].project = req.project THEN [expense[l] EXCEPT !.project = NULL]
             ELSE expense[l]]
  BY <1>1 DEF CommitDeletion
<1>3. request'[w] = Idle
  BY <1>2 DEF IInv
<1>4. \A l \in Line : expense[l] # NULL /\ expense'[l] # expense[l]
          => req.report \/ l \in req.expenses \/ expense[l].project = req.project
  BY <1>2
<1> QED
  BY <1>1, <1>2, <1>3, <1>4

\* An expense past draft, and a posted report, change only by the commit of an edit that
\* loaded them as drafts (update_report reads both without a lock), and by that of the
\* deletion of an archived project (delete_project).
THEOREM SubmittedKeptHolds == Spec => SubmittedKept
<1> DEFINE ExpenseKept(l) ==
        LET now == expense[l]
            next == expense'[l]
        IN  now # NULL /\ now.status # "draft" /\ now # next
            => \/ next # NULL /\ next.amount = now.amount /\ next.project = now.project
               \/ next = NULL /\ now.status = "rejected"
               \/ \E w \in Worker :
                      /\ request'[w] = Idle
                      /\ \/ /\ request[w].op = "edit"
                            /\ request[w].readExpense[l].status = "draft"
                         \/ /\ request[w].op = "delete_project"
                            /\ \/ request[w].report \/ l \in request[w].expenses
                               \/ now.project = request[w].project
    ReportKept ==
        report # NULL /\ report.status = "posted"
        => \/ UNCHANGED <<report, amount>>
           \/ \E w \in Worker :
                  /\ request'[w] = Idle
                  /\ \/ /\ request[w].op \in {"header", "edit", "post"}
                        /\ request[w].readReport.status = "draft"
                     \/ request[w].op = "delete_project" /\ request[w].report
<1>1. ASSUME IInv, [Next]_vars
      PROVE  ReportKept /\ \A l \in Line : ExpenseKept(l)
  <2>1. CASE UNCHANGED <<report, amount, expense>>
    BY <2>1
  <2>2. CASE CreateReport
    BY <1>1, <2>2 DEF CreateReport, IInv, NotBefore, ExpensesHaveLines
  <2>3. CASE \E w \in Worker : Commit(w)
    BY <1>1, <2>3, CommitExcused
  <2>4. ASSUME NEW k \in Line, EditExpense(k) \/ MoveExpense(k) \/ DeleteExpense(k)
        PROVE  ReportKept /\ \A l \in Line : ExpenseKept(l)
    <3>1. UNCHANGED <<report, amount>>
      BY <2>4 DEF EditExpense, MoveExpense, DeleteExpense, SetExpense
    <3>2. \A l \in Line \ {k} : expense'[l] = expense[l]
      BY <1>1, <2>4 DEF EditExpense, MoveExpense, DeleteExpense, SetExpense, IInv, TablesTyped,
                        ExpensesOfLines
    <3>3. expense[k] \in LineExpense /\ DOMAIN expense = Line
      BY <1>1, <2>4 DEF EditExpense, MoveExpense, DeleteExpense, IInv, TablesTyped, ExpensesOfLines
    <3>4. ExpenseKept(k)
      <4>1. CASE EditExpense(k)
        BY <4>1 DEF EditExpense
      <4>2. CASE MoveExpense(k)
        <5>1. PICK status \in {"submitted", "approved", "paid", "rejected"} :
                  SetExpense(k, [expense[k] EXCEPT !.status = status])
          BY <4>2 DEF MoveExpense
        <5>2. PICK row : row = [expense[k] EXCEPT !.status = status]
          OBVIOUS
        <5>3. row \in LineExpense /\ row.amount = expense[k].amount
              /\ row.project = expense[k].project /\ row # NULL
          BY <3>3, <5>2, AmountFacts DEF LineExpense
        <5>4. expense'[k] = row
          BY <3>3, <5>1, <5>2 DEF SetExpense
        <5> QED
          BY <5>3, <5>4
      <4>3. CASE DeleteExpense(k)
        <5>1. expense'[k] = NULL /\ expense[k].status \in {"draft", "rejected"}
          BY <3>3, <4>3 DEF DeleteExpense, SetExpense
        <5> QED
          BY <5>1
      <4> QED
        BY <2>4, <4>1, <4>2, <4>3
    <3> QED
      BY <3>1, <3>2, <3>4
  <2>5. CASE \E w \in Worker : CommitDeletion(w)
    BY <1>1, <2>5, DeletionExcused
  <2>6. \/ UNCHANGED <<report, amount, expense>>
        \/ CreateReport
        \/ \E w \in Worker : Commit(w)
        \/ \E w \in Worker : CommitDeletion(w)
        \/ \E k \in Line : EditExpense(k) \/ MoveExpense(k) \/ DeleteExpense(k)
    BY <1>1 DEF Next, vars, tables, UpdateHeader, UpdateLines, PostReport, Rollback, Handle,
                AdministerProject, DeleteProject
  <2> HIDE DEF ExpenseKept, ReportKept
  <2> QED
    BY <2>1, <2>2, <2>3, <2>4, <2>5, <2>6
<1>2. IInv /\ [Next]_vars
      => [ReportKept /\ \A l \in Line : ExpenseKept(l)]_vars
  BY <1>1
<1> QED
  BY <1>2, Inductive, PTL DEF Spec, SubmittedKept

---------------------------------------------------------------------------
\* One handler at a time: while one is at work, the next step is its commit or rollback.
Serially == \A w \in Worker : request[w] # Idle => request'[w] = Idle

\* What a handler of the report loaded is what the tables still say.
StillThere(w) ==
    <<report, amount, expense>>
        = <<request[w].readReport, request[w].readAmount, request[w].readExpense>>

NobodyLate ==
    /\ ~ overlapped
    /\ \A w \in Worker :
           request[w] # Idle /\ request[w].op # "delete_project" => StillThere(w)

LEMMA NobodyLateKept ==
    ASSUME DOMAIN request = Worker, NobodyLate, [Next]_vars, [Serially]_vars
    PROVE  NobodyLate'
<1>1. CASE UNCHANGED vars
  BY <1>1 DEF vars, tables, NobodyLate, StillThere
<1> SUFFICES ASSUME Next, Serially
             PROVE  NobodyLate'
  BY <1>1
<1>2. ASSUME NEW w \in Worker, UpdateHeader(w) \/ UpdateLines(w) \/ PostReport(w)
      PROVE  NobodyLate'
  <2>1. PICK req : /\ req.readReport = report /\ req.readAmount = amount
                   /\ req.readExpense = expense
                   /\ request' = [request EXCEPT ![w] = req]
    BY <1>2, Zenon DEF UpdateHeader, UpdateLines, PostReport, Handle
  <2>2. request'[w] = req /\ \A v \in Worker : v # w => request'[v] = request[v]
    BY <2>1
  <2>3. UNCHANGED <<report, amount, expense, overlapped>>
    BY <1>2 DEF UpdateHeader, UpdateLines, PostReport, Handle, tables
  <2> QED
    BY <2>1, <2>2, <2>3 DEF NobodyLate, StillThere
<1>3. ASSUME NEW w \in Worker, Commit(w)
      PROVE  NobodyLate'
  <2>1. /\ request[w] # Idle /\ request[w].op # "delete_project"
        /\ request' = [request EXCEPT ![w] = Idle]
        /\ overlapped' = (overlapped \/ ~ StillThere(w))
    BY <1>3 DEF Commit, StillThere, Idle
  <2>2. ~ overlapped'
    BY <2>1 DEF NobodyLate
  <2>3. \A v \in Worker : request'[v] = Idle
    BY <2>1 DEF Serially
  <2> QED
    BY <2>2, <2>3 DEF NobodyLate
<1>4. ASSUME NEW w \in Worker, Rollback(w)
      PROVE  NobodyLate'
  <2>1. overlapped' = overlapped /\ \A v \in Worker : request'[v] = Idle
    BY <1>4 DEF Rollback, tables, Serially
  <2> QED
    BY <2>1 DEF NobodyLate
<1>5. ASSUME \/ CreateReport
             \/ \E l \in Line : EditExpense(l) \/ MoveExpense(l) \/ DeleteExpense(l)
             \/ \E p \in ProjectCode : AdministerProject(p)
      PROVE  NobodyLate'
  <2>1. UNCHANGED <<request, overlapped>>
    BY <1>5 DEF CreateReport, EditExpense, MoveExpense, DeleteExpense, SetExpense,
                AdministerProject
  <2>2. \A v \in Worker : request'[v] = Idle
    BY <2>1 DEF Serially
  <2> QED
    BY <2>1, <2>2 DEF NobodyLate
<1>6. ASSUME NEW w \in Worker, DeleteProject(w)
      PROVE  NobodyLate'
  <2>1. PICK req : /\ req.op = "delete_project"
                   /\ request' = [request EXCEPT ![w] = req]
                   /\ UNCHANGED tables
    BY <1>6, Zenon DEF DeleteProject
  <2>2. request'[w] = req /\ \A v \in Worker : v # w => request'[v] = request[v]
    BY <2>1
  <2> QED
    BY <2>1, <2>2 DEF NobodyLate, StillThere, tables
<1>7. ASSUME NEW w \in Worker, CommitDeletion(w)
      PROVE  NobodyLate'
  <2>1. request[w] # Idle /\ request' = [request EXCEPT ![w] = Idle] /\ overlapped' = overlapped
    BY <1>7 DEF CommitDeletion, Idle
  <2>2. \A v \in Worker : request'[v] = Idle
    BY <2>1 DEF Serially
  <2> QED
    BY <2>1, <2>2 DEF NobodyLate
<1> QED
  BY <1>2, <1>3, <1>4, <1>5, <1>6, <1>7 DEF Next

\* ExpensesFollowLines and TotalExplained without their exception.
ReportAgrees ==
    /\ \A l \in Line : expense[l] # NULL =>
           amount[l] # NULL /\ (l \notin edited => expense[l].amount = amount[l])
    /\ report # NULL => report.total_amount = Total(amount) + lingering

\* What the properties except is the overlap of handlers and nothing else: one at a time,
\* the expenses of a report and its total agree with its lines, always
\* (update_report, _recalculate_total).
THEOREM SerialReportAgrees == Spec /\ [][Serially]_vars => []ReportAgrees
<1>1. Init => NobodyLate
  BY DEF Init, NobodyLate
<1>2. IInv => DOMAIN request = Worker
  BY DEF IInv
<1>3. IInv /\ NobodyLate /\ [Next]_vars /\ [Serially]_vars => NobodyLate'
  BY <1>2, NobodyLateKept
<1>4. IInv /\ NobodyLate => ReportAgrees
  BY DEF IInv, NobodyLate, ExpensesFollowLines, TotalExplained, ReportAgrees
<1> QED
  BY <1>1, <1>3, <1>4, Inductive, PTL DEF Spec
===============================================================================
