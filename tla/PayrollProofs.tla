----------------------------- MODULE PayrollProofs -----------------------------
(***************************************************************************)
(* Proofs about Payroll, for any months, employees, salary structures,     *)
(* bodies of requests and workers.                                         *)
(***************************************************************************)
EXTENDS Payroll, FiniteSetTheorems, WellFoundedInduction, TLAPS

---------------------------------------------------------------------------
\* The inductive invariant.

Rows == PayrollRun \cup {NULL}

\* A net salary above zero is what is left of what the payslip shows as earned.
NetSound(row) ==
    LET bpjs == calculate_bpjs(row.gross)
    IN  row.net > 0 =>
            get_payslip(row) = row.net + bpjs.jht_employee + bpjs.jp_employee + bpjs.kes_employee
                               + row.tax + row.snapshot.manual_bpjs + row.snapshot.manual_tax

\* The holiday allowance of a row is the only one among the runs of its employee.
ThrAlone(row, e, m, runs) ==
    row.thr > 0 => \A k \in Month \ {m} : runs[k][e] # NULL => ~ (runs[k][e].thr > 0)

\* The months before m that have a run, and what their runs add up to.
Earlier(e, m, runs) == {k \in Month : k < m /\ runs[k][e] # NULL}
EarlierIncome(e, m, runs) ==
    SumFunction([k \in Earlier(e, m, runs) |-> runs[k][e].snapshot.taxable])
EarlierContributions(e, m, runs) ==
    SumFunction([k \in Earlier(e, m, runs) |-> runs[k][e].snapshot.contribution])
EarlierTax(e, m, runs) == SumFunction([k \in Earlier(e, m, runs) |-> runs[k][e].tax])

\* The row of an employee's final month brings the tax of the year to what it owes.
Settling(row, e, m, runs) ==
    row.tax + EarlierTax(e, m, runs)
    = calculate_pph21_annual(EarlierIncome(e, m, runs) + row.snapshot.taxable, PtkpStatus[e],
                             EarlierContributions(e, m, runs) + row.snapshot.contribution)

\* Numeric(18, 2), the type of the amounts of a run: no amount is larger.
LargestAmount == 10000 * (10000 * (10000 * 10000))

\* A grossed-up row pays its tax, if that fits the column.
Covered(row) ==
    row.method = "GROSS_UP" /\ row.tax <= LargestAmount
    => row.snapshot.allowance = Larger(0, row.tax)

\* What holds of a row that one session computed from the present tables.
RowSound(row, e, m, runs, last, ordered) ==
    /\ NetSound(row)
    /\ Covered(row)
    /\ ThrAlone(row, e, m, runs)
    /\ ordered /\ (m = 12 \/ last[e] = m) => Settling(row, e, m, runs)
    /\ ordered /\ last[e] # NULL => m <= last[e]

\* A run refers to an expense booked for it if it has a payslip, and nothing is booked for
\* it otherwise.
BookedWith(row, amounts) ==
    IF row = NULL \/ ~ row.slip THEN amounts = <<>> /\ (row # NULL => row.expense = NULL)
    ELSE row.expense \in 1..Len(amounts)

\* What a session that read a row makes of it, besides its payslip and expense.
Rewritten(read, new) ==
    new # NULL => /\ new.expense = IF read = NULL THEN NULL ELSE read.expense
                  /\ new.slip = IF read = NULL THEN FALSE ELSE read.slip

\* What post_period makes of a row: it adds the payslip when it has looked for it.
MayAddSlip(read, new) ==
    \/ new = read
    \/ read # NULL /\ new = [read EXCEPT !.slip = TRUE]

Record ==
    [op : {"calculate", "adjust", "lock", "unlock", "post"}, month : Month,
     status : PayrollStatus, runs : [Employee -> Rows],
     readStatus : PayrollStatus, readRuns : [Employee -> Rows], late : BOOLEAN]

\* What the operations of a period do to its status and its runs.
Transition(op, readStatus, status, read, new) ==
    \/ /\ op \in {"calculate", "adjust"} /\ readStatus = "OPEN" /\ status = "OPEN"
       /\ \A e \in Employee : Rewritten(read[e], new[e])
    \/ op = "lock" /\ readStatus = "OPEN" /\ status = "LOCKED" /\ new = read
    \/ op = "unlock" /\ readStatus = "LOCKED" /\ status = "OPEN" /\ new = read
    \/ /\ op = "post" /\ readStatus = "LOCKED" /\ status = "POSTED"
       /\ \A e \in Employee : MayAddSlip(read[e], new[e])

\* What a handler at work holds.
Held(req) ==
    /\ req \in Record
    /\ \A e \in Employee :
           req.readRuns[e] # NULL /\ req.readRuns[e].expense # NULL => req.readRuns[e].slip
    /\ Transition(req.op, req.readStatus, req.status, req.readRuns, req.runs)

\* A payslip it saw is still there, late or not.
SlipsThere(req, runs) ==
    \A e \in Employee : req.readRuns[e] # NULL /\ req.readRuns[e].slip =>
        runs[req.month][e] # NULL /\ runs[req.month][e].slip

\* What it holds is what the tables say, if nobody committed since.
UpToDate(req, status, runs, last, ordered) ==
    /\ req.readStatus = status[req.month]
    /\ req.readRuns = runs[req.month]
    /\ \A e \in Employee :
           req.runs[e] # NULL => RowSound(req.runs[e], e, req.month, runs, last, ordered)

TablesTyped ==
    /\ period \in [Month -> PayrollStatus \cup {NULL}]
    /\ run \in [Month -> [Employee -> Rows]]
    /\ booked \in [Month -> [Employee -> Seq(Nat)]]
    /\ ends \in [Employee -> Month \cup {NULL}]
    /\ orderly \in BOOLEAN
    /\ overlapped \in BOOLEAN

BookingSound == \A m \in Month, e \in Employee : BookedWith(run[m][e], booked[m][e])

RequestsHeld ==
    \A w \in Worker : request[w] # Idle =>
        /\ Held(request[w])
        /\ SlipsThere(request[w], run)
        /\ ~ request[w].late /\ ~ overlapped
           => UpToDate(request[w], period, run, ends, orderly)

RunsSound ==
    ~ overlapped => \A m \in Month, e \in Employee :
        run[m][e] # NULL => RowSound(run[m][e], e, m, run, ends, orderly)

\* Without overlaps, exactly the runs of posted periods are booked, with what they pay.
PostedSound ==
    ~ overlapped => \A m \in Month, e \in Employee :
        booked[m][e] = IF period[m] = "POSTED" /\ run[m][e] # NULL THEN <<run[m][e].net>>
                       ELSE <<>>

IInv ==
    /\ TablesTyped
    /\ DOMAIN request = Worker
    /\ RequestsHeld
    /\ BookingSound
    /\ RunsSound
    /\ PostedSound

---------------------------------------------------------------------------
\* Numbers and finite sets have least members: induction for what follows.

\* Every set of numbers that is not empty has a least one.
LEMMA LeastNumber ==
    ASSUME NEW T \in SUBSET Nat, T # {}
    PROVE  \E n \in T : \A m \in T : n <= m
<1> DEFINE less == {ss \in Nat \X Nat : ss[1] < ss[2]}
<1>1. IsWellFoundedOn(less, Nat)
  BY NatLessThanWellFounded DEF OpToRel
<1>2. PICK n \in T : \A m \in T : <<m, n>> \notin less
  BY <1>1, WFMin
<1>3. \A m \in T : ~ (m < n)
  BY <1>2
<1> QED
  BY <1>3

\* Every family of subsets of a finite set that is not empty has a smallest member.
LEMMA SmallestSet ==
    ASSUME NEW S, IsFiniteSet(S), NEW T \in SUBSET SUBSET S, T # {}
    PROVE  \E s \in T : \A t \in T : t \subseteq s => t = s
<1> DEFINE sizes == {Cardinality(s) : s \in T}
<1>1. \A s \in T : IsFiniteSet(s) /\ Cardinality(s) \in Nat
  BY FS_Subset, FS_CardinalityType
<1>2. PICK n \in sizes : \A m \in sizes : n <= m
  <2>1. sizes \in SUBSET Nat /\ sizes # {}
    BY <1>1
  <2> HIDE DEF sizes
  <2> QED
    BY <2>1, LeastNumber
<1>3. PICK s \in T : n = Cardinality(s)
  BY <1>2
<1>4. ASSUME NEW t \in T, t \subseteq s
      PROVE  t = s
  <2>1. Cardinality(t) <= Cardinality(s) /\ (Cardinality(s) = Cardinality(t) => s = t)
    BY <1>1, <1>4, FS_Subset
  <2>2. Cardinality(s) <= Cardinality(t)
    BY <1>2, <1>3
  <2> QED
    BY <1>1, <2>1, <2>2
<1> QED
  BY <1>4

---------------------------------------------------------------------------
\* Sums over finite sets: SumFunctionOnSet, one member at a time.

Picked(s) == CHOOSE x \in s : TRUE

IsSum(sum, val, S) ==
    sum = [s \in SUBSET S |-> IF s = {} THEN 0 ELSE val[Picked(s)] + sum[s \ {Picked(s)}]]

LEMMA SumUnique ==
    ASSUME NEW val, NEW S, NEW T, NEW f, NEW g, IsSum(f, val, S), IsSum(g, val, T),
           NEW u \in SUBSET (S \cap T), IsFiniteSet(u)
    PROVE  f[u] = g[u]
<1> DEFINE differ == {s \in SUBSET u : f[s] # g[s]}
<1> SUFFICES ASSUME differ # {} PROVE FALSE
  BY u \in SUBSET u
<1>1. PICK s \in differ : \A t \in differ : t \subseteq s => t = s
  <2>1. differ \in SUBSET SUBSET u
    OBVIOUS
  <2> HIDE DEF differ
  <2> QED
    BY <2>1, SmallestSet
<1>2. /\ f[s] = IF s = {} THEN 0 ELSE val[Picked(s)] + f[s \ {Picked(s)}]
      /\ g[s] = IF s = {} THEN 0 ELSE val[Picked(s)] + g[s \ {Picked(s)}]
  BY DEF IsSum
<1>3. s # {} /\ Picked(s) \in s
  BY <1>1, <1>2 DEF Picked
<1>4. f[s \ {Picked(s)}] = g[s \ {Picked(s)}]
  BY <1>1, <1>3
<1> QED
  BY <1>1, <1>2, <1>3, <1>4

LEMMA SumExists ==
    ASSUME NEW S, IsFiniteSet(S), NEW val
    PROVE  \E sum : IsSum(sum, val, S)
<1> DEFINE missing == {s \in SUBSET S : ~ \E sum : IsSum(sum, val, s)}
<1> SUFFICES ASSUME missing # {} PROVE FALSE
  BY S \in SUBSET S
<1>1. PICK s \in missing : \A t \in missing : t \subseteq s => t = s
  <2>1. missing \in SUBSET SUBSET S
    OBVIOUS
  <2> HIDE DEF missing
  <2> QED
    BY <2>1, SmallestSet
<1> DEFINE Of(t) == (CHOOSE sum : IsSum(sum, val, t))[t]
           whole == [t \in SUBSET s |-> IF t = {} THEN 0
                                         ELSE val[Picked(t)] + Of(t \ {Picked(t)})]
<1>2. ASSUME NEW t \in SUBSET s, t # s
      PROVE  IsSum(CHOOSE sum : IsSum(sum, val, t), val, t)
  BY <1>1, <1>2
<1>3. ASSUME NEW t \in SUBSET s, t # s
      PROVE  whole[t] = Of(t)
  <2> DEFINE sum == CHOOSE h : IsSum(h, val, t)
             rest == t \ {Picked(t)}
             less == CHOOSE h : IsSum(h, val, rest)
  <2>1. IsSum(sum, val, t)
    BY <1>2, <1>3
  <2>2. sum[t] = IF t = {} THEN 0 ELSE val[Picked(t)] + sum[rest]
    <3> HIDE DEF sum
    <3> QED
      BY <2>1 DEF IsSum
  <2>3. t # {} => sum[rest] = less[rest]
    <3>1. rest \in SUBSET s /\ rest # s /\ IsFiniteSet(rest)
      BY <1>1, <1>3, FS_Subset
    <3>2. IsSum(less, val, rest)
      BY <1>2, <3>1
    <3> HIDE DEF sum, less
    <3> QED
      BY <2>1, <3>1, <3>2, SumUnique
  <2> QED
    BY <2>2, <2>3
<1>4. ASSUME NEW t \in SUBSET s, t # {}
      PROVE  /\ t \ {Picked(t)} \in SUBSET s
             /\ t \ {Picked(t)} # s
  BY <1>4 DEF Picked
<1>5. \A t \in SUBSET s : t # {} => whole[t \ {Picked(t)}] = Of(t \ {Picked(t)})
  <2> HIDE DEF whole, Of
  <2> QED
    BY <1>3, <1>4
<1>6. IsSum(whole, val, s)
  <2> HIDE DEF Of
  <2>1. whole = [t \in SUBSET s |-> IF t = {} THEN 0
                                    ELSE val[Picked(t)] + whole[t \ {Picked(t)}]]
    BY <1>5
  <2> HIDE DEF whole
  <2> QED
    BY <2>1 DEF IsSum
<1> QED
  BY <1>1, <1>6

LEMMA SumStep ==
    ASSUME NEW S, IsFiniteSet(S), NEW val
    PROVE  /\ S = {} => SumFunctionOnSet(val, S) = 0
           /\ S # {} => /\ Picked(S) \in S
                        /\ SumFunctionOnSet(val, S)
                           = val[Picked(S)] + SumFunctionOnSet(val, S \ {Picked(S)})
<1> DEFINE Chosen(T) == CHOOSE g : IsSum(g, val, T)
           rest == S \ {Picked(S)}
<1>1. \A T : SumFunctionOnSet(val, T) = Chosen(T)[T]
  BY Zenon DEF SumFunctionOnSet, FoldFunctionOnSet, MapThenFoldSet, IsSum, Picked
<1>2. IsFiniteSet(rest)
  BY FS_Subset
<1>3. IsSum(Chosen(S), val, S) /\ IsSum(Chosen(rest), val, rest)
  BY <1>2, SumExists
<1> HIDE DEF Chosen
<1>4. Chosen(S)[S] = IF S = {} THEN 0 ELSE val[Picked(S)] + Chosen(S)[rest]
  BY <1>3 DEF IsSum
<1>5. Chosen(S)[rest] = Chosen(rest)[rest]
  BY <1>2, <1>3, SumUnique
<1>6. S # {} => Picked(S) \in S
  BY DEF Picked
<1> QED
  BY <1>1, <1>4, <1>5, <1>6

\* The sum of differences is the difference of the sums.
LEMMA SumOfDifferences ==
    ASSUME NEW S, IsFiniteSet(S), NEW f, NEW g, NEW h,
           \A x \in S : f[x] \in Int /\ g[x] \in Int /\ h[x] = f[x] - g[x]
    PROVE  /\ SumFunctionOnSet(f, S) \in Int
           /\ SumFunctionOnSet(g, S) \in Int
           /\ SumFunctionOnSet(h, S) = SumFunctionOnSet(f, S) - SumFunctionOnSet(g, S)
<1> DEFINE Holds(s) == /\ SumFunctionOnSet(f, s) \in Int
                       /\ SumFunctionOnSet(g, s) \in Int
                       /\ SumFunctionOnSet(h, s) = SumFunctionOnSet(f, s) - SumFunctionOnSet(g, s)
           wrong == {s \in SUBSET S : ~ Holds(s)}
<1> SUFFICES ASSUME wrong # {} PROVE FALSE
  BY S \in SUBSET S
<1>1. PICK s \in wrong : \A t \in wrong : t \subseteq s => t = s
  <2>1. wrong \in SUBSET SUBSET S
    OBVIOUS
  <2> HIDE DEF wrong
  <2> QED
    BY <2>1, SmallestSet
<1> DEFINE rest == s \ {Picked(s)}
<1>2. IsFiniteSet(s)
  BY FS_Subset
<1>3. s # {}
  <2>1. s = {} => /\ SumFunctionOnSet(f, s) = 0
                  /\ SumFunctionOnSet(g, s) = 0
                  /\ SumFunctionOnSet(h, s) = 0
    BY <1>2, SumStep
  <2> QED
    BY <1>1, <2>1
<1>4. /\ Picked(s) \in s
      /\ SumFunctionOnSet(f, s) = f[Picked(s)] + SumFunctionOnSet(f, rest)
      /\ SumFunctionOnSet(g, s) = g[Picked(s)] + SumFunctionOnSet(g, rest)
      /\ SumFunctionOnSet(h, s) = h[Picked(s)] + SumFunctionOnSet(h, rest)
  BY <1>2, <1>3, SumStep
<1>5. Holds(rest)
  <2>1. rest \in SUBSET S /\ rest \subseteq s /\ rest # s
    BY <1>4
  <2> HIDE DEF Holds, rest
  <2> QED
    BY <1>1, <2>1
<1>6. Picked(s) \in S
  BY <1>4
<1> HIDE DEF rest
<1> QED
  BY <1>1, <1>4, <1>5, <1>6

\* Two families that agree on a set have the same sum over it.
LEMMA SumAgree ==
    ASSUME NEW S, IsFiniteSet(S), NEW f, NEW g, \A x \in S : f[x] = g[x]
    PROVE  SumFunctionOnSet(f, S) = SumFunctionOnSet(g, S)
<1> DEFINE wrong == {s \in SUBSET S : SumFunctionOnSet(f, s) # SumFunctionOnSet(g, s)}
<1> SUFFICES ASSUME wrong # {} PROVE FALSE
  BY S \in SUBSET S
<1>1. PICK s \in wrong : \A t \in wrong : t \subseteq s => t = s
  <2>1. wrong \in SUBSET SUBSET S
    OBVIOUS
  <2> HIDE DEF wrong
  <2> QED
    BY <2>1, SmallestSet
<1> DEFINE rest == s \ {Picked(s)}
<1>2. IsFiniteSet(s)
  BY FS_Subset
<1>3. s # {}
  <2>1. s = {} => SumFunctionOnSet(f, s) = 0 /\ SumFunctionOnSet(g, s) = 0
    BY <1>2, SumStep
  <2> QED
    BY <1>1, <2>1
<1>4. /\ Picked(s) \in s
      /\ SumFunctionOnSet(f, s) = f[Picked(s)] + SumFunctionOnSet(f, rest)
      /\ SumFunctionOnSet(g, s) = g[Picked(s)] + SumFunctionOnSet(g, rest)
  BY <1>2, <1>3, SumStep
<1>5. SumFunctionOnSet(f, rest) = SumFunctionOnSet(g, rest)
  <2>1. rest \in SUBSET S /\ rest \subseteq s /\ rest # s
    BY <1>4
  <2> HIDE DEF rest
  <2> QED
    BY <1>1, <2>1
<1>6. Picked(s) \in S
  BY <1>4
<1> HIDE DEF rest
<1> QED
  BY <1>1, <1>4, <1>5, <1>6

\* A sum of integers is one, and one of naturals is a natural.
LEMMA SumType ==
    ASSUME NEW S, IsFiniteSet(S), NEW f, \A x \in S : f[x] \in Int
    PROVE  /\ SumFunctionOnSet(f, S) \in Int
           /\ (\A x \in S : f[x] \in Nat) => SumFunctionOnSet(f, S) \in Nat
<1> DEFINE Holds(s) == /\ SumFunctionOnSet(f, s) \in Int
                       /\ (\A x \in S : f[x] \in Nat) => SumFunctionOnSet(f, s) \in Nat
           wrong == {s \in SUBSET S : ~ Holds(s)}
<1> SUFFICES ASSUME wrong # {} PROVE FALSE
  BY S \in SUBSET S
<1>1. PICK s \in wrong : \A t \in wrong : t \subseteq s => t = s
  <2>1. wrong \in SUBSET SUBSET S
    OBVIOUS
  <2> HIDE DEF wrong
  <2> QED
    BY <2>1, SmallestSet
<1> DEFINE rest == s \ {Picked(s)}
<1>2. IsFiniteSet(s)
  BY FS_Subset
<1>3. s # {}
  <2>1. s = {} => SumFunctionOnSet(f, s) = 0
    BY <1>2, SumStep
  <2> QED
    BY <1>1, <2>1
<1>4. Picked(s) \in s /\ SumFunctionOnSet(f, s) = f[Picked(s)] + SumFunctionOnSet(f, rest)
  BY <1>2, <1>3, SumStep
<1>5. Holds(rest)
  <2>1. rest \in SUBSET S /\ rest \subseteq s /\ rest # s
    BY <1>4
  <2> HIDE DEF Holds, rest
  <2> QED
    BY <1>1, <2>1
<1>6. Picked(s) \in S
  BY <1>4
<1> HIDE DEF rest
<1> QED
  BY <1>1, <1>4, <1>5, <1>6

\* Any member may be counted first.
LEMMA SumRemove ==
    ASSUME NEW S, IsFiniteSet(S), NEW f, \A x \in S : f[x] \in Int
    PROVE  \A x \in S : SumFunctionOnSet(f, S) = f[x] + SumFunctionOnSet(f, S \ {x})
<1> DEFINE Holds(s) == \A x \in s : SumFunctionOnSet(f, s) = f[x] + SumFunctionOnSet(f, s \ {x})
           wrong == {s \in SUBSET S : ~ Holds(s)}
<1> SUFFICES ASSUME wrong # {} PROVE FALSE
  BY S \in SUBSET S
<1>1. PICK s \in wrong : \A t \in wrong : t \subseteq s => t = s
  <2>1. wrong \in SUBSET SUBSET S
    OBVIOUS
  <2> HIDE DEF wrong
  <2> QED
    BY <2>1, SmallestSet
<1>2. PICK x \in s : SumFunctionOnSet(f, s) # f[x] + SumFunctionOnSet(f, s \ {x})
  BY <1>1
<1> DEFINE p == Picked(s)
           both == s \ {p, x}
<1>3. /\ IsFiniteSet(s)
      /\ IsFiniteSet(s \ {x})
      /\ IsFiniteSet(s \ {p})
      /\ IsFiniteSet(both)
  BY FS_Subset
<1>4. p \in s /\ SumFunctionOnSet(f, s) = f[p] + SumFunctionOnSet(f, s \ {p})
  BY <1>3, SumStep
<1>5. p # x
  BY <1>2, <1>4
<1>6. Holds(s \ {p}) /\ Holds(s \ {x})
  <2>1. /\ s \ {p} \in SUBSET S /\ s \ {p} \subseteq s /\ s \ {p} # s
        /\ s \ {x} \in SUBSET S /\ s \ {x} \subseteq s /\ s \ {x} # s
    BY <1>4
  <2> HIDE DEF Holds, p
  <2> QED
    BY <1>1, <2>1
<1>7. (s \ {p}) \ {x} = both /\ (s \ {x}) \ {p} = both
  OBVIOUS
<1>8. SumFunctionOnSet(f, s \ {p}) = f[x] + SumFunctionOnSet(f, both)
  BY <1>5, <1>6, <1>7
<1>9. SumFunctionOnSet(f, s \ {x}) = f[p] + SumFunctionOnSet(f, both)
  BY <1>4, <1>5, <1>6, <1>7
<1>10. SumFunctionOnSet(f, both) \in Int
  BY <1>3, SumType
<1>11. f[x] \in Int /\ f[p] \in Int
  BY <1>4
<1> HIDE DEF p, both
<1> QED
  BY <1>2, <1>4, <1>8, <1>9, <1>10, <1>11

\* f is the function g on S with one more argument, x.
OneMore(f, g, S, x) ==
    /\ x \notin S
    /\ DOMAIN f = S \cup {x} /\ DOMAIN g = S
    /\ f[x] \in Int
    /\ \A y \in S : g[y] = f[y] /\ f[y] \in Int

LEMMA SumOneMore ==
    ASSUME NEW S, IsFiniteSet(S), NEW x, NEW f, NEW g, OneMore(f, g, S, x)
    PROVE  SumFunction(f) = f[x] + SumFunction(g)
<1> USE DEF OneMore
<1>1. IsFiniteSet(S \cup {x})
  BY FS_AddElement
<1>2. (S \cup {x}) \ {x} = S
  OBVIOUS
<1>3. SumFunctionOnSet(f, S \cup {x}) = f[x] + SumFunctionOnSet(f, S)
  BY <1>1, <1>2, SumRemove
<1>4. SumFunctionOnSet(f, S) = SumFunctionOnSet(g, S)
  BY SumAgree
<1> QED
  BY <1>3, <1>4 DEF SumFunction

LEMMA SumFunctionType ==
    ASSUME NEW f, IsFiniteSet(DOMAIN f), \A x \in DOMAIN f : f[x] \in Int
    PROVE  /\ SumFunction(f) \in Int
           /\ (\A x \in DOMAIN f : f[x] \in Nat) => SumFunction(f) \in Nat
  BY SumType DEF SumFunction

---------------------------------------------------------------------------
\* The arithmetic of PayrollTax.

LEMMA ShareType ==
    ASSUME NEW amount \in Nat, NEW rate \in Nat
    PROVE  Share(amount, rate) \in Nat
<1>1. PICK q, r \in Nat : q = amount \div 10000 /\ r = amount % 10000
  OBVIOUS
<1>2. q * rate \in Nat /\ r * rate \in Nat
  OBVIOUS
<1>3. PICK p \in Nat : p = r * rate
  BY <1>2
<1>4. (p + 5000) \div 10000 \in Nat
  OBVIOUS
<1> QED
  BY <1>1, <1>2, <1>3, <1>4 DEF Share

LEMMA HalfEvenType ==
    ASSUME NEW n \in Nat, NEW d \in Nat \ {0}
    PROVE  HalfEven(n, d) \in Nat
<1>1. n \div d \in Nat
  OBVIOUS
<1> QED
  BY <1>1 DEF HalfEven

LEMMA LargerType ==
    \A a, b \in Int : /\ Larger(a, b) \in Int /\ Larger(a, b) >= a /\ Larger(a, b) >= b
                      /\ Smaller(a, b) \in Int /\ Smaller(a, b) <= a /\ Smaller(a, b) <= b
                      /\ Larger(a, b) \in {a, b} /\ Smaller(a, b) \in {a, b}
  BY DEF Larger, Smaller

LEMMA LargerNat ==
    \A a \in Int : Larger(0, a) \in Nat
  BY DEF Larger

\* The rate of a month's income is one of the table of its category.
LEMMA TerRateType ==
    ASSUME NEW gross \in Int, NEW status \in DOMAIN PTKP
    PROVE  ter_rate(gross, status) \in Nat
<1> DEFINE c == ter_category(status)
           upper == TerUpper[c]
           passed == {i \in DOMAIN upper : gross > upper[i] * 1000}
<1>1. c \in {"A", "B", "C"}
  BY DEF ter_category, PTKP
<1> HIDE DEF c
<1>2. /\ TerRate[c] \in Seq(Nat) /\ upper \in Seq(Nat)
      /\ Len(TerRate[c]) = Len(upper) + 1
  BY <1>1, TerAssumption
<1>3. PICK steps \in Nat : steps = Len(upper) /\ DOMAIN upper = 1..steps
  BY <1>2
<1>4. IsFiniteSet(1..steps) /\ Cardinality(1..steps) = steps
  <2>1. IsFiniteSet(1..steps) /\ Cardinality(1..steps) = IF 1 > steps THEN 0 ELSE steps - 1 + 1
    BY FS_Interval
  <2> QED
    BY <2>1
<1>5. Cardinality(passed) \in Nat /\ Cardinality(passed) <= steps
  <2>1. passed \subseteq 1..steps
    BY <1>3
  <2>2. IsFiniteSet(passed) /\ Cardinality(passed) <= Cardinality(1..steps)
    BY <1>4, <2>1, FS_Subset
  <2> HIDE DEF passed
  <2> QED
    BY <1>4, <2>2, FS_CardinalityType
<1>6. PICK n \in 0..steps : n = Cardinality(passed)
  BY <1>5
<1>7. TerRate[c][n + 1] \in Nat
  BY <1>2, <1>3
<1> QED
  BY <1>6, <1>7 DEF ter_rate, c

LEMMA TerType ==
    ASSUME NEW gross \in Int, NEW status \in DOMAIN PTKP
    PROVE  calculate_pph21_ter(gross, status) \in Nat
  BY TerRateType, ShareType, LargerType DEF calculate_pph21_ter

\* The layers of the taxable income, and the tax they add up to.
Layer(income, start, end) == Larger(0, Smaller(income, end) - start)
LayeredTax(income) ==
    50 * Layer(income, 0, 60000) + 150 * Layer(income, 60000, 250000)
    + 250 * Layer(income, 250000, 500000) + 300 * Layer(income, 500000, 5000000)
    + 350 * Larger(0, income - 5000000)

LEMMA AnnualLayers ==
    ASSUME NEW pkp \in Int
    PROVE  /\ Larger(0, pkp) \div 1000 \in Nat
           /\ _annual_tax(pkp) = LayeredTax(Larger(0, pkp) \div 1000)
<1>1. PICK income \in Nat : income = Larger(0, pkp) \div 1000
  <2>1. Larger(0, pkp) \in Nat
    BY LargerType
  <2> QED
    BY <2>1
<1> DEFINE end(i) == IF i = Len(Bracket) THEN income ELSE Smaller(income, Bracket[i + 1][1])
           layer(i) == Larger(0, end(i) - Bracket[i][1])
           parts == [i \in DOMAIN Bracket |-> layer(i) * Bracket[i][2] * 10]
<1>2. Len(Bracket) = 5 /\ DOMAIN Bracket = 1..5
  BY DEF Bracket
<1>3. /\ Bracket[1] = <<0, 5>> /\ Bracket[2] = <<60000, 15>> /\ Bracket[3] = <<250000, 25>>
      /\ Bracket[4] = <<500000, 30>> /\ Bracket[5] = <<5000000, 35>>
  BY DEF Bracket
<1>4. /\ layer(1) = Layer(income, 0, 60000) /\ layer(2) = Layer(income, 60000, 250000)
      /\ layer(3) = Layer(income, 250000, 500000)
      /\ layer(4) = Layer(income, 500000, 5000000)
      /\ layer(5) = Larger(0, income - 5000000)
  BY <1>2, <1>3 DEF Layer
<1>5. /\ \A i \in 1..5 : layer(i) \in Nat
      /\ parts = [i \in 1..5 |-> layer(i) * Bracket[i][2] * 10]
  <2>1. /\ Layer(income, 0, 60000) \in Nat /\ Layer(income, 60000, 250000) \in Nat
        /\ Layer(income, 250000, 500000) \in Nat /\ Layer(income, 500000, 5000000) \in Nat
        /\ Larger(0, income - 5000000) \in Nat
    BY DEF Layer, Larger, Smaller
  <2>2. \A i \in 1..5 : i = 1 \/ i = 2 \/ i = 3 \/ i = 4 \/ i = 5
    OBVIOUS
  <2> HIDE DEF layer
  <2> QED
    BY <1>2, <1>4, <2>1, <2>2
<1> HIDE DEF layer
<1>6. /\ parts[1] = 50 * layer(1) /\ parts[2] = 150 * layer(2) /\ parts[3] = 250 * layer(3)
      /\ parts[4] = 300 * layer(4) /\ parts[5] = 350 * layer(5)
  BY <1>3, <1>5
<1>7. DOMAIN parts = 1..5 /\ \A i \in 1..5 : parts[i] \in Int
  <2>1. \A i \in 1..5 : i = 1 \/ i = 2 \/ i = 3 \/ i = 4 \/ i = 5
    OBVIOUS
  <2>2. DOMAIN parts = 1..5
    BY <1>5
  <2> HIDE DEF parts
  <2> QED
    BY <1>5, <1>6, <2>1, <2>2
<1> HIDE DEF parts
<1>8. SumFunction(parts) = parts[1] + parts[2] + parts[3] + parts[4] + parts[5]
  <2> DEFINE sum(S) == SumFunctionOnSet(parts, S)
  <2>1. \A S \in SUBSET (1..5) : IsFiniteSet(S)
    <3>1. PICK five \in Int : five = 5
      OBVIOUS
    <3>2. IsFiniteSet(1..five)
      BY FS_Interval
    <3> QED
      BY <3>1, <3>2, FS_Subset
  <2>2. \A S \in SUBSET (1..5) : \A x \in S : sum(S) = parts[x] + sum(S \ {x})
    BY <1>7, <2>1, SumRemove
  <2>3. sum({}) = 0
    BY <2>1, SumStep
  <2>4. /\ 1..5 = {1, 2, 3, 4, 5}
        /\ {1, 2, 3, 4, 5} \ {1} = {2, 3, 4, 5} /\ {2, 3, 4, 5} \ {2} = {3, 4, 5}
        /\ {3, 4, 5} \ {3} = {4, 5} /\ {4, 5} \ {4} = {5} /\ {5} \ {5} = {}
    OBVIOUS
  <2> HIDE DEF sum
  <2>5. /\ sum({1, 2, 3, 4, 5}) = parts[1] + sum({2, 3, 4, 5})
        /\ sum({2, 3, 4, 5}) = parts[2] + sum({3, 4, 5})
    BY <2>2, <2>4
  <2>6. /\ sum({3, 4, 5}) = parts[3] + sum({4, 5})
        /\ sum({4, 5}) = parts[4] + sum({5})
        /\ sum({5}) = parts[5] + sum({})
    BY <2>2, <2>4
  <2>7. /\ sum({5}) = parts[5] /\ sum({4, 5}) = parts[4] + parts[5]
        /\ sum({3, 4, 5}) = parts[3] + parts[4] + parts[5]
    <3>1. /\ parts[1] \in Int /\ parts[2] \in Int /\ parts[3] \in Int /\ parts[4] \in Int
          /\ parts[5] \in Int
      BY <1>7
    <3> QED
      BY <2>3, <2>6, <3>1
  <2>8. sum({1, 2, 3, 4, 5}) = parts[1] + parts[2] + parts[3] + parts[4] + parts[5]
    <3>1. /\ parts[1] \in Int /\ parts[2] \in Int /\ parts[3] \in Int /\ parts[4] \in Int
          /\ parts[5] \in Int
      BY <1>7
    <3> QED
      BY <2>5, <2>7, <3>1
  <2>9. SumFunction(parts) = sum(1..5)
    BY <1>7 DEF SumFunction, sum
  <2> QED
    BY <2>4, <2>8, <2>9
<1>9. _annual_tax(pkp) = SumFunction(parts)
  BY <1>1 DEF _annual_tax, parts, layer, end
<1>10. SumFunction(parts) = LayeredTax(income)
  BY <1>4, <1>6, <1>8 DEF LayeredTax
<1> QED
  BY <1>1, <1>9, <1>10

LEMMA AnnualTaxType ==
    ASSUME NEW pkp \in Int
    PROVE  _annual_tax(pkp) \in Nat
<1>1. PICK income \in Nat : _annual_tax(pkp) = LayeredTax(income)
  BY AnnualLayers
<1> QED
  BY <1>1 DEF LayeredTax, Layer, Larger, Smaller

LEMMA AnnualType ==
    ASSUME NEW gross \in Int, NEW status \in DOMAIN PTKP, NEW contributions \in Int
    PROVE  calculate_pph21_annual(gross, status, contributions) \in Nat
<1>1. PTKP[status] \in Nat
  BY DEF PTKP
<1>2. Smaller((Larger(0, gross) + 19) \div 20, 6000000) \in Int
  <2>1. Larger(0, gross) + 19 \in Nat
    BY LargerType
  <2>2. (Larger(0, gross) + 19) \div 20 \in Int
    BY <2>1
  <2> QED
    BY <2>2, LargerType
<1>3. Larger(0, gross) \in Int /\ Larger(0, contributions) \in Int
  BY LargerType
<1> QED
  BY <1>1, <1>2, <1>3, AnnualTaxType DEF calculate_pph21_annual

\* The iteration of a gross-up ends with an allowance, whatever the tax.
IsRounds(tax, round, n) ==
    round = [left \in 0..n |->
                [allowance \in Nat |->
                    IF left = 0 \/ Larger(0, tax[allowance]) = allowance THEN allowance
                    ELSE round[left - 1][Larger(0, tax[allowance])]]]

LEMMA RoundsExist ==
    ASSUME NEW tax \in [Nat -> Int], NEW limit \in Nat
    PROVE  \E round : IsRounds(tax, round, limit)
<1> DEFINE missing == {n \in Nat : ~ \E round : IsRounds(tax, round, n)}
<1> SUFFICES ASSUME missing # {} PROVE FALSE
  OBVIOUS
<1>1. PICK n \in missing : \A k \in missing : n <= k
  <2>1. missing \in SUBSET Nat
    OBVIOUS
  <2> HIDE DEF missing
  <2> QED
    BY <2>1, LeastNumber
<1>2. ~ \E round : IsRounds(tax, round, n)
  BY <1>1
<1>3. n # 0
  <2> DEFINE round == [left \in 0..0 |-> [allowance \in Nat |-> allowance]]
  <2>1. IsRounds(tax, round, 0)
    BY DEF IsRounds
  <2> HIDE DEF round
  <2> QED
    BY <1>2, <2>1
<1>4. PICK before : IsRounds(tax, before, n - 1)
  <2>1. n - 1 \in Nat /\ n - 1 \notin missing
    BY <1>1, <1>3
  <2> QED
    BY <2>1
<1> DEFINE raised(a) == Larger(0, tax[a])
           round == [left \in 0..n |->
                        IF left < n THEN before[left]
                        ELSE [allowance \in Nat |->
                                 IF raised(allowance) = allowance THEN allowance
                                 ELSE before[n - 1][raised(allowance)]]]
           row(left) == [allowance \in Nat |->
                            IF left = 0 \/ raised(allowance) = allowance THEN allowance
                            ELSE round[left - 1][raised(allowance)]]
<1>5. ASSUME NEW left \in 0..n
      PROVE  round[left] = row(left)
  <2>1. CASE left < n
    <3>1. left \in 0..(n - 1)
      BY <2>1
    <3>2. before[left] = [allowance \in Nat |->
                             IF left = 0 \/ raised(allowance) = allowance THEN allowance
                             ELSE before[left - 1][raised(allowance)]]
      BY <1>4, <3>1 DEF IsRounds
    <3>3. left # 0 => round[left - 1] = before[left - 1]
      BY <2>1
    <3>4. before[left] = row(left)
      <4> HIDE DEF round, raised
      <4> QED
        BY <3>2, <3>3
    <3> QED
      BY <2>1, <3>4
  <2>2. CASE left = n
    <3>1. round[n - 1] = before[n - 1]
      BY <1>3
    <3>2. round[n] = [allowance \in Nat |->
                         IF raised(allowance) = allowance THEN allowance
                         ELSE before[n - 1][raised(allowance)]]
      OBVIOUS
    <3> HIDE DEF round, raised
    <3> QED
      BY <1>3, <2>2, <3>1, <3>2
  <2> QED
    BY <2>1, <2>2
<1>6. round = [left \in 0..n |-> row(left)]
  <2>1. DOMAIN round = 0..n /\ round = [left \in 0..n |-> round[left]]
    OBVIOUS
  <2> HIDE DEF round, row
  <2> QED
    BY <1>5, <2>1
<1>7. IsRounds(tax, round, n)
  <2> HIDE DEF round
  <2> QED
    BY <1>6 DEF IsRounds
<1> HIDE DEF round
<1> QED
  BY <1>2, <1>7

LEMMA RoundsType ==
    ASSUME NEW tax \in [Nat -> Int], NEW limit \in Nat, NEW round, IsRounds(tax, round, limit)
    PROVE  \A n \in 0..limit, a \in Nat : round[n][a] \in Nat
<1> DEFINE wrong == {n \in 0..limit : \E a \in Nat : round[n][a] \notin Nat}
<1> SUFFICES ASSUME wrong # {} PROVE FALSE
  OBVIOUS
<1>1. PICK n \in wrong : \A k \in wrong : n <= k
  <2>1. wrong \in SUBSET Nat
    OBVIOUS
  <2> HIDE DEF wrong
  <2> QED
    BY <2>1, LeastNumber
<1>2. PICK a \in Nat : round[n][a] \notin Nat
  BY <1>1
<1>3. round[n][a] = IF n = 0 \/ Larger(0, tax[a]) = a THEN a ELSE round[n - 1][Larger(0, tax[a])]
  <2>1. n \in 0..limit
    BY <1>1
  <2>2. round[n] = [allowance \in Nat |->
                       IF n = 0 \/ Larger(0, tax[allowance]) = allowance THEN allowance
                       ELSE round[n - 1][Larger(0, tax[allowance])]]
    BY <2>1 DEF IsRounds
  <2> HIDE DEF wrong
  <2> QED
    BY <2>2
<1>4. Larger(0, tax[a]) \in Nat
  <2>1. tax[a] \in Int
    OBVIOUS
  <2> QED
    BY <2>1, LargerNat
<1>5. n # 0 => n - 1 \in 0..limit /\ n - 1 \notin wrong
  BY <1>1
<1> QED
  BY <1>2, <1>3, <1>4, <1>5

LEMMA SettledType ==
    ASSUME NEW tax \in [Nat -> Int]
    PROVE  Settled(tax) \in Nat
<1> DEFINE round == CHOOSE round : IsRounds(tax, round, Rounds)
<1>1. Settled(tax) = round[Rounds][0]
  BY Zenon DEF Settled, IsRounds
<1>2. Rounds \in Nat
  BY DEF Rounds
<1>3. IsRounds(tax, round, Rounds)
  BY <1>2, RoundsExist
<1> HIDE DEF round
<1> QED
  BY <1>1, <1>2, <1>3, RoundsType

---------------------------------------------------------------------------
\* The iteration of the final month settles: the tax grows by 35 hundredths of what the
\* income grows at most, in steps of a thousand rupiah.

\* What a round makes of an allowance.
Raised(tax, a) == Larger(0, tax[a])

Gentle(tax) ==
    /\ tax \in [Nat -> Int]
    /\ \A a, b \in Nat : a <= b => Raised(tax, a) <= Raised(tax, b)
    /\ \A a, b, q \in Nat :
           a <= b /\ b <= a + 1000 * q => Raised(tax, b) <= Raised(tax, a) + 350 * q
    /\ \A a, b, c \in Nat :
           /\ a <= b /\ b <= a + 350 /\ b <= c /\ c <= b + 350
           /\ Raised(tax, a) < Raised(tax, b)
           => Raised(tax, b) = Raised(tax, c)

LEMMA LayeredTaxGentle ==
    ASSUME NEW x \in Nat, NEW y \in Nat, x <= y
    PROVE  /\ LayeredTax(x) \in Nat
           /\ LayeredTax(x) <= LayeredTax(y)
           /\ LayeredTax(y) <= LayeredTax(x) + 350 * (y - x)
  BY DEF LayeredTax, Layer, Larger, Smaller

\* The taxable income of the year, in rupiah.
Taxable(gross, ptkp, contributions) ==
    Larger(0, Larger(0, gross) - Smaller((Larger(0, gross) + 19) \div 20, 6000000)
              - Larger(0, contributions) - ptkp)

LEMMA TaxableGentle ==
    ASSUME NEW x \in Nat, NEW y \in Nat, x <= y, NEW ptkp \in Nat, NEW contributions \in Int
    PROVE  /\ Taxable(x, ptkp, contributions) \in Nat
           /\ Taxable(x, ptkp, contributions) <= Taxable(y, ptkp, contributions)
           /\ Taxable(y, ptkp, contributions) <= Taxable(x, ptkp, contributions) + (y - x)
<1>1. PICK less \in Int : less = Larger(0, contributions)
  BY LargerType
<1>2. PICK p, q \in Nat : p = (x + 19) \div 20 /\ q = (y + 19) \div 20
  OBVIOUS
<1>3. p <= q /\ q <= p + (y - x)
  BY <1>2
<1>4. Larger(0, x) = x /\ Larger(0, y) = y
  BY DEF Larger
<1>5. /\ Taxable(x, ptkp, contributions) = Larger(0, x - Smaller(p, 6000000) - less - ptkp)
      /\ Taxable(y, ptkp, contributions) = Larger(0, y - Smaller(q, 6000000) - less - ptkp)
  BY <1>1, <1>2, <1>4 DEF Taxable
<1> QED
  BY <1>3, <1>5 DEF Larger, Smaller

\* The tax of the final month, by the allowance.
FinalTax(gross, prior, status, contributions) ==
    [a \in Nat |-> calculate_pph21_final_period(gross + a, prior, status, contributions)]

LEMMA FinalTaxGentle ==
    ASSUME NEW gross \in Nat, NEW prior \in Int, NEW status \in DOMAIN PTKP,
           NEW contributions \in Int
    PROVE  Gentle(FinalTax(gross, prior, status, contributions))
<1> DEFINE tax == [a \in Nat |->
                      calculate_pph21_final_period(gross + a, prior, status, contributions)]
           net(a) == Taxable(gross + a, PTKP[status], contributions)
           income(a) == net(a) \div 1000
<1>1. PTKP[status] \in Nat
  BY DEF PTKP
<1>2. ASSUME NEW a \in Nat
      PROVE  /\ net(a) \in Nat /\ income(a) \in Nat
             /\ tax[a] = LayeredTax(income(a)) - prior
             /\ LayeredTax(income(a)) \in Nat
  <2>1. PICK x \in Nat : x = gross + a
    OBVIOUS
  <2>2. PICK pkp \in Int :
            /\ pkp = Larger(0, x) - Smaller((Larger(0, x) + 19) \div 20, 6000000)
                     - Larger(0, contributions) - PTKP[status]
            /\ net(a) = Larger(0, pkp)
    <3>1. Larger(0, x) \in Nat /\ Larger(0, contributions) \in Int
      BY LargerType
    <3>2. Smaller((Larger(0, x) + 19) \div 20, 6000000) \in Int
      <4>1. (Larger(0, x) + 19) \div 20 \in Int
        BY <3>1
      <4> QED
        BY <4>1, LargerType
    <3> QED
      BY <1>1, <2>1, <3>1, <3>2 DEF Taxable
  <2>3. net(a) \in Nat
    BY <2>2, LargerNat
  <2>4. _annual_tax(pkp) = LayeredTax(income(a)) /\ income(a) \in Nat
    BY <2>2, AnnualLayers
  <2>5. tax[a] = _annual_tax(pkp) - prior
    BY <2>1, <2>2 DEF calculate_pph21_final_period, calculate_pph21_annual
  <2>6. LayeredTax(income(a)) \in Nat
    BY <2>4, LayeredTaxGentle
  <2> QED
    BY <2>3, <2>4, <2>5, <2>6
<1>3. tax \in [Nat -> Int]
  <2>1. \A a \in Nat : tax[a] \in Int
    <3> HIDE DEF tax, income
    <3> QED
      BY <1>2
  <2>2. tax = [a \in Nat |-> tax[a]]
    OBVIOUS
  <2> HIDE DEF tax
  <2> QED
    BY <2>1, <2>2
<1>4. ASSUME NEW a \in Nat, NEW b \in Nat, a <= b
      PROVE  net(a) <= net(b) /\ net(b) <= net(a) + (b - a)
  <2>1. PICK x, y \in Nat : x = gross + a /\ y = gross + b
    OBVIOUS
  <2>2. x <= y /\ y - x = b - a
    BY <1>4, <2>1
  <2> QED
    BY <1>1, <2>1, <2>2, TaxableGentle
<1> HIDE DEF tax, net
<1>5. ASSUME NEW a \in Nat, NEW b \in Nat, a <= b
      PROVE  /\ income(a) <= income(b)
             /\ tax[a] <= tax[b]
             /\ tax[b] <= tax[a] + 350 * (income(b) - income(a))
             /\ \A q \in Nat : b <= a + 1000 * q => income(b) <= income(a) + q
  <2>1. income(a) <= income(b)
    BY <1>2, <1>4, <1>5
  <2>2. ASSUME NEW q \in Nat, b <= a + 1000 * q
        PROVE  income(b) <= income(a) + q
    BY <1>2, <1>4, <1>5, <2>2
  <2> HIDE DEF income
  <2>3. /\ LayeredTax(income(a)) <= LayeredTax(income(b))
        /\ LayeredTax(income(b)) <= LayeredTax(income(a)) + 350 * (income(b) - income(a))
    BY <1>2, <2>1, LayeredTaxGentle
  <2> QED
    BY <1>2, <2>1, <2>2, <2>3
<1>6. ASSUME NEW a \in Nat, NEW b \in Nat, a <= b
      PROVE  Raised(tax, a) <= Raised(tax, b)
  <2>1. tax[a] <= tax[b] /\ tax[a] \in Int /\ tax[b] \in Int
    BY <1>3, <1>5, <1>6
  <2> QED
    BY <2>1 DEF Raised, Larger
<1>7. ASSUME NEW a \in Nat, NEW b \in Nat, NEW q \in Nat, a <= b, b <= a + 1000 * q
      PROVE  Raised(tax, b) <= Raised(tax, a) + 350 * q
  <2>1. /\ tax[b] <= tax[a] + 350 * (income(b) - income(a))
        /\ income(b) <= income(a) + q
    BY <1>5, <1>7
  <2>2. tax[a] \in Int /\ tax[b] \in Int /\ income(a) \in Nat /\ income(b) \in Nat
    BY <1>2, <1>3
  <2> HIDE DEF income
  <2>3. tax[b] <= tax[a] + 350 * q
    BY <2>1, <2>2
  <2> QED
    BY <2>2, <2>3 DEF Raised, Larger
<1>8. ASSUME NEW a \in Nat, NEW b \in Nat, NEW c \in Nat,
             a <= b, b <= a + 350, b <= c, c <= b + 350, Raised(tax, a) < Raised(tax, b)
      PROVE  Raised(tax, b) = Raised(tax, c)
  <2>1. tax[a] \in Int /\ tax[b] \in Int /\ tax[a] < tax[b]
    <3>1. tax[a] \in Int /\ tax[b] \in Int
      BY <1>3
    <3> QED
      BY <1>8, <3>1 DEF Raised, Larger
  <2>2. income(a) < income(b)
    <3>1. /\ tax[b] <= tax[a] + 350 * (income(b) - income(a))
          /\ income(a) \in Nat /\ income(b) \in Nat
      BY <1>2, <1>5, <1>8
    <3> HIDE DEF income
    <3> QED
      BY <2>1, <3>1
  <2>3. /\ net(a) \in Nat /\ net(b) \in Nat /\ net(c) \in Nat
        /\ net(b) <= net(a) + 350 /\ net(b) <= net(c) /\ net(c) <= net(b) + 350
    <3>1. net(b) <= net(a) + (b - a) /\ net(b) <= net(c) /\ net(c) <= net(b) + (c - b)
      BY <1>4, <1>8
    <3> QED
      BY <1>2, <1>8, <3>1
  <2>4. income(b) = income(c)
    BY <2>2, <2>3
  <2>5. tax[b] = tax[c]
    BY <1>2, <2>4
  <2> QED
    BY <2>5 DEF Raised
<1>9. Gentle(tax)
  BY <1>3, <1>6, <1>7, <1>8 DEF Gentle
<1> QED
  BY <1>9 DEF tax, FinalTax

\* From every allowance that a round raises by at most gap, left rounds settle.
Settles(tax, round, gap, left) ==
    \A a \in Nat : a <= Raised(tax, a) /\ Raised(tax, a) <= a + gap
                   => Raised(tax, round[left][a]) = round[left][a]

\* What the rounds make of an allowance, one round at a time.
RoundByRound(tax, round, limit) ==
    \A left \in 0..limit, a \in Nat :
        /\ left = 0 \/ Raised(tax, a) = a => round[left][a] = a
        /\ left # 0 /\ Raised(tax, a) # a => round[left][a] = round[left - 1][Raised(tax, a)]

LEMMA RoundIs ==
    ASSUME NEW tax, NEW limit \in Nat, NEW round, IsRounds(tax, round, limit)
    PROVE  RoundByRound(tax, round, limit)
<1> SUFFICES ASSUME NEW left \in 0..limit, NEW a \in Nat
             PROVE  /\ left = 0 \/ Raised(tax, a) = a => round[left][a] = a
                    /\ left # 0 /\ Raised(tax, a) # a
                       => round[left][a] = round[left - 1][Raised(tax, a)]
  BY DEF RoundByRound
<1>1. round[left] = [allowance \in Nat |->
                        IF left = 0 \/ Larger(0, tax[allowance]) = allowance THEN allowance
                        ELSE round[left - 1][Larger(0, tax[allowance])]]
  BY DEF IsRounds
<1> QED
  BY <1>1 DEF Raised

LEMMA RaisedType ==
    ASSUME NEW tax, Gentle(tax), NEW a \in Nat
    PROVE  Raised(tax, a) \in Nat
<1>1. tax[a] \in Int
  BY DEF Gentle
<1> QED
  BY <1>1, LargerNat DEF Raised

\* One round leaves 350 of every thousand.
Leaves(wide, gap) == gap \in Nat /\ \E q \in Nat : wide = 1000 * q /\ 350 * q <= gap

LEMMA OneRound ==
    ASSUME NEW tax, Gentle(tax), NEW limit \in Nat, NEW round, RoundByRound(tax, round, limit),
           NEW left \in 0..limit, NEW before \in 0..limit, before = left - 1,
           NEW wide, NEW gap, Leaves(wide, gap), Settles(tax, round, gap, before)
    PROVE  Settles(tax, round, wide, left)
<1>1. PICK q \in Nat : wide = 1000 * q /\ 350 * q <= gap
  BY DEF Leaves
<1> SUFFICES ASSUME NEW a \in Nat, a <= Raised(tax, a), Raised(tax, a) <= a + 1000 * q,
                    Raised(tax, a) # a
             PROVE  Raised(tax, round[left][a]) = round[left][a]
  BY <1>1 DEF Settles, RoundByRound
<1>2. PICK b \in Nat : b = Raised(tax, a)
  BY RaisedType
<1>3. round[left][a] = round[before][b]
  BY <1>2 DEF RoundByRound
<1>4. Raised(tax, b) \in Nat /\ b <= Raised(tax, b) /\ Raised(tax, b) <= b + 350 * q
  BY <1>2, RaisedType DEF Gentle
<1>5. Raised(tax, b) <= b + gap
  BY <1>1, <1>4 DEF Leaves
<1> QED
  BY <1>3, <1>4, <1>5 DEF Settles

\* Two rounds settle what grows by 350 at most: it crosses one thousand, not two.
LEMMA LastRounds ==
    ASSUME NEW tax, Gentle(tax), NEW limit \in Nat, NEW round, RoundByRound(tax, round, limit),
           NEW left \in 0..limit, left >= 2
    PROVE  Settles(tax, round, 350, left)
<1> SUFFICES ASSUME NEW a \in Nat, a <= Raised(tax, a), Raised(tax, a) <= a + 350,
                    Raised(tax, a) # a
             PROVE  Raised(tax, round[left][a]) = round[left][a]
  BY DEF Settles, RoundByRound
<1>1. PICK b \in Nat : b = Raised(tax, a)
  BY RaisedType
<1>2. PICK c \in Nat : c = Raised(tax, b)
  BY RaisedType
<1>3. round[left][a] = round[left - 1][b]
  BY <1>1 DEF RoundByRound
<1>4. left - 1 \in 0..limit /\ left - 1 # 0 /\ left - 2 \in 0..limit /\ (left - 1) - 1 = left - 2
  OBVIOUS
<1>5. CASE c = b
  BY <1>2, <1>3, <1>4, <1>5 DEF RoundByRound
<1>6. CASE c # b
  <2>1. b <= c /\ c <= b + 350 * 1
    <3>1. b <= a + 1000 * 1 /\ 1 \in Nat
      BY <1>1
    <3> QED
      BY <1>1, <1>2, <3>1 DEF Gentle
  <2>2. Raised(tax, b) = Raised(tax, c)
    <3>1. c <= b + 350 /\ a <= b /\ b <= a + 350 /\ Raised(tax, a) < Raised(tax, b)
      BY <1>1, <1>2, <1>6, <2>1
    <3> QED
      BY <2>1, <3>1 DEF Gentle
  <2>3. round[left - 1][b] = round[left - 2][c]
    BY <1>2, <1>4, <1>6 DEF RoundByRound
  <2>4. round[left - 2][c] = c
    BY <1>2, <1>4, <2>2 DEF RoundByRound
  <2> QED
    BY <1>2, <1>3, <2>2, <2>3, <2>4
<1> QED
  BY <1>5, <1>6

\* Every allowance that rounds settle, they and so many more settle if it is that many
\* times as far away.
Multiplies(tax, round, limit, factor, rounds) ==
    \A q \in Nat, left \in 0..limit :
        left + rounds <= limit /\ Settles(tax, round, 1000 * q, left)
        => Settles(tax, round, 1000 * (factor * q), left + rounds)

LEMMA TwiceAsMany ==
    ASSUME NEW tax, NEW round, NEW limit \in Nat, NEW factor \in Nat, NEW rounds \in Nat,
           Multiplies(tax, round, limit, factor, rounds)
    PROVE  Multiplies(tax, round, limit, factor * factor, rounds + rounds)
<1> SUFFICES ASSUME NEW q \in Nat, NEW left \in 0..limit, left + (rounds + rounds) <= limit,
                    Settles(tax, round, 1000 * q, left)
             PROVE  Settles(tax, round, 1000 * ((factor * factor) * q), left + (rounds + rounds))
  BY DEF Multiplies
<1>1. PICK more \in Nat, later \in 0..limit : more = factor * q /\ later = left + rounds
  OBVIOUS
<1>2. Settles(tax, round, 1000 * more, later)
  BY <1>1 DEF Multiplies
<1>3. Settles(tax, round, 1000 * (factor * more), later + rounds)
  BY <1>1, <1>2 DEF Multiplies
<1>4. factor * more = (factor * factor) * q /\ later + rounds = left + (rounds + rounds)
  BY <1>1
<1> QED
  BY <1>3, <1>4

\* A hundred rounds settle the allowance unless it is beyond the columns.
LEMMA SettledIsFixed ==
    ASSUME NEW tax, Gentle(tax), Raised(tax, 0) <= LargestAmount
    PROVE  Raised(tax, Settled(tax)) = Settled(tax)
<1> DEFINE round == CHOOSE round : IsRounds(tax, round, Rounds)
<1>1. Settled(tax) = round[Rounds][0]
  BY Zenon DEF Settled, IsRounds
<1>2. PICK limit \in Nat : limit = Rounds /\ limit = 100
  BY DEF Rounds
<1>3. RoundByRound(tax, round, limit)
  <2>1. IsRounds(tax, round, limit)
    BY <1>2, RoundsExist DEF Gentle
  <2> QED
    BY <2>1, RoundIs
<1> HIDE DEF round
<1>4. Multiplies(tax, round, limit, 2, 1)
  <2> SUFFICES ASSUME NEW q \in Nat, NEW left \in 0..limit, left + 1 <= limit,
                      Settles(tax, round, 1000 * q, left)
               PROVE  Settles(tax, round, 1000 * (2 * q), left + 1)
    BY DEF Multiplies
  <2>1. PICK next \in 0..limit : next = left + 1 /\ left = next - 1
    OBVIOUS
  <2>2. Leaves(1000 * (2 * q), 1000 * q)
    BY DEF Leaves
  <2> QED
    BY <1>3, <2>1, <2>2, OneRound
<1>5. Multiplies(tax, round, limit, 4, 2)
  <2>1. 2 * 2 = 4 /\ 1 + 1 = 2
    OBVIOUS
  <2> QED
    BY <1>4, <2>1, TwiceAsMany, SMT
<1>6. Multiplies(tax, round, limit, 16, 4)
  <2>1. 4 * 4 = 16 /\ 2 + 2 = 4
    OBVIOUS
  <2> QED
    BY <1>5, <2>1, TwiceAsMany, SMT
<1>7. Multiplies(tax, round, limit, 256, 8)
  <2>1. 16 * 16 = 256 /\ 4 + 4 = 8
    OBVIOUS
  <2> QED
    BY <1>6, <2>1, TwiceAsMany, SMT
<1>8. Multiplies(tax, round, limit, 65536, 16)
  <2>1. 256 * 256 = 65536 /\ 8 + 8 = 16
    OBVIOUS
  <2> QED
    BY <1>7, <2>1, TwiceAsMany, SMT
<1>9. Settles(tax, round, 350, 51)
  BY <1>2, <1>3, LastRounds
<1>10. Settles(tax, round, 1000 * 1, 52)
  <2>1. 51 \in 0..limit /\ 52 \in 0..limit /\ 51 = 52 - 1
    BY <1>2
  <2>2. Leaves(1000 * 1, 350)
    BY DEF Leaves
  <2> QED
    BY <1>3, <1>9, <2>1, <2>2, OneRound
<1> DEFINE many == 65536
<1>11. Multiplies(tax, round, limit, many, 16) /\ many \in Nat
  BY <1>8
<1>12. LargestAmount <= 1000 * (many * (many * (many * 1))) /\ LargestAmount \in Nat
  BY SMT DEF LargestAmount
<1> HIDE DEF many
<1>13. Settles(tax, round, 1000 * (many * 1), 68)
  <2>1. 52 \in 0..limit /\ 52 + 16 <= limit /\ 1 \in Nat /\ 52 + 16 = 68
    BY <1>2
  <2> QED
    BY <1>10, <1>11, <2>1 DEF Multiplies
<1>14. Settles(tax, round, 1000 * (many * (many * 1)), 84)
  <2>1. 68 \in 0..limit /\ 68 + 16 <= limit /\ many * 1 \in Nat /\ 68 + 16 = 84
    BY <1>2, <1>11
  <2> QED
    BY <1>11, <1>13, <2>1 DEF Multiplies
<1>15. Settles(tax, round, 1000 * (many * (many * (many * 1))), limit)
  <2>1. 84 \in 0..limit /\ 84 + 16 <= limit /\ many * (many * 1) \in Nat /\ 84 + 16 = limit
    BY <1>2, <1>11
  <2> QED
    BY <1>11, <1>14, <2>1 DEF Multiplies
<1>16. Raised(tax, 0) \in Nat /\ Raised(tax, 0) <= 0 + 1000 * (many * (many * (many * 1)))
  BY <1>11, <1>12, RaisedType
<1>17. Raised(tax, round[limit][0]) = round[limit][0]
  BY <1>15, <1>16 DEF Settles
<1> QED
  BY <1>1, <1>2, <1>17

LEMMA BpjsType ==
    ASSUME NEW gross \in Nat
    PROVE  LET bpjs == calculate_bpjs(gross)
           IN  bpjs.jht_employee \in Nat /\ bpjs.jp_employee \in Nat /\ bpjs.kes_employee \in Nat
<1>1. Larger(0, gross) \in Nat
  BY LargerNat
<1>2. PICK wage \in Nat : wage = Larger(0, gross)
  BY <1>1
<1>3. Smaller(wage, JP_SALARY_CEILING) \in Nat /\ Smaller(wage, KES_SALARY_CEILING) \in Nat
  BY DEF Smaller, JP_SALARY_CEILING, KES_SALARY_CEILING
<1>4. /\ Share(wage, 200) \in Nat
      /\ Share(Smaller(wage, JP_SALARY_CEILING), 100) \in Nat
      /\ Share(Smaller(wage, KES_SALARY_CEILING), 100) \in Nat
  BY <1>3, ShareType
<1> QED
  BY <1>2, <1>4 DEF calculate_bpjs

LEMMA OvertimeType ==
    ASSUME NEW basic \in Nat,
           NEW overtime \in [weekday : Nat, weekend : Nat, holiday : Nat, approved : Nat]
    PROVE  calculate_overtime_pay(basic, _load_approved_overtime(overtime)) \in Nat
<1> DEFINE hours == _load_approved_overtime(overtime)
           first == Smaller(overtime.weekday, overtime.approved)
           second == Smaller(overtime.weekend, overtime.approved - first)
<1>1. first \in Nat /\ first <= overtime.approved
  BY DEF Smaller
<1>2. second \in Nat /\ second <= overtime.approved - first
  <2> HIDE DEF first
  <2> QED
    BY <1>1 DEF Smaller
<1>3. Smaller(overtime.holiday, overtime.approved - first - second) \in Nat
  <2> HIDE DEF first, second
  <2> QED
    BY <1>1, <1>2 DEF Smaller
<1>4. hours = <<first, second, Smaller(overtime.holiday, overtime.approved - first - second)>>
  BY DEF _load_approved_overtime, cap_overtime_hours
<1>5. hours[1] \in Nat /\ hours[2] \in Nat /\ hours[3] \in Nat
  <2> HIDE DEF first, second, hours
  <2> QED
    BY <1>1, <1>2, <1>3, <1>4
<1> HIDE DEF hours
<1>6. PICK h1, h2, h3 \in Nat : h1 = hours[1] /\ h2 = hours[2] /\ h3 = hours[3]
  BY <1>5
<1> DEFINE weekday == 3 * Smaller(h1, 1) + 4 * Larger(0, h1 - 1)
           free(h) == 4 * Smaller(h, 8) + 6 * Larger(0, h - 8)
<1>7. weekday \in Nat /\ free(h2) \in Nat /\ free(h3) \in Nat
  BY DEF Smaller, Larger
<1>8. PICK units \in Nat : units = weekday + free(h2) + free(h3)
  <2> HIDE DEF weekday, free
  <2> QED
    BY <1>7
<1>9. basic * units \in Nat
  OBVIOUS
<1>10. HalfEven(basic * units, 2 * 173) \in Nat
  BY <1>9, HalfEvenType
<1>11. calculate_overtime_pay(basic, hours) = HalfEven(basic * units, 2 * 173)
  BY <1>6, <1>8 DEF calculate_overtime_pay
<1> QED
  BY <1>10, <1>11 DEF hours

LEMMA ThrType ==
    ASSUME NEW basic \in Nat, NEW months \in Nat
    PROVE  THR(basic, months) \in Nat
<1>1. basic * months \in Nat
  OBVIOUS
<1> QED
  BY <1>1, HalfEvenType DEF THR

LEMMA LinesType ==
    ASSUME NEW lines, IsFiniteSet(lines), lines \subseteq SalaryLine, NEW types
    PROVE  Sum(lines, types) \in Nat
<1> DEFINE part == {l \in lines : l.type \in types}
           amounts == [l \in part |-> l.amount]
<1>1. IsFiniteSet(part)
  BY FS_Subset
<1>2. \A l \in part : l.amount \in Nat
  BY DEF SalaryLine
<1>3. SumFunction(amounts) \in Nat
  <2>1. DOMAIN amounts = part /\ \A l \in part : amounts[l] \in Nat
    BY <1>2
  <2> HIDE DEF amounts, part
  <2> QED
    BY <1>1, <2>1, SumFunctionType
<1> QED
  BY <1>3 DEF Sum

---------------------------------------------------------------------------
\* The rows of runs.

LEMMA Constants ==
    /\ Month \subseteq 1..12 /\ IsFiniteSet(Month) /\ NULL \notin Month
    /\ \A e \in Employee : PtkpStatus[e] \in DOMAIN PTKP /\ Joined[e] \in Int
    /\ NULL \notin Nat /\ NULL \notin PayrollStatus /\ NULL \notin PayrollRun
<1>1. IsFiniteSet(Month)
  <2>1. PICK twelve \in Int : twelve = 12
    OBVIOUS
  <2>2. IsFiniteSet(1..twelve)
    BY FS_Interval
  <2> QED
    BY <2>1, <2>2, MonthAssumption, FS_Subset
<1>2. \A e \in Employee : PtkpStatus[e] \in DOMAIN PTKP /\ Joined[e] \in Int
  BY EmployeeAssumption
<1>3. NULL \notin Nat /\ NULL \notin PayrollStatus /\ NULL \notin PayrollRun
  BY PayrollAssumption
<1> QED
  BY <1>1, <1>2, <1>3, MonthAssumption

\* The columns of a row, one by one.
LEMMA RowColumns ==
    ASSUME NEW row \in PayrollRun
    PROVE  /\ row.gross \in Nat /\ row.thr \in Nat /\ row.method \in PPh21Method
           /\ row.tax \in Int /\ row.net \in Nat
           /\ row.expense \in Nat \cup {NULL} /\ row.slip \in BOOLEAN
           /\ row.snapshot \in [manual_bpjs : Nat, manual_tax : Nat, contribution : Nat,
                                taxable : Nat, allowance : Nat]
           /\ row.snapshot.manual_bpjs \in Nat /\ row.snapshot.manual_tax \in Nat
           /\ row.snapshot.contribution \in Nat /\ row.snapshot.taxable \in Nat
           /\ row.snapshot.allowance \in Nat
  BY DEF PayrollRun

\* What the earlier months of the year add up to.
LEMMA EarlierType ==
    ASSUME NEW runs \in [Month -> [Employee -> Rows]], NEW e \in Employee, NEW m \in Month
    PROVE  /\ EarlierIncome(e, m, runs) \in Nat
           /\ EarlierContributions(e, m, runs) \in Nat
           /\ EarlierTax(e, m, runs) \in Int
<1> DEFINE income == [k \in Earlier(e, m, runs) |-> runs[k][e].snapshot.taxable]
           contributions == [k \in Earlier(e, m, runs) |-> runs[k][e].snapshot.contribution]
           tax == [k \in Earlier(e, m, runs) |-> runs[k][e].tax]
<1>1. IsFiniteSet(Earlier(e, m, runs))
  BY Constants, FS_Subset DEF Earlier
<1>2. ASSUME NEW k \in Earlier(e, m, runs)
      PROVE  income[k] \in Nat /\ contributions[k] \in Nat /\ tax[k] \in Int
  <2>1. runs[k][e] \in PayrollRun
    BY DEF Earlier, Rows
  <2> QED
    BY <2>1, RowColumns
<1>3. /\ DOMAIN income = Earlier(e, m, runs)
      /\ DOMAIN contributions = Earlier(e, m, runs)
      /\ DOMAIN tax = Earlier(e, m, runs)
  OBVIOUS
<1>4. SumFunction(income) \in Nat
  <2> HIDE DEF income
  <2> QED
    BY <1>1, <1>2, <1>3, SumFunctionType
<1>5. SumFunction(contributions) \in Nat
  <2> HIDE DEF contributions
  <2> QED
    BY <1>1, <1>2, <1>3, SumFunctionType
<1>6. SumFunction(tax) \in Int
  <2> HIDE DEF tax
  <2> QED
    BY <1>1, <1>2, <1>3, SumFunctionType
<1> QED
  BY <1>4, <1>5, <1>6 DEF EarlierIncome, EarlierContributions, EarlierTax

LEMMA PriorIsEarlier ==
    ASSUME NEW e \in Employee, NEW m \in Month
    PROVE  /\ prior_tax_context(e, m).gross = EarlierIncome(e, m, run)
           /\ prior_tax_context(e, m).contributions = EarlierContributions(e, m, run)
           /\ prior_tax_context(e, m).tax = EarlierTax(e, m, run)
<1>1. Prior(e, m) = Earlier(e, m, run)
  BY DEF Prior, Earlier
<1> QED
  BY <1>1 DEF prior_tax_context, EarlierIncome, EarlierContributions, EarlierTax

\* The allowance and the tax of a month: in the final one, they bring the year to what
\* it owes.
TaxOf(e, m, taxable, contribution, method, allowance, tax) ==
    /\ calculate_period_tax(e, m, taxable, contribution, method) = <<allowance, tax>>
    /\ method = "GROSS_UP" /\ tax <= LargestAmount => allowance = Larger(0, tax)
    /\ m = 12 \/ ends[e] = m =>
           tax + EarlierTax(e, m, run)
           = calculate_pph21_annual(EarlierIncome(e, m, run) + (taxable + allowance),
                                    PtkpStatus[e],
                                    EarlierContributions(e, m, run) + contribution)

LEMMA PeriodTax ==
    ASSUME run \in [Month -> [Employee -> Rows]], NEW e \in Employee, NEW m \in Month,
           NEW taxable \in Nat, NEW contribution \in Nat, NEW method \in PPh21Method
    PROVE  \E allowance \in Nat, tax \in Int :
               TaxOf(e, m, taxable, contribution, method, allowance, tax)
<1>1. PICK income \in Nat, earlier \in Nat, withheld \in Int :
          /\ income = EarlierIncome(e, m, run)
          /\ earlier = EarlierContributions(e, m, run)
          /\ withheld = EarlierTax(e, m, run)
  BY EarlierType
<1>2. PICK status \in DOMAIN PTKP : status = PtkpStatus[e]
  BY Constants
<1> DEFINE contributions == earlier + contribution
           due(a) == calculate_pph21_annual(income + taxable + a, status, contributions)
<1>3. contributions \in Nat
  OBVIOUS
<1>4. \A a \in Nat : due(a) \in Nat
  <2> HIDE DEF contributions
  <2> QED
    BY <1>3, AnnualType
<1>5. CASE m = 12 \/ ends[e] = m
  <2>1. CASE method = "GROSS_UP"
    <3> DEFINE tax == [a \in Nat |->
                          calculate_pph21_final_period(income + taxable + a, withheld, status,
                                                       contributions)]
    <3>1. \A a \in Nat : tax[a] = due(a) - withheld
      BY DEF calculate_pph21_final_period
    <3>2. tax \in [Nat -> Int]
      <4>1. \A a \in Nat : tax[a] \in Int
        <5> HIDE DEF tax, due
        <5> QED
          BY <1>4, <3>1
      <4>2. tax = [a \in Nat |-> tax[a]]
        OBVIOUS
      <4> HIDE DEF tax
      <4> QED
        BY <4>1, <4>2
    <3>3. PICK a \in Nat : a = Settled(tax)
      <4> HIDE DEF tax
      <4> QED
        BY <3>2, SettledType
    <3>4. calculate_period_tax(e, m, taxable, contribution, method) = <<a, tax[a]>>
      <4>1. calculate_period_tax(e, m, taxable, contribution, method)
            = calculate_pph21_final_gross_up(income + taxable, withheld, status, contributions)
        BY <1>1, <1>2, <1>5, <2>1, PriorIsEarlier DEF calculate_period_tax
      <4>2. calculate_pph21_final_gross_up(income + taxable, withheld, status, contributions)
            = <<Settled(tax), tax[Settled(tax)]>>
        BY DEF calculate_pph21_final_gross_up
      <4> HIDE DEF tax
      <4> QED
        BY <3>3, <4>1, <4>2
    <3>5. tax[a] \in Int /\ tax[a] + withheld = due(a)
      <4> HIDE DEF tax, due
      <4> QED
        BY <1>4, <3>1
    <3>6. income + taxable + a = income + (taxable + a)
      OBVIOUS
    <3>7. tax[a] <= LargestAmount => a = Larger(0, tax[a])
      <4>1. Gentle(tax)
        <5>1. income + taxable \in Nat
          OBVIOUS
        <5> HIDE DEF contributions
        <5>2. Gentle(FinalTax(income + taxable, withheld, status, contributions))
          BY <1>3, <5>1, FinalTaxGentle
        <5> QED
          BY <5>2 DEF FinalTax
      <4> HIDE DEF tax
      <4>2. Raised(tax, 0) <= Raised(tax, a)
        BY <4>1 DEF Gentle
      <4>3. Raised(tax, 0) \in Nat /\ Raised(tax, a) \in Nat
        BY <4>1, RaisedType
      <4>4. tax[a] <= LargestAmount => Raised(tax, a) <= LargestAmount
        BY <3>5 DEF Raised, Larger, LargestAmount
      <4>5. tax[a] <= LargestAmount => Raised(tax, 0) <= LargestAmount
        BY <4>2, <4>3, <4>4 DEF LargestAmount
      <4> QED
        BY <3>3, <4>1, <4>5, SettledIsFixed DEF Raised
    <3> HIDE DEF tax
    <3> QED
      BY <1>1, <1>2, <3>4, <3>5, <3>6, <3>7 DEF TaxOf
  <2>2. CASE method # "GROSS_UP"
    <3>1. calculate_period_tax(e, m, taxable, contribution, method)
          = <<0, calculate_pph21_final_period(income + taxable, withheld, status, contributions)>>
      BY <1>1, <1>2, <1>5, <2>2, PriorIsEarlier DEF calculate_period_tax
    <3>2. calculate_pph21_final_period(income + taxable, withheld, status, contributions)
          = due(0) - withheld
      <4>1. income + taxable + 0 = income + taxable
        OBVIOUS
      <4> QED
        BY <4>1 DEF calculate_pph21_final_period
    <3>3. PICK tax \in Int : tax = due(0) - withheld
      <4>1. due(0) \in Nat
        BY <1>4
      <4> HIDE DEF due
      <4> QED
        BY <4>1
    <3>4. tax + withheld = due(0)
      <4>1. due(0) \in Nat
        BY <1>4
      <4> HIDE DEF due
      <4> QED
        BY <3>3, <4>1
    <3>5. income + taxable + 0 = income + (taxable + 0)
      OBVIOUS
    <3>6. calculate_period_tax(e, m, taxable, contribution, method) = <<0, tax>>
      BY <3>1, <3>2, <3>3
    <3>7. tax + withheld = calculate_pph21_annual(income + (taxable + 0), status, contributions)
      BY <3>4, <3>5
    <3> QED
      BY <1>1, <1>2, <2>2, <3>6, <3>7 DEF TaxOf
  <2> QED
    BY <2>1, <2>2
<1>6. CASE ~ (m = 12 \/ ends[e] = m)
  <2>1. CASE method = "GROSS_UP"
    <3> DEFINE tax == [a \in Nat |-> calculate_pph21_ter(taxable + a, status)]
    <3>1. tax \in [Nat -> Int]
      BY TerType
    <3>2. PICK a \in Nat : a = Settled(tax)
      <4> HIDE DEF tax
      <4> QED
        BY <3>1, SettledType
    <3>3. calculate_period_tax(e, m, taxable, contribution, method) = <<a, a>>
      BY <1>2, <1>6, <2>1, <3>2 DEF calculate_period_tax, calculate_pph21_gross_up
    <3>4. a = Larger(0, a)
      BY DEF Larger
    <3> QED
      BY <1>6, <3>3, <3>4 DEF TaxOf
  <2>2. CASE method # "GROSS_UP"
    <3>1. calculate_period_tax(e, m, taxable, contribution, method)
          = <<0, calculate_pph21_ter(taxable, status)>>
      BY <1>2, <1>6, <2>2 DEF calculate_period_tax
    <3>2. PICK tax \in Int : tax = calculate_pph21_ter(taxable, status)
      BY TerType
    <3> QED
      BY <1>6, <2>2, <3>1, <3>2 DEF TaxOf
  <2> QED
    BY <2>1, <2>2
<1> QED
  BY <1>5, <1>6

\* new is row with its columns filled in soundly, and the holiday allowance thr.
Fills(new, row, e, m, thr) ==
    /\ new \in PayrollRun
    /\ NetSound(new) /\ Covered(new)
    /\ m = 12 \/ ends[e] = m => Settling(new, e, m, run)
    /\ new.thr = thr /\ new.expense = row.expense /\ new.slip = row.slip

\* A calculation and an adjustment fill in the columns of a sound row.
LEMMA FilledSound ==
    ASSUME run \in [Month -> [Employee -> Rows]], NEW e \in Employee, NEW m \in Month,
           NEW row \in PayrollRun, NEW gross \in Nat, NEW thr \in Nat,
           NEW method \in PPh21Method, NEW taxable \in Nat
    PROVE  Fills(Filled(row, e, m, gross, thr, method, taxable), row, e, m, thr)
<1> DEFINE bpjs == calculate_bpjs(gross)
           old == row.snapshot
           owed == bpjs.jht_employee + bpjs.jp_employee + old.manual_bpjs
<1>1. PICK jht, jp, kes \in Nat :
          jht = bpjs.jht_employee /\ jp = bpjs.jp_employee /\ kes = bpjs.kes_employee
  BY BpjsType
<1>2. PICK bpjs0, tax0 \in Nat : bpjs0 = old.manual_bpjs /\ tax0 = old.manual_tax
  BY RowColumns
<1>3. PICK contribution \in Nat : contribution = owed /\ contribution = jht + jp + bpjs0
  BY <1>1, <1>2
<1>4. PICK allowance \in Nat, tax \in Int :
          TaxOf(e, m, taxable, contribution, method, allowance, tax)
  BY PeriodTax
<1>5. PICK net \in Nat : net = calculate_net_pay(gross, allowance, contribution + kes,
                                                 tax + tax0, thr)
  BY LargerNat DEF calculate_net_pay
<1>6. net > 0 => gross + allowance + thr = net + jht + jp + kes + tax + bpjs0 + tax0
  <2>1. net > 0 => net = gross + allowance + thr - (contribution + kes) - (tax + tax0)
    BY <1>5 DEF calculate_net_pay, Larger
  <2> QED
    BY <1>3, <2>1
<1> DEFINE snapshot == [old EXCEPT !.contribution = contribution,
                                   !.taxable = taxable + allowance,
                                   !.allowance = allowance]
           new == [row EXCEPT !.gross = gross, !.thr = thr, !.method = method, !.tax = tax,
                              !.net = net, !.snapshot = snapshot]
<1>7. Filled(row, e, m, gross, thr, method, taxable) = new
  <2>1. calculate_period_tax(e, m, taxable, owed, method)[1] = allowance
    BY <1>3, <1>4 DEF TaxOf
  <2>2. calculate_period_tax(e, m, taxable, owed, method)[2] = tax
    BY <1>3, <1>4 DEF TaxOf
  <2>3. calculate_net_pay(gross, allowance, owed + bpjs.kes_employee, tax + old.manual_tax, thr)
        = net
    BY <1>1, <1>2, <1>3, <1>5
  <2>4. owed = contribution
    BY <1>3
  <2> QED
    BY <2>1, <2>2, <2>3, <2>4 DEF Filled
<1>8. /\ snapshot \in [manual_bpjs : Nat, manual_tax : Nat, contribution : Nat, taxable : Nat,
                       allowance : Nat]
      /\ snapshot.contribution = contribution
      /\ snapshot.taxable = taxable + allowance
      /\ snapshot.allowance = allowance
      /\ snapshot.manual_bpjs = bpjs0
      /\ snapshot.manual_tax = tax0
  <2>1. PICK total \in Nat : total = taxable + allowance
    OBVIOUS
  <2>2. old \in [manual_bpjs : Nat, manual_tax : Nat, contribution : Nat, taxable : Nat,
                 allowance : Nat]
    BY RowColumns
  <2>3. PICK before \in [manual_bpjs : Nat, manual_tax : Nat, contribution : Nat,
                         taxable : Nat, allowance : Nat] :
            before = old
    BY <2>2
  <2>4. snapshot = [[[before EXCEPT !.contribution = contribution]
                             EXCEPT !.taxable = total] EXCEPT !.allowance = allowance]
    BY <2>1, <2>3
  <2>5. before.manual_bpjs = bpjs0 /\ before.manual_tax = tax0
    BY <1>2, <2>3
  <2> HIDE DEF snapshot
  <2> QED
    BY <2>1, <2>4, <2>5
<1> HIDE DEF snapshot
<1>9. /\ new \in PayrollRun
      /\ new.gross = gross /\ new.thr = thr /\ new.tax = tax /\ new.net = net
      /\ new.method = method
      /\ new.snapshot = snapshot /\ new.expense = row.expense /\ new.slip = row.slip
  BY <1>8 DEF PayrollRun
<1> HIDE DEF new
<1>10. NetSound(new)
  <2>1. get_payslip(new) = gross + allowance + thr
    BY <1>8, <1>9 DEF get_payslip
  <2>2. new.net > 0 => get_payslip(new) = new.net + jht + jp + kes + new.tax
                                          + new.snapshot.manual_bpjs + new.snapshot.manual_tax
    BY <1>6, <1>8, <1>9, <2>1
  <2>3. calculate_bpjs(new.gross) = bpjs
    BY <1>9
  <2> QED
    BY <1>1, <2>2, <2>3 DEF NetSound
<1>11. m = 12 \/ ends[e] = m => Settling(new, e, m, run)
  BY <1>4, <1>8, <1>9 DEF Settling, TaxOf
<1>12. Covered(new)
  BY <1>4, <1>8, <1>9 DEF Covered, TaxOf
<1> QED
  BY <1>7, <1>9, <1>10, <1>11, <1>12 DEF Fills

\* Every employee's run of a calculation is a sound row that keeps its expense.
LEMMA CalculatedSound ==
    ASSUME run \in [Month -> [Employee -> Rows]], ends \in [Employee -> Month \cup {NULL}],
           NEW m \in Month, NEW e \in eligible_employees(m),
           NEW lines \in Structure, Payable(lines), NEW overtime \in Overtime,
           NEW query \in Calculation, query.include_thr => ~ HasThr(e, m)
    PROVE  LET new == _calculate_employee_run(e, m, lines, overtime, query.method,
                                              query.include_thr)
           IN  /\ new \in PayrollRun
               /\ Rewritten(run[m][e], new)
               /\ \A ordered : RowSound(new, e, m, run, ends, ordered)
<1> DEFINE old == run[m][e]
           new == _calculate_employee_run(e, m, lines, overtime, query.method,
                                          query.include_thr)
<1>1. /\ e \in Employee /\ Joined[e] <= m
      /\ ends[e] # NULL => ends[e] >= m
  BY DEF eligible_employees
<1>2. m \in 1..12 /\ Joined[e] \in Int
  BY <1>1, Constants
<1>3. query.method \in PPh21Method /\ query.include_thr \in BOOLEAN
  BY BodyAssumption
<1>4. IsFiniteSet(lines) /\ lines \subseteq SalaryLine
  BY StructureAssumption
<1>5. PICK basic \in Nat : basic = Sum(lines, {"BASIC"})
  BY <1>4, LinesType
<1>6. PICK earned, deducted \in Nat :
          earned = Sum(lines, {"BASIC", "ALLOWANCE"}) /\ deducted = Sum(lines, {"DEDUCTION"})
  BY <1>4, LinesType
<1>7. earned >= deducted
  BY <1>6 DEF Payable
<1>8. PICK bpjs, tax \in Nat : bpjs = Sum(lines, {"BPJS"}) /\ tax = Sum(lines, {"TAX"})
  BY <1>4, LinesType
<1>9. PICK taxable \in Nat : taxable = Sum({l \in lines : l.taxable}, {"BASIC", "ALLOWANCE"})
  <2>1. IsFiniteSet({l \in lines : l.taxable}) /\ {l \in lines : l.taxable} \subseteq SalaryLine
    BY <1>4, FS_Subset
  <2> QED
    BY <2>1, LinesType
<1>10. PICK overtime_pay \in Nat :
           overtime_pay = calculate_overtime_pay(basic, _load_approved_overtime(overtime))
  <2>1. overtime \in [weekday : Nat, weekend : Nat, holiday : Nat, approved : Nat]
    BY BodyAssumption
  <2> QED
    BY <2>1, OvertimeType
<1>11. PICK thr \in Nat :
           thr = IF query.include_thr THEN THR(basic, m - Joined[e] + 1) ELSE 0
  <2>1. m - Joined[e] + 1 \in Nat
    BY <1>1, <1>2
  <2> QED
    BY <2>1, ThrType
<1> DEFINE expense == IF old = NULL THEN NULL ELSE old.expense
           slip == IF old = NULL THEN FALSE ELSE old.slip
           row == [gross |-> 0, thr |-> 0, method |-> query.method, tax |-> 0, net |-> 0,
                   snapshot |-> [manual_bpjs |-> bpjs, manual_tax |-> tax, contribution |-> 0,
                                 taxable |-> 0, allowance |-> 0],
                   expense |-> expense, slip |-> slip]
<1>12. row \in PayrollRun /\ row.expense = expense /\ row.slip = slip
  <2>1. old \in PayrollRun \cup {NULL}
    BY <1>1 DEF Rows
  <2>2. expense \in Nat \cup {NULL} /\ slip \in BOOLEAN
    BY <2>1, RowColumns
  <2>3. PICK method \in PPh21Method : method = query.method
    BY <1>3
  <2> HIDE DEF expense, slip
  <2> QED
    BY <2>2, <2>3 DEF PayrollRun
<1>13. PICK gross, taxed \in Nat :
           /\ gross = earned - deducted + overtime_pay
           /\ taxed = taxable + overtime_pay + thr
  BY <1>7
<1>14. new = Filled(row, e, m, gross, thr, query.method, taxed)
  BY <1>5, <1>6, <1>8, <1>9, <1>10, <1>11, <1>13 DEF _calculate_employee_run
<1> HIDE DEF row, new
<1>15. Fills(new, row, e, m, thr)
  BY <1>1, <1>3, <1>12, <1>14, FilledSound
<1>16. Rewritten(old, new)
  BY <1>12, <1>15 DEF Rewritten, Fills
<1>17. ThrAlone(new, e, m, run)
  BY <1>11, <1>15 DEF ThrAlone, HasThr, Fills
<1>18. ends[e] # NULL => m <= ends[e]
  BY <1>1, <1>2, Constants
<1>19. \A ordered : RowSound(new, e, m, run, ends, ordered)
  BY <1>15, <1>17, <1>18 DEF RowSound, Fills
<1> QED
  BY <1>15, <1>16, <1>19 DEF new, Fills

\* An adjusted run of an employee is sound if the run it adjusts was.
LEMMA AdjustedSound ==
    ASSUME run \in [Month -> [Employee -> Rows]], NEW m \in Month, NEW e \in Employee,
           NEW row \in PayrollRun, NEW body \in Adjustment,
           body.thr \notin {NULL, 0} => ~ HasThr(e, m), NEW gross, NEW thr, NEW method,
           gross = IF body.gross = NULL THEN row.gross ELSE body.gross,
           thr = IF body.thr = NULL THEN row.thr ELSE body.thr,
           method = IF body.method = NULL THEN row.method ELSE body.method
    PROVE  LET new == Filled(row, e, m, gross, thr, method, gross + thr)
           IN  /\ new \in PayrollRun
               /\ Rewritten(row, new)
               /\ \A ordered : RowSound(row, e, m, run, ends, ordered)
                               => RowSound(new, e, m, run, ends, ordered)
<1> DEFINE new == Filled(row, e, m, gross, thr, method, gross + thr)
<1>1. /\ body.gross \in Nat \cup {NULL}
      /\ body.thr \in Nat \cup {NULL}
      /\ body.method \in PPh21Method \cup {NULL}
  BY BodyAssumption
<1>2. gross \in Nat /\ thr \in Nat /\ method \in PPh21Method
  BY <1>1, RowColumns
<1>3. gross + thr \in Nat
  BY <1>2
<1>4. Fills(new, row, e, m, thr)
  BY <1>2, <1>3, FilledSound
<1> HIDE DEF new
<1>5. Rewritten(row, new)
  BY <1>4, Constants DEF Rewritten, Fills
<1>6. ThrAlone(row, e, m, run) => ThrAlone(new, e, m, run)
  BY <1>1, <1>2, <1>4 DEF ThrAlone, HasThr, Fills
<1>7. \A ordered : RowSound(row, e, m, run, ends, ordered)
                   => RowSound(new, e, m, run, ends, ordered)
  BY <1>4, <1>6 DEF RowSound, Fills
<1> QED
  BY <1>4, <1>5, <1>7 DEF new, Fills

\* A commit leaves the columns it did not change as they are now.
LEMMA MergedRow ==
    ASSUME NEW current \in PayrollRun, NEW read \in PayrollRun, NEW new \in PayrollRun
    PROVE  LET mix == Merged(current, read, new)
           IN  /\ mix \in PayrollRun
               /\ mix.slip = IF new.slip # read.slip THEN new.slip ELSE current.slip
               /\ mix.expense = IF new.expense # read.expense THEN new.expense
                                ELSE current.expense
               /\ current = read => mix = new
<1> DEFINE mix == Merged(current, read, new)
           PickedColumn(column) ==
               IF new[column] # read[column] THEN new[column] ELSE current[column]
<1>1. mix = [gross |-> PickedColumn("gross"), thr |-> PickedColumn("thr"),
             method |-> PickedColumn("method"), tax |-> PickedColumn("tax"),
             net |-> PickedColumn("net"), snapshot |-> PickedColumn("snapshot"),
             expense |-> PickedColumn("expense"), slip |-> PickedColumn("slip")]
  BY DEF Merged, PayrollRun
<1>2. /\ PickedColumn("gross") \in Nat /\ PickedColumn("thr") \in Nat
      /\ PickedColumn("method") \in PPh21Method /\ PickedColumn("tax") \in Int
      /\ PickedColumn("net") \in Nat
      /\ PickedColumn("snapshot") \in [manual_bpjs : Nat, manual_tax : Nat,
                                       contribution : Nat, taxable : Nat, allowance : Nat]
      /\ PickedColumn("expense") \in Nat \cup {NULL} /\ PickedColumn("slip") \in BOOLEAN
  BY RowColumns
<1>3. mix \in PayrollRun
  <2> HIDE DEF PickedColumn, mix
  <2> QED
    BY <1>1, <1>2, Zenon DEF PayrollRun
<1>4. current = read => mix = new
  BY DEF Merged, PayrollRun
<1>5. /\ mix.slip = PickedColumn("slip")
      /\ mix.expense = PickedColumn("expense")
  <2> HIDE DEF PickedColumn, mix
  <2> QED
    BY <1>1
<1> QED
  BY <1>3, <1>4, <1>5

---------------------------------------------------------------------------
\* What a commit does to one run and to the expenses booked for it.

LEMMA WrittenRow ==
    ASSUME NEW current \in Rows, NEW read \in Rows, NEW new \in Rows,
           Consistent(current, read, new)
    PROVE  /\ Written(current, read, new) \in Rows
           /\ current = read => Written(current, read, new) = new
<1>1. CASE read = new \/ read = NULL \/ new = NULL
  BY <1>1 DEF Written
<1>2. CASE read # new /\ read # NULL /\ new # NULL
  <2>1. current \in PayrollRun /\ read \in PayrollRun /\ new \in PayrollRun
    BY <1>2 DEF Consistent, Misses, Rows
  <2>2. Written(current, read, new) = Merged(current, read, new)
    BY <1>2 DEF Written
  <2> QED
    BY <2>1, <2>2, MergedRow DEF Rows
<1> QED
  BY <1>1, <1>2

Booking(req, e, current, amounts, row2, amounts2) ==
    LET row == Written(current, req.readRuns[e], req.runs[e])
    IN  /\ Consistent(current, req.readRuns[e], req.runs[e])
        /\ req.op = "post" /\ req.runs[e] # NULL => req.runs[e].slip
        /\ IF req.op = "post" /\ e \in ToBook(req.readRuns)
           THEN /\ row2 = [row EXCEPT !.expense = Len(amounts) + 1]
                /\ amounts2 = Append(amounts, req.readRuns[e].net)
           ELSE row2 = row /\ amounts2 = amounts

\* Whatever is committed in between, a commit keeps the payslips, and books a run that was
\* booked before only if it loaded it without an expense and then found its payslip.
LEMMA BookedRow ==
    ASSUME NEW req, Held(req), NEW e \in Employee, NEW current \in Rows, NEW amounts \in Seq(Nat),
           BookedWith(current, amounts), NEW row2, NEW amounts2,
           Booking(req, e, current, amounts, row2, amounts2),
           req.readRuns[e] # NULL /\ req.readRuns[e].slip => current # NULL /\ current.slip
    PROVE  /\ row2 \in Rows /\ amounts2 \in Seq(Nat) /\ BookedWith(row2, amounts2)
           /\ current # NULL /\ current.slip => row2 # NULL /\ row2.slip
           /\ amounts2 # amounts /\ amounts # <<>>
              => /\ req.op = "post"
                 /\ req.readRuns[e].expense = NULL /\ req.readRuns[e].slip
<1> PICK posts \in BOOLEAN, row \in {Written(current, req.readRuns[e], req.runs[e])} :
        posts <=> req.op = "post" /\ e \in ToBook(req.readRuns)
  OBVIOUS
<1>0. /\ Consistent(current, req.readRuns[e], req.runs[e])
      /\ row = Written(current, req.readRuns[e], req.runs[e])
      /\ row2 = IF posts THEN [row EXCEPT !.expense = Len(amounts) + 1] ELSE row
      /\ amounts2 = IF posts THEN Append(amounts, req.readRuns[e].net) ELSE amounts
  BY DEF Booking
<1>1. PICK read \in Rows, new \in Rows : read = req.readRuns[e] /\ new = req.runs[e]
  BY DEF Held, Record
<1>2. row \in Rows
  BY <1>0, <1>1, WrittenRow
<1>3. Consistent(current, read, new) /\ row = Written(current, read, new)
  BY <1>0, <1>1
<1>4. NULL \notin PayrollRun
  BY Constants
<1>5. read # NULL => read \in PayrollRun /\ (read.expense # NULL => read.slip)
  BY <1>1 DEF Held, Rows
<1>6. CASE req.op # "post"
  <2>1. row2 = row /\ amounts2 = amounts
    BY <1>0, <1>6
  <2>2. /\ BookedWith(row, amounts)
        /\ current # NULL /\ current.slip => row # NULL /\ row.slip
    <3>1. CASE read = new
      BY <1>3, <3>1 DEF Written
    <3>2. CASE read # new /\ new = NULL
      <4>1. row = NULL
        BY <1>3, <3>2 DEF Written
      <4>2. current = NULL \/ ~ current.slip
        BY <1>3, <3>2 DEF Consistent
      <4> QED
        BY <4>1, <4>2 DEF BookedWith
    <3>3. CASE read # new /\ new # NULL
      <4>1. Rewritten(read, new)
        BY <1>1, <1>6, <3>3 DEF Held, Transition
      <4>2. CASE read = NULL
        <5>1. row = new /\ current = NULL
          BY <1>3, <3>3, <4>2 DEF Consistent, Written
        <5>2. new.expense = NULL /\ new.slip = FALSE
          BY <3>3, <4>1, <4>2 DEF Rewritten
        <5> QED
          BY <3>3, <5>1, <5>2 DEF BookedWith
      <4>3. CASE read # NULL
        <5>1. row = Merged(current, read, new) /\ current # NULL
          BY <1>3, <3>3, <4>3 DEF Consistent, Misses, Written
        <5>2. current \in PayrollRun /\ read \in PayrollRun /\ new \in PayrollRun
          BY <1>5, <3>3, <4>3, <5>1 DEF Rows
        <5>3. new.expense = read.expense /\ new.slip = read.slip
          BY <3>3, <4>1, <4>3 DEF Rewritten
        <5>4. row.expense = current.expense /\ row.slip = current.slip /\ row \in PayrollRun
          BY <5>1, <5>2, <5>3, MergedRow
        <5> QED
          BY <1>4, <5>1, <5>4 DEF BookedWith
      <4> QED
        BY <4>2, <4>3
    <3> QED
      BY <3>1, <3>2, <3>3
  <2> QED
    BY <1>2, <2>1, <2>2
<1>7. CASE req.op = "post"
  <2>1. MayAddSlip(read, new) /\ (new # NULL => new.slip = TRUE)
    <3>1. MayAddSlip(read, new) /\ (new # NULL => new.slip)
      BY <1>1, <1>7 DEF Held, Transition, Booking
    <3>2. new # NULL => new.slip \in BOOLEAN
      BY RowColumns DEF Rows
    <3> QED
      BY <3>1, <3>2
  <2>2. CASE read = NULL \/ read.slip
    <3>1. new = read
      <4>1. CASE read = NULL
        BY <2>1, <4>1 DEF MayAddSlip
      <4>2. CASE read # NULL
        <5>1. read \in PayrollRun /\ read.slip = TRUE
          BY <1>5, <2>2, <4>2, RowColumns
        <5>2. [read EXCEPT !.slip = TRUE] = read
          BY <5>1 DEF PayrollRun
        <5> QED
          BY <2>1, <5>2 DEF MayAddSlip
      <4> QED
        BY <4>1, <4>2
    <3>2. row = current
      BY <1>3, <3>1 DEF Written
    <3>3. CASE ~ posts
      BY <1>0, <3>2, <3>3
    <3>4. CASE posts
      <4>1. read # NULL /\ read.expense = NULL /\ read.slip
        BY <1>1, <2>2, <3>4 DEF ToBook
      <4>2. current # NULL /\ current.slip
        BY <1>1, <4>1
      <4>3. current \in PayrollRun
        BY <4>2 DEF Rows
      <4>4. PICK position \in Nat : position = Len(amounts) + 1 /\ position \in 1..position
        OBVIOUS
      <4>5. row2 = [current EXCEPT !.expense = position]
        BY <1>0, <3>2, <3>4, <4>4
      <4>6. row2 \in PayrollRun /\ row2.expense = position /\ row2.slip = current.slip
        BY <4>3, <4>4, <4>5 DEF PayrollRun
      <4>7. amounts2 = Append(amounts, read.net) /\ read.net \in Nat
        BY <1>0, <1>1, <1>5, <3>4, <4>1, RowColumns
      <4>8. amounts2 \in Seq(Nat) /\ Len(amounts2) = position
        BY <4>4, <4>7
      <4> QED
        BY <1>1, <1>4, <1>7, <4>1, <4>2, <4>4, <4>6, <4>8 DEF BookedWith, Rows
    <3> QED
      BY <3>3, <3>4
  <2>3. CASE read # NULL /\ ~ read.slip
    <3>1. posts /\ read.expense = NULL
      BY <1>1, <1>5, <1>7, <2>3 DEF ToBook
    <3>2. read \in PayrollRun /\ read.slip = FALSE
      BY <1>5, <2>3, RowColumns
    <3>3. new = [read EXCEPT !.slip = TRUE]
      <4>1. new # NULL
        BY <1>4, <2>1, <2>3, <3>2 DEF MayAddSlip, PayrollRun
      <4> QED
        BY <2>1, <3>2, <4>1 DEF MayAddSlip
    <3>4. /\ new \in PayrollRun /\ new.slip = TRUE /\ new.expense = read.expense
          /\ new # NULL /\ new # read
      <4>1. new \in PayrollRun /\ new.slip = TRUE /\ new.expense = read.expense
        BY <3>2, <3>3 DEF PayrollRun
      <4> QED
        BY <1>4, <3>2, <4>1
    <3>5. current # NULL /\ ~ current.slip /\ row = Merged(current, read, new)
      BY <1>3, <2>3, <3>2, <3>4 DEF Consistent, Misses, Written
    <3>6. current \in PayrollRun
      BY <3>5 DEF Rows
    <3>7. row \in PayrollRun /\ row.slip = TRUE
      BY <3>2, <3>4, <3>5, <3>6, MergedRow
    <3>8. amounts = <<>>
      BY <3>5 DEF BookedWith
    <3>9. amounts2 = <<read.net>> /\ read.net \in Nat
      BY <1>0, <1>1, <3>1, <3>2, <3>8, RowColumns
    <3>10. row2 = [row EXCEPT !.expense = 1]
      BY <1>0, <3>1, <3>8
    <3>11. row2 \in PayrollRun /\ row2.expense = 1 /\ row2.slip = TRUE
      BY <3>7, <3>10 DEF PayrollRun
    <3>12. 1 \in 1..Len(amounts2) /\ amounts2 \in Seq(Nat)
      <4>1. PICK net \in Nat : net = read.net
        BY <3>9
      <4>2. Len(<<net>>) = 1 /\ <<net>> \in Seq(Nat)
        OBVIOUS
      <4> QED
        BY ONLY <3>9, <4>1, <4>2
    <3> QED
      BY <1>4, <3>5, <3>8, <3>11, <3>12 DEF BookedWith, Rows
  <2> QED
    BY <2>2, <2>3
<1> QED
  BY <1>6, <1>7

---------------------------------------------------------------------------
\* The handlers.

LEMMA InitHolds == Init => IInv
<1> SUFFICES ASSUME Init PROVE IInv
  OBVIOUS
<1>1. TablesTyped
  <2>1. <<>> \in Seq(Nat)
    OBVIOUS
  <2> QED
    BY <2>1 DEF Init, TablesTyped, Rows
<1>2. DOMAIN request = Worker /\ RequestsHeld
  BY DEF Init, RequestsHeld
<1>3. BookingSound /\ RunsSound
  BY DEF Init, BookingSound, BookedWith, RunsSound
<1>4. PostedSound
  BY Constants DEF Init, PostedSound
<1> QED
  BY <1>1, <1>2, <1>3, <1>4 DEF IInv

\* A handler takes up what it read and what it makes of it.
LEMMA HandleKept ==
    ASSUME IInv, NEW w \in Worker, NEW m \in Month,
           NEW op \in {"calculate", "adjust", "lock", "unlock", "post"},
           NEW status \in PayrollStatus, NEW runs \in [Employee -> Rows],
           Handle(w, op, m, status, runs),
           Transition(op, period[m], status, run[m], runs),
           ~ overlapped => \A e \in Employee :
               runs[e] # NULL => RowSound(runs[e], e, m, run, ends, orderly)
    PROVE  IInv'
<1> DEFINE req == [op |-> op, month |-> m, status |-> status, runs |-> runs,
                   readStatus |-> period[m], readRuns |-> run[m], late |-> FALSE]
<1>1. /\ UNCHANGED <<period, run, booked, ends, orderly, overlapped, audited>>
      /\ request' = [request EXCEPT ![w] = req]
  BY DEF Handle, tables
<1>2. period[m] \in PayrollStatus
  BY DEF Transition, PayrollStatus
<1>3. run[m] \in [Employee -> Rows]
  BY DEF IInv, TablesTyped
<1>4. req \in Record
  <2>1. PICK now \in PayrollStatus, rows \in [Employee -> Rows] : now = period[m] /\ rows = run[m]
    BY <1>2, <1>3
  <2>2. FALSE \in BOOLEAN
    OBVIOUS
  <2>3. req = [op |-> op, month |-> m, status |-> status, runs |-> runs,
               readStatus |-> now, readRuns |-> rows, late |-> FALSE]
    BY <2>1
  <2> HIDE DEF req
  <2> QED
    BY <2>2, <2>3, Zenon DEF Record
<1>5. ASSUME NEW e \in Employee, run[m][e] # NULL, run[m][e].expense # NULL
      PROVE  run[m][e].slip
  <2>1. BookedWith(run[m][e], booked[m][e])
    BY DEF IInv, BookingSound
  <2> QED
    BY <1>5, <2>1, Constants DEF BookedWith
<1>6. Held(req) /\ SlipsThere(req, run)
  BY <1>4, <1>5 DEF Held, SlipsThere
<1>7. ~ overlapped => UpToDate(req, period, run, ends, orderly)
  BY DEF UpToDate
<1>8. RequestsHeld'
  <2>1. ASSUME NEW v \in Worker, request'[v] # Idle
        PROVE  /\ Held(request'[v]) /\ SlipsThere(request'[v], run)
               /\ ~ request'[v].late /\ ~ overlapped
                  => UpToDate(request'[v], period, run, ends, orderly)
    <3>1. CASE v = w
      <4>1. request'[v] = req
        BY <1>1, <3>1 DEF IInv
      <4> HIDE DEF req
      <4> QED
        BY <1>6, <1>7, <4>1
    <3>2. CASE v # w
      BY <1>1, <2>1, <3>2 DEF IInv, RequestsHeld
    <3> QED
      BY <3>1, <3>2
  <2> QED
    BY <1>1, <2>1 DEF RequestsHeld
<1>9. TablesTyped' /\ BookingSound' /\ RunsSound' /\ PostedSound'
  BY <1>1 DEF IInv, TablesTyped, BookingSound, RunsSound, PostedSound
<1>10. DOMAIN request' = Worker
  BY <1>1 DEF IInv
<1> QED
  BY <1>8, <1>9, <1>10 DEF IInv

LEMMA CalculateKept ==
    ASSUME IInv, NEW w \in Worker, NEW m \in Month, CalculatePeriod(w, m)
    PROVE  IInv'
<1>1. PICK query \in Calculation,
           lines \in [eligible_employees(m) -> {s \in Structure : Payable(s)}],
           overtime \in [eligible_employees(m) -> Overtime] :
          /\ query.include_thr => \A e \in eligible_employees(m) : ~ HasThr(e, m)
          /\ Handle(w, "calculate", m, "OPEN",
                    [e \in Employee |->
                        IF e \in eligible_employees(m)
                        THEN _calculate_employee_run(e, m, lines[e], overtime[e], query.method,
                                                     query.include_thr)
                        ELSE NULL])
  BY Zenon DEF CalculatePeriod
<1> DEFINE row(e) == _calculate_employee_run(e, m, lines[e], overtime[e], query.method,
                                             query.include_thr)
           runs == [e \in Employee |-> IF e \in eligible_employees(m) THEN row(e) ELSE NULL]
<1>2. /\ run \in [Month -> [Employee -> Rows]]
      /\ ends \in [Employee -> Month \cup {NULL}]
  BY DEF IInv, TablesTyped
<1>3. ASSUME NEW e \in eligible_employees(m)
      PROVE  /\ row(e) \in PayrollRun
             /\ Rewritten(run[m][e], row(e))
             /\ \A ordered : RowSound(row(e), e, m, run, ends, ordered)
  <2>1. lines[e] \in Structure /\ Payable(lines[e]) /\ overtime[e] \in Overtime
    OBVIOUS
  <2>2. PICK l \in Structure, o \in Overtime : l = lines[e] /\ o = overtime[e] /\ Payable(l)
    BY <2>1
  <2> QED
    BY <1>1, <1>2, <2>2, CalculatedSound
<1> HIDE DEF row
<1>4. runs \in [Employee -> Rows]
  BY <1>3 DEF Rows
<1>5. \A e \in Employee : Rewritten(run[m][e], runs[e])
  BY <1>3 DEF Rewritten
<1>6. Transition("calculate", period[m], "OPEN", run[m], runs)
  <2>1. period[m] = "OPEN"
    BY DEF CalculatePeriod
  <2> HIDE DEF runs
  <2> QED
    BY <1>5, <2>1 DEF Transition
<1>7. \A e \in Employee : runs[e] # NULL => RowSound(runs[e], e, m, run, ends, orderly)
  BY <1>3
<1>8. Handle(w, "calculate", m, "OPEN", runs)
  BY <1>1 DEF row
<1> HIDE DEF runs
<1>9. "OPEN" \in PayrollStatus /\ "calculate" \in {"calculate", "adjust", "lock", "unlock", "post"}
  BY DEF PayrollStatus
<1> QED
  BY <1>4, <1>6, <1>7, <1>8, <1>9, HandleKept

LEMMA AdjustKept ==
    ASSUME IInv, NEW w \in Worker, NEW m \in Month, NEW e \in Employee, AdjustRun(w, m, e)
    PROVE  IInv'
<1> DEFINE row == run[m][e]
           sent(body, field) == IF body[field] = NULL THEN row[field] ELSE body[field]
           new(body) == Filled(row, e, m, sent(body, "gross"), sent(body, "thr"),
                               sent(body, "method"), sent(body, "gross") + sent(body, "thr"))
<1>1. PICK body \in Adjustment :
          /\ body.thr \notin {NULL, 0} => ~ HasThr(e, m)
          /\ Handle(w, "adjust", m, period[m], [run[m] EXCEPT ![e] = new(body)])
  BY DEF AdjustRun
<1>2. /\ run \in [Month -> [Employee -> Rows]]
      /\ ends \in [Employee -> Month \cup {NULL}]
  BY DEF IInv, TablesTyped
<1>3. row \in PayrollRun /\ period[m] = "OPEN"
  BY <1>2 DEF AdjustRun, MayAdjust, Rows
<1>4. /\ new(body) \in PayrollRun
      /\ Rewritten(row, new(body))
      /\ \A ordered : RowSound(row, e, m, run, ends, ordered)
                      => RowSound(new(body), e, m, run, ends, ordered)
  <2>1. PICK current \in PayrollRun : current = row
    BY <1>3
  <2>2. PICK gross, thr, method : /\ gross = sent(body, "gross")
                                  /\ thr = sent(body, "thr")
                                  /\ method = sent(body, "method")
    OBVIOUS
  <2> HIDE DEF row
  <2> QED
    BY <1>1, <1>2, <2>1, <2>2, AdjustedSound
<1> DEFINE runs == [run[m] EXCEPT ![e] = new(body)]
<1>5. runs \in [Employee -> Rows] /\ runs[e] = new(body)
      /\ \A f \in Employee : f # e => runs[f] = run[m][f]
  <2> HIDE DEF new
  <2> QED
    BY <1>2, <1>4 DEF Rows
<1>6. Handle(w, "adjust", m, "OPEN", runs)
  BY <1>1, <1>3
<1> HIDE DEF runs, new
<1>7. \A f \in Employee : Rewritten(run[m][f], runs[f])
  BY <1>4, <1>5 DEF Rewritten
<1>8. Transition("adjust", period[m], "OPEN", run[m], runs)
  BY <1>3, <1>7 DEF Transition
<1>9. ~ overlapped => \A f \in Employee :
          runs[f] # NULL => RowSound(runs[f], f, m, run, ends, orderly)
  <2>1. ~ overlapped => \A f \in Employee :
            run[m][f] # NULL => RowSound(run[m][f], f, m, run, ends, orderly)
    BY DEF IInv, RunsSound
  <2>2. row # NULL
    BY DEF AdjustRun
  <2> QED
    BY <1>4, <1>5, <2>1, <2>2
<1>10. "OPEN" \in PayrollStatus /\ "adjust" \in {"calculate", "adjust", "lock", "unlock", "post"}
  BY DEF PayrollStatus
<1> QED
  BY <1>5, <1>6, <1>8, <1>9, <1>10, HandleKept

LEMMA LockKept ==
    ASSUME IInv, NEW w \in Worker, NEW m \in Month, LockPeriod(w, m) \/ UnlockPeriod(w, m)
    PROVE  IInv'
<1>1. run[m] \in [Employee -> Rows]
  BY DEF IInv, TablesTyped
<1>2. ~ overlapped => \A e \in Employee :
          run[m][e] # NULL => RowSound(run[m][e], e, m, run, ends, orderly)
  BY DEF IInv, RunsSound
<1>3. PICK rows \in [Employee -> Rows] : rows = run[m]
  BY <1>1
<1>4. CASE LockPeriod(w, m)
  <2>1. Handle(w, "lock", m, "LOCKED", rows) /\ period[m] = "OPEN"
    BY <1>3, <1>4 DEF LockPeriod
  <2>2. Transition("lock", period[m], "LOCKED", run[m], rows)
    BY <1>3, <2>1 DEF Transition
  <2>3. "LOCKED" \in PayrollStatus /\ "lock" \in {"calculate", "adjust", "lock", "unlock", "post"}
    BY DEF PayrollStatus
  <2> QED
    BY <1>2, <1>3, <2>1, <2>2, <2>3, HandleKept
<1>5. CASE UnlockPeriod(w, m)
  <2>1. Handle(w, "unlock", m, "OPEN", rows) /\ period[m] = "LOCKED"
    BY <1>3, <1>5 DEF UnlockPeriod
  <2>2. Transition("unlock", period[m], "OPEN", run[m], rows)
    BY <1>3, <2>1 DEF Transition
  <2>3. "OPEN" \in PayrollStatus /\ "unlock" \in {"calculate", "adjust", "lock", "unlock", "post"}
    BY DEF PayrollStatus
  <2> QED
    BY <1>2, <1>3, <2>1, <2>2, <2>3, HandleKept
<1> QED
  BY <1>4, <1>5

\* A payslip and an expense leave everything the tax and the sums are about.
LEMMA SoundWithSlip ==
    ASSUME NEW row \in PayrollRun, NEW new \in PayrollRun, NEW e, NEW m, NEW runs, NEW last,
           NEW ordered, RowSound(row, e, m, runs, last, ordered),
           new.gross = row.gross, new.thr = row.thr, new.tax = row.tax, new.net = row.net,
           new.snapshot = row.snapshot, new.method = row.method
    PROVE  RowSound(new, e, m, runs, last, ordered)
<1>1. NetSound(new)
  BY DEF RowSound, NetSound, get_payslip
<1>2. ThrAlone(new, e, m, runs)
  BY DEF RowSound, ThrAlone
<1>3. Settling(row, e, m, runs) <=> Settling(new, e, m, runs)
  BY DEF Settling
<1>4. Covered(new)
  BY DEF RowSound, Covered
<1> QED
  BY <1>1, <1>2, <1>3, <1>4 DEF RowSound

LEMMA PostKept ==
    ASSUME IInv, NEW w \in Worker, NEW m \in Month, PostPeriod(w, m)
    PROVE  IInv'
<1>1. Handle(w, "post", m, "POSTED", run[m]) /\ period[m] = "LOCKED"
  BY DEF PostPeriod
<1>2. PICK rows \in [Employee -> Rows] : rows = run[m]
  BY DEF IInv, TablesTyped
<1>3. Transition("post", period[m], "POSTED", run[m], rows)
  BY <1>1, <1>2 DEF Transition, MayAddSlip
<1>4. ~ overlapped => \A e \in Employee :
          rows[e] # NULL => RowSound(rows[e], e, m, run, ends, orderly)
  BY <1>2 DEF IInv, RunsSound
<1>5. "POSTED" \in PayrollStatus /\ "post" \in {"calculate", "adjust", "lock", "unlock", "post"}
  BY DEF PayrollStatus
<1> QED
  BY <1>1, <1>2, <1>3, <1>4, <1>5, HandleKept

\* What a handler that found or added a payslip holds now.
WithoutSlip(row) == row # NULL /\ row.slip = FALSE
Found(req, e, there) == [req EXCEPT !.readRuns[e].slip = there, !.runs[e].slip = TRUE]
SlipSet(rows, e, slip) == [rows EXCEPT ![e] = [@ EXCEPT !.slip = slip]]
Seeks(req, e) == req.op = "post" /\ req.runs[e] # NULL /\ ~ req.runs[e].slip

LEMMA FoundHeld ==
    ASSUME NEW req, Held(req), NEW e \in Employee, Seeks(req, e),
           NEW there, there \in BOOLEAN, NEW req2, req2 = Found(req, e, there)
    PROVE  /\ Held(req2) /\ req2.late = req.late /\ req2.month = req.month
           /\ req2.readStatus = req.readStatus
           /\ WithoutSlip(req.readRuns[e])
           /\ req.readRuns[e] \in PayrollRun
           /\ req2.readRuns = SlipSet(req.readRuns, e, there)
           /\ req2.runs = SlipSet(req.runs, e, TRUE)
           /\ req.runs[e] \in PayrollRun
<1>0. req.op = "post" /\ req.runs[e] # NULL /\ ~ req.runs[e].slip
  BY DEF Seeks
<1>1. PICK reads \in [Employee -> Rows], runs \in [Employee -> Rows] :
          reads = req.readRuns /\ runs = req.runs
  BY DEF Held, Record
<1>2. PICK read \in Rows, new \in Rows : read = reads[e] /\ new = runs[e]
  OBVIOUS
<1>3. NULL \notin PayrollRun
  BY Constants
<1>4. new \in PayrollRun /\ new.slip = FALSE
  <2>1. new \in PayrollRun
    BY <1>0, <1>1, <1>2 DEF Rows
  <2> QED
    BY <1>0, <1>1, <1>2, <2>1, RowColumns
<1>5. read = new
  <2>1. MayAddSlip(read, new)
    BY <1>0, <1>1, <1>2 DEF Held, Transition
  <2>2. CASE read # NULL /\ new = [read EXCEPT !.slip = TRUE]
    <3>1. read \in PayrollRun
      BY <2>2 DEF Rows
    <3>2. [read EXCEPT !.slip = TRUE].slip = TRUE
      BY <3>1 DEF PayrollRun
    <3> QED
      BY <1>4, <2>2, <3>2
  <2> QED
    BY <2>1, <2>2 DEF MayAddSlip
<1>6. PICK read2, new2 : read2 = [read EXCEPT !.slip = there] /\ new2 = [new EXCEPT !.slip = TRUE]
  OBVIOUS
<1>7. /\ read2 \in PayrollRun /\ new2 \in PayrollRun
      /\ read2.expense = read.expense /\ read2.slip = there
      /\ new2 = [read2 EXCEPT !.slip = TRUE]
  BY <1>4, <1>5, <1>6 DEF PayrollRun
<1>8. read.expense = NULL
  BY <1>0, <1>1, <1>2, <1>3, <1>4, <1>5 DEF Held
<1>9. PICK reads2, runs2 :
          reads2 = [reads EXCEPT ![e] = read2] /\ runs2 = [runs EXCEPT ![e] = new2]
  OBVIOUS
<1>10. reads2 \in [Employee -> Rows] /\ runs2 \in [Employee -> Rows]
  BY <1>7, <1>9 DEF Rows
<1>11. req2 = [req EXCEPT !.readRuns = reads2, !.runs = runs2]
  BY <1>0, <1>1, <1>2, <1>6, <1>9 DEF Found
<1>12. /\ req2 \in Record /\ req2.op = req.op /\ req2.month = req.month
       /\ req2.status = req.status /\ req2.readStatus = req.readStatus
       /\ req2.late = req.late /\ req2.readRuns = reads2 /\ req2.runs = runs2
  <2>1. req \in Record
    BY DEF Held
  <2> QED
    BY <1>10, <1>11, <2>1 DEF Record
<1>13. ASSUME NEW f \in Employee, reads2[f] # NULL, reads2[f].expense # NULL
       PROVE  reads2[f].slip
  <2>1. f # e
    BY <1>7, <1>8, <1>9, <1>13
  <2> QED
    BY <1>0, <1>1, <1>9, <1>13, <2>1 DEF Held
<1>14. ASSUME NEW f \in Employee
       PROVE  MayAddSlip(reads2[f], runs2[f])
  <2>1. CASE f = e
    BY <1>3, <1>7, <1>9, <2>1 DEF MayAddSlip
  <2>2. CASE f # e
    <3>1. reads2[f] = reads[f] /\ runs2[f] = runs[f]
      BY <1>9, <2>2
    <3> QED
      BY <1>0, <1>1, <3>1 DEF Held, Transition
  <2> QED
    BY <2>1, <2>2
<1>15. Held(req2)
  BY <1>0, <1>12, <1>13, <1>14 DEF Held, Transition
<1>16. /\ WithoutSlip(req.readRuns[e])
       /\ req.readRuns[e] \in PayrollRun /\ req.runs[e] \in PayrollRun
  BY <1>0, <1>1, <1>2, <1>3, <1>4, <1>5 DEF WithoutSlip
<1>17. /\ req2.readRuns = SlipSet(req.readRuns, e, there)
       /\ req2.runs = SlipSet(req.runs, e, TRUE)
  BY <1>0, <1>1, <1>2, <1>6, <1>9, <1>12 DEF SlipSet
<1> QED
  BY <1>12, <1>15, <1>16, <1>17

\* The payslip is found or added to what post_period holds.
LEMMA FindKept ==
    ASSUME IInv, NEW w \in Worker, NEW e \in Employee, FindPayslip(w, e)
    PROVE  IInv'
<1>0. PICK req : req = request[w]
  OBVIOUS
<1>1. PICK there :
          /\ req = request[w] /\ there \in BOOLEAN
          /\ there = (run[req.month][e] # NULL /\ run[req.month][e].slip)
  BY <1>0
<1>2. PICK req2 : req2 = Found(req, e, there)
  OBVIOUS
<1>3. /\ Seeks(req, e)
      /\ request' = [request EXCEPT ![w] = req2]
      /\ UNCHANGED <<period, run, booked, ends, orderly, overlapped>>
  BY <1>1, <1>2 DEF FindPayslip, tables, Found, Seeks
<1>4. req # Idle
  BY <1>3 DEF Idle, Seeks
<1>5. /\ Held(req) /\ SlipsThere(req, run)
      /\ ~ req.late /\ ~ overlapped => UpToDate(req, period, run, ends, orderly)
  BY <1>1, <1>4 DEF IInv, RequestsHeld
<1>6. there \in BOOLEAN
  BY <1>1
<1>7. PICK m \in Month, runs \in [Month -> [Employee -> Rows]] : m = req.month /\ runs = run
  BY <1>5 DEF Held, Record, IInv, TablesTyped
<1>8. /\ Held(req2) /\ req2.late = req.late /\ req2.month = m
      /\ req2.readStatus = req.readStatus
      /\ WithoutSlip(req.readRuns[e])
      /\ req.readRuns[e] \in PayrollRun
      /\ req2.readRuns = SlipSet(req.readRuns, e, there)
      /\ req2.runs = SlipSet(req.runs, e, TRUE)
      /\ req.runs[e] \in PayrollRun
  <2>1. Held(req2) /\ req2.month = req.month
    BY <1>2, <1>3, <1>5, <1>6, FoundHeld
  <2>4. req2.late = req.late
    BY <1>2, <1>3, <1>5, <1>6, FoundHeld
  <2>2. /\ req2.readStatus = req.readStatus
        /\ WithoutSlip(req.readRuns[e])
        /\ req.readRuns[e] \in PayrollRun
        /\ req.runs[e] \in PayrollRun
    BY <1>2, <1>3, <1>5, <1>6, FoundHeld
  <2>3. /\ req2.readRuns = SlipSet(req.readRuns, e, there)
        /\ req2.runs = SlipSet(req.runs, e, TRUE)
    BY <1>2, <1>3, <1>5, <1>6, FoundHeld
  <2> QED
    BY <1>7, <2>1, <2>2, <2>3, <2>4
<1>9. PICK reads \in [Employee -> Rows], news \in [Employee -> Rows] :
          reads = req.readRuns /\ news = req.runs
  BY <1>5 DEF Held, Record
<1>10. SlipsThere(req2, runs)
  <2> SUFFICES ASSUME NEW f \in Employee, req2.readRuns[f] # NULL, req2.readRuns[f].slip
               PROVE  runs[m][f] # NULL /\ runs[m][f].slip
    BY <1>8 DEF SlipsThere
  <2>1. CASE f # e
    <3>1. req2.readRuns[f] = req.readRuns[f]
      BY <1>8, <1>9, <2>1 DEF SlipSet
    <3> QED
      BY <1>5, <1>7, <3>1 DEF SlipsThere
  <2>2. CASE f = e
    <3>1. req2.readRuns[e] = [reads[e] EXCEPT !.slip = there]
      BY <1>8, <1>9 DEF SlipSet
    <3>2. req2.readRuns[e].slip = there
      BY <1>8, <1>9, <3>1 DEF PayrollRun, SlipSet
    <3> QED
      BY <1>1, <1>7, <2>2, <3>2
  <2> QED
    BY <2>1, <2>2
<1>11. ASSUME ~ req2.late, ~ overlapped
       PROVE  UpToDate(req2, period, runs, ends, orderly)
  <2>1. UpToDate(req, period, runs, ends, orderly)
    BY <1>5, <1>7, <1>8, <1>11
  <2>2. reads = runs[m]
    BY <1>7, <1>9, <2>1 DEF UpToDate
  <2>3. there = FALSE
    BY <1>1, <1>7, <1>8, <1>9, <2>2 DEF WithoutSlip
  <2>4. req2.readRuns = reads
    <3>1. [reads[e] EXCEPT !.slip = FALSE] = reads[e]
      BY <1>8, <1>9 DEF PayrollRun, WithoutSlip
    <3>2. req2.readRuns = [reads EXCEPT ![e] = [reads[e] EXCEPT !.slip = FALSE]]
      BY <1>8, <1>9, <2>3 DEF SlipSet
    <3>3. [reads EXCEPT ![e] = reads[e]] = reads
      OBVIOUS
    <3> QED
      BY <3>1, <3>2, <3>3
  <2>5. ASSUME NEW f \in Employee, req2.runs[f] # NULL
        PROVE  RowSound(req2.runs[f], f, m, runs, ends, orderly)
    <3>1. CASE f # e
      <4>1. req2.runs[f] = req.runs[f]
        BY <1>8, <1>9, <3>1 DEF SlipSet
      <4> QED
        BY <1>7, <2>1, <2>5, <4>1 DEF UpToDate
    <3>2. CASE f = e
      <4>1. PICK new, new2 :
                new \in PayrollRun /\ new = news[e] /\ new2 = [new EXCEPT !.slip = TRUE]
        BY <1>8, <1>9 DEF SlipSet
      <4>2. req2.runs[e] = new2
        BY <1>8, <1>9, <4>1 DEF SlipSet
      <4>3. /\ new2 \in PayrollRun
            /\ new2.gross = new.gross /\ new2.thr = new.thr /\ new2.tax = new.tax
            /\ new2.net = new.net /\ new2.snapshot = new.snapshot /\ new2.method = new.method
        BY <4>1 DEF PayrollRun
      <4>4. RowSound(new, e, m, runs, ends, orderly)
        BY <1>3, <1>7, <1>9, <2>1, <4>1 DEF UpToDate, Seeks
      <4>5. RowSound(new2, e, m, runs, ends, orderly)
        BY <4>1, <4>3, <4>4, SoundWithSlip
      <4> QED
        BY <3>2, <4>2, <4>5
    <3> QED
      BY <3>1, <3>2
  <2> QED
    BY <1>7, <1>8, <1>9, <2>1, <2>2, <2>4, <2>5 DEF UpToDate
<1>12. RequestsHeld'
  <2>1. ASSUME NEW v \in Worker, request'[v] # Idle
        PROVE  /\ Held(request'[v]) /\ SlipsThere(request'[v], run)
               /\ ~ request'[v].late /\ ~ overlapped
                  => UpToDate(request'[v], period, run, ends, orderly)
    <3>1. CASE v = w
      <4>1. request'[v] = req2
        BY <1>3, <3>1 DEF IInv
      <4> QED
        BY <1>7, <1>8, <1>10, <1>11, <4>1
    <3>2. CASE v # w
      BY <1>3, <2>1, <3>2 DEF IInv, RequestsHeld
    <3> QED
      BY <3>1, <3>2
  <2> QED
    BY <1>3, <2>1 DEF RequestsHeld
<1>13. TablesTyped' /\ BookingSound' /\ RunsSound' /\ PostedSound'
  BY <1>3 DEF IInv, TablesTyped, BookingSound, RunsSound, PostedSound
<1>14. DOMAIN request' = Worker
  BY <1>3 DEF IInv
<1> QED
  BY <1>12, <1>13, <1>14 DEF IInv

LEMMA CreateKept ==
    ASSUME IInv, NEW m \in Month, CreatePeriod(m)
    PROVE  IInv'
<1>1. /\ period[m] = NULL
      /\ period' = [period EXCEPT ![m] = "OPEN"]
      /\ UNCHANGED <<run, booked, ends, request, orderly, overlapped, audited>>
  BY DEF CreatePeriod
<1>2. TablesTyped' /\ DOMAIN request' = Worker /\ BookingSound' /\ RunsSound'
  BY <1>1 DEF IInv, TablesTyped, PayrollStatus, BookingSound, RunsSound
<1>3. RequestsHeld'
  <2>1. ASSUME NEW w \in Worker, request[w] # Idle, ~ request[w].late /\ ~ overlapped
        PROVE  UpToDate(request[w], period', run, ends, orderly)
    <3>1. Held(request[w]) /\ UpToDate(request[w], period, run, ends, orderly)
      BY <2>1 DEF IInv, RequestsHeld
    <3>2. request[w].readStatus # NULL
      BY <3>1, Constants DEF Held, Record
    <3>3. request[w].month \in Month /\ period[request[w].month] = request[w].readStatus
      BY <3>1 DEF Held, Record, UpToDate
    <3>4. period'[request[w].month] = period[request[w].month]
      BY <1>1, <3>2, <3>3 DEF IInv, TablesTyped
    <3> QED
      BY <3>1, <3>4 DEF UpToDate
  <2> QED
    BY <1>1, <2>1 DEF IInv, RequestsHeld
<1>4. PostedSound'
  <2>1. \A k \in Month : period'[k] = "POSTED" <=> period[k] = "POSTED"
    BY <1>1, Constants DEF IInv, TablesTyped, PayrollStatus
  <2> QED
    BY <1>1, <2>1 DEF IInv, PostedSound
<1> QED
  BY <1>2, <1>3, <1>4 DEF IInv

LEMMA RollbackKept ==
    ASSUME IInv, NEW w \in Worker, Rollback(w)
    PROVE  IInv'
<1>1. /\ request' = [request EXCEPT ![w] = Idle]
      /\ UNCHANGED <<period, run, booked, ends, orderly, overlapped, audited>>
  BY DEF Rollback, tables
<1>2. \A v \in Worker : request'[v] = Idle \/ request'[v] = request[v]
  BY <1>1 DEF IInv
<1>3. RequestsHeld'
  BY <1>1, <1>2 DEF IInv, RequestsHeld
<1>4. TablesTyped' /\ BookingSound' /\ RunsSound' /\ PostedSound' /\ DOMAIN request' = Worker
  BY <1>1 DEF IInv, TablesTyped, BookingSound, RunsSound, PostedSound
<1> QED
  BY <1>3, <1>4 DEF IInv

\* After a commit the others hold what they held, and know nothing of the tables.
LEMMA OvertakenHeld ==
    ASSUME NEW requests, NEW rest, rest = Overtaken(requests), NEW w \in Worker, rest[w] # Idle,
           requests[w] # Idle => Held(requests[w])
    PROVE  /\ Held(rest[w]) /\ rest[w].late
           /\ requests[w] # Idle
           /\ rest[w].month = requests[w].month /\ rest[w].readRuns = requests[w].readRuns
<1>1. PICK req : req = requests[w]
  OBVIOUS
<1>2. req # Idle /\ rest[w] = [req EXCEPT !.late = TRUE] /\ Held(req)
  BY <1>1 DEF Overtaken
<1>3. req \in Record
  BY <1>2 DEF Held
<1>4. PICK late : late = [req EXCEPT !.late = TRUE]
  OBVIOUS
<1>5. /\ late \in Record /\ late.late = TRUE
      /\ late.op = req.op /\ late.readStatus = req.readStatus /\ late.status = req.status
      /\ late.readRuns = req.readRuns /\ late.runs = req.runs /\ late.month = req.month
  BY <1>3, <1>4 DEF Record
<1> QED
  BY <1>1, <1>2, <1>4, <1>5 DEF Held

\* Months that look the same before m add up to the same.
LEMMA SameEarlier ==
    ASSUME NEW runs, NEW runs2, NEW e, NEW m \in Month,
           \A k \in Month : k < m =>
               /\ runs[k][e] = NULL <=> runs2[k][e] = NULL
               /\ runs[k][e] # NULL => /\ runs2[k][e].tax = runs[k][e].tax
                                       /\ runs2[k][e].snapshot = runs[k][e].snapshot
    PROVE  /\ EarlierIncome(e, m, runs) = EarlierIncome(e, m, runs2)
           /\ EarlierContributions(e, m, runs) = EarlierContributions(e, m, runs2)
           /\ EarlierTax(e, m, runs) = EarlierTax(e, m, runs2)
<1>1. Earlier(e, m, runs) = Earlier(e, m, runs2)
  BY DEF Earlier
<1>2. \A k \in Earlier(e, m, runs) : /\ runs2[k][e].tax = runs[k][e].tax
                                    /\ runs2[k][e].snapshot = runs[k][e].snapshot
  BY DEF Earlier
<1>3. [k \in Earlier(e, m, runs) |-> runs[k][e].snapshot.taxable]
      = [k \in Earlier(e, m, runs2) |-> runs2[k][e].snapshot.taxable]
  BY <1>1, <1>2
<1>4. [k \in Earlier(e, m, runs) |-> runs[k][e].snapshot.contribution]
      = [k \in Earlier(e, m, runs2) |-> runs2[k][e].snapshot.contribution]
  BY <1>1, <1>2
<1>5. [k \in Earlier(e, m, runs) |-> runs[k][e].tax]
      = [k \in Earlier(e, m, runs2) |-> runs2[k][e].tax]
  BY <1>1, <1>2
<1> QED
  BY <1>3, <1>4, <1>5 DEF EarlierIncome, EarlierContributions, EarlierTax

LEMMA EndKept ==
    ASSUME IInv, NEW e \in Employee, EndEmployment(e)
    PROVE  IInv'
<1>1. PICK m \in Month :
          /\ ends' = [ends EXCEPT ![e] = m]
          /\ orderly' = (orderly /\ \A k \in Month : k >= m => run[k][e] = NULL)
  BY DEF EndEmployment
<1>2. /\ request' = Overtaken(request)
      /\ UNCHANGED <<period, run, booked, overlapped>>
  BY DEF EndEmployment
<1>3. TablesTyped' /\ BookingSound' /\ PostedSound'
  BY <1>1, <1>2 DEF IInv, TablesTyped, BookingSound, PostedSound
<1>4. DOMAIN request' = Worker
  BY <1>2 DEF Overtaken
<1>5. RequestsHeld'
  <2>1. PICK requests, rest : requests = request /\ rest = request'
    OBVIOUS
  <2>2. \A w \in Worker : requests[w] # Idle => Held(requests[w]) /\ SlipsThere(requests[w], run)
    BY <2>1 DEF IInv, RequestsHeld
  <2>3. \A w \in Worker : rest[w] # Idle =>
            /\ Held(rest[w]) /\ rest[w].late /\ requests[w] # Idle
            /\ rest[w].month = requests[w].month /\ rest[w].readRuns = requests[w].readRuns
    <3>1. rest = Overtaken(requests)
      BY <1>2, <2>1
    <3> QED
      BY <2>2, <3>1, OvertakenHeld
  <2>4. \A w \in Worker : rest[w] # Idle => SlipsThere(rest[w], run)
    BY <2>2, <2>3 DEF SlipsThere
  <2> QED
    BY <1>2, <2>1, <2>3, <2>4 DEF RequestsHeld
<1>6. RunsSound'
  <2> SUFFICES ASSUME ~ overlapped, NEW k \in Month, NEW f \in Employee, run[k][f] # NULL
               PROVE  RowSound(run[k][f], f, k, run, ends', orderly')
    BY <1>2 DEF RunsSound
  <2>1. RowSound(run[k][f], f, k, run, ends, orderly)
    BY DEF IInv, RunsSound
  <2>2. orderly' => orderly
    BY <1>1
  <2>3. CASE f # e
    <3>1. ends'[f] = ends[f]
      BY <1>1, <2>3 DEF IInv, TablesTyped
    <3>2. PICK last, last2, ordered, ordered2 :
              last = ends /\ last2 = ends' /\ ordered = orderly /\ ordered2 = orderly'
      OBVIOUS
    <3> QED
      BY <2>1, <2>2, <3>1, <3>2 DEF RowSound
  <2>4. CASE f = e
    <3>1. ends'[e] = m
      BY <1>1 DEF IInv, TablesTyped
    <3>2. k \in 1..12 /\ m \in 1..12
      BY Constants
    <3>3. orderly' => k < m
      <4>1. orderly' => ~ (k >= m)
        BY <1>1, <2>4, Zenon
      <4> QED
        BY <3>2, <4>1
    <3>4. orderly' => k # 12 /\ k # m /\ k <= m
      BY <3>2, <3>3
    <3> QED
      BY <2>1, <2>4, <3>1, <3>4 DEF RowSound
  <2> QED
    BY <2>3, <2>4
<1> QED
  BY <1>3, <1>4, <1>5, <1>6 DEF IInv

---------------------------------------------------------------------------
\* Commits.

\* What a commit writes, run by run.
CommitEffect(req) ==
    LET m == req.month
    IN  /\ m \in Month /\ Held(req) /\ SlipsThere(req, run)
        /\ ~ req.late /\ ~ overlapped => UpToDate(req, period, run, ends, orderly)
        /\ period' = [period EXCEPT ![m] =
               IF req.status = req.readStatus THEN period[m] ELSE req.status]
        /\ \A k \in Month, e \in Employee :
               k # m => run'[k][e] = run[k][e] /\ booked'[k][e] = booked[k][e]
        /\ \A e \in Employee :
               Booking(req, e, run[m][e], booked[m][e], run'[m][e], booked'[m][e])
        /\ run' = [k \in Month |-> [e \in Employee |-> run'[k][e]]]
        /\ booked' = [k \in Month |-> [e \in Employee |-> booked'[k][e]]]
        /\ orderly' = (orderly /\ \A e \in Employee :
               run'[m][e] # run[m][e] /\ req.op # "post"
                   => \A k \in Month : k > m => run[k][e] = NULL)
        /\ overlapped' = (overlapped \/ req.late)
        /\ ends' = ends

LEMMA CommitWrites ==
    ASSUME IInv, NEW w \in Worker, Commit(w), NEW req, req = request[w]
    PROVE  CommitEffect(req) /\ request' = Overtaken([request EXCEPT ![w] = Idle])
<1> DEFINE m == req.month
           posts == IF req.op = "post" THEN ToBook(req.readRuns) ELSE {}
           row(e) == Written(run[m][e], req.readRuns[e], req.runs[e])
           rows == [e \in Employee |->
                       IF e \in posts THEN [row(e) EXCEPT !.expense = Len(booked[m][e]) + 1]
                       ELSE row(e)]
           amounts == [e \in Employee |->
                          IF e \in posts THEN Append(booked[m][e], req.readRuns[e].net)
                          ELSE booked[m][e]]
<1>1. /\ req # Idle
      /\ req.op = "post" => \A e \in Employee : req.runs[e] # NULL => req.runs[e].slip
      /\ \A e \in Employee : Consistent(run[m][e], req.readRuns[e], req.runs[e])
      /\ period' = [period EXCEPT ![m] =
             IF req.status = req.readStatus THEN period[m] ELSE req.status]
      /\ booked' = [booked EXCEPT ![m] = amounts]
      /\ run' = [run EXCEPT ![m] = rows]
      /\ orderly' = (orderly /\ \A e \in Employee :
             run'[m][e] # run[m][e] /\ req.op # "post"
                 => \A k \in Month : k > m => run[k][e] = NULL)
      /\ overlapped' = (overlapped \/ req.late)
      /\ request' = Overtaken([request EXCEPT ![w] = Idle])
      /\ ends' = ends
  BY DEF Commit
<1>2. /\ Held(req) /\ m \in Month /\ SlipsThere(req, run)
      /\ ~ req.late /\ ~ overlapped => UpToDate(req, period, run, ends, orderly)
  BY <1>1 DEF IInv, RequestsHeld, Held, Record
<1>3. /\ run \in [Month -> [Employee -> Rows]]
      /\ booked \in [Month -> [Employee -> Seq(Nat)]]
  BY DEF IInv, TablesTyped
<1>4. \A k \in Month, e \in Employee :
          k # m => run'[k][e] = run[k][e] /\ booked'[k][e] = booked[k][e]
  <2> HIDE DEF rows, amounts, m
  <2> QED
    BY <1>1, <1>3
<1>5. run'[m] = rows /\ booked'[m] = amounts
  <2> HIDE DEF rows, amounts, m
  <2> QED
    BY <1>1, <1>2, <1>3
<1>6. \A e \in Employee :
          /\ booked'[m][e] = IF e \in posts THEN Append(booked[m][e], req.readRuns[e].net)
                             ELSE booked[m][e]
          /\ run'[m][e] = IF e \in posts THEN [row(e) EXCEPT !.expense = Len(booked[m][e]) + 1]
                          ELSE row(e)
  BY <1>5
<1>7. /\ run' = [k \in Month |-> [e \in Employee |-> run'[k][e]]]
      /\ booked' = [k \in Month |-> [e \in Employee |-> booked'[k][e]]]
  <2>1. rows = [e \in Employee |-> rows[e]] /\ amounts = [e \in Employee |-> amounts[e]]
    OBVIOUS
  <2> HIDE DEF rows, amounts, m
  <2>2. run' = [k \in Month |-> IF k = m THEN rows ELSE run[k]]
    BY <1>1, <1>3
  <2>3. booked' = [k \in Month |-> IF k = m THEN amounts ELSE booked[k]]
    BY <1>1, <1>3
  <2>4. \A k \in Month :
            /\ run[k] = [e \in Employee |-> run[k][e]]
            /\ booked[k] = [e \in Employee |-> booked[k][e]]
    BY <1>3
  <2>5. PICK runs, bookings : runs = run' /\ bookings = booked'
    OBVIOUS
  <2>6. \A k \in Month : runs[k] = [e \in Employee |-> runs[k][e]]
    BY <2>1, <2>2, <2>4, <2>5
  <2>7. \A k \in Month : bookings[k] = [e \in Employee |-> bookings[k][e]]
    BY <2>1, <2>3, <2>4, <2>5
  <2>8. runs = [k \in Month |-> runs[k]] /\ bookings = [k \in Month |-> bookings[k]]
    BY <2>2, <2>3, <2>5
  <2> QED
    BY <2>5, <2>6, <2>7, <2>8
<1> HIDE DEF rows, amounts
<1>8. \A e \in Employee :
          Booking(req, e, run[m][e], booked[m][e], run'[m][e], booked'[m][e])
  BY <1>1, <1>6 DEF Booking
<1> QED
  BY <1>1, <1>2, <1>4, <1>7, <1>8 DEF CommitEffect

\* What a commit does to a run that is still what the session read.
CarriedOut(req, e, current, amounts, row2, amounts2) ==
    LET new == req.runs[e]
    IN  /\ row2 = NULL <=> new = NULL
        /\ row2 # NULL => /\ new \in PayrollRun /\ row2 \in PayrollRun
                          /\ row2.gross = new.gross /\ row2.thr = new.thr
                          /\ row2.tax = new.tax /\ row2.net = new.net
                          /\ row2.snapshot = new.snapshot /\ row2.method = new.method
        /\ req.op = "post" =>
               /\ row2 = NULL <=> current = NULL
               /\ current # NULL => /\ row2.tax = current.tax /\ row2.net = current.net
                                    /\ row2.snapshot = current.snapshot
               /\ amounts = <<>> =>
                      amounts2 = IF current = NULL THEN <<>> ELSE <<current.net>>
        /\ req.op # "post" => amounts2 = amounts

LEMMA BookingCarriedOut ==
    ASSUME NEW req, Held(req), NEW e \in Employee, NEW current \in Rows,
           current = req.readRuns[e], NEW amounts \in Seq(Nat), BookedWith(current, amounts),
           NEW row2, NEW amounts2, Booking(req, e, current, amounts, row2, amounts2)
    PROVE  CarriedOut(req, e, current, amounts, row2, amounts2)
<1>1. PICK new \in Rows : new = req.runs[e]
  BY DEF Held, Record
<1>2. /\ Consistent(current, current, new)
      /\ IF req.op = "post" /\ e \in ToBook(req.readRuns)
         THEN /\ row2 = [Written(current, current, new) EXCEPT !.expense = Len(amounts) + 1]
              /\ amounts2 = Append(amounts, current.net)
         ELSE row2 = Written(current, current, new) /\ amounts2 = amounts
  BY <1>1 DEF Booking
<1>3. Written(current, current, new) = new
  BY <1>2, WrittenRow
<1>4. NULL \notin PayrollRun /\ (new # NULL => new \in PayrollRun)
      /\ (current # NULL => current \in PayrollRun)
  BY Constants DEF Rows
<1>5. req.op = "post" => MayAddSlip(current, new) /\ (new # NULL => new.slip)
  BY <1>1 DEF Held, Transition, Booking
<1>6. req.op = "post" /\ current # NULL =>
          /\ new \in PayrollRun /\ new.tax = current.tax /\ new.net = current.net
          /\ new.snapshot = current.snapshot /\ new.expense = current.expense
  <2>1. current # NULL => /\ [current EXCEPT !.slip = TRUE] \in PayrollRun
                          /\ [current EXCEPT !.slip = TRUE].tax = current.tax
                          /\ [current EXCEPT !.slip = TRUE].net = current.net
                          /\ [current EXCEPT !.slip = TRUE].snapshot = current.snapshot
                          /\ [current EXCEPT !.slip = TRUE].expense = current.expense
    BY <1>4 DEF PayrollRun
  <2> QED
    BY <1>4, <1>5, <2>1 DEF MayAddSlip
<1>7. CASE req.op = "post" /\ e \in ToBook(req.readRuns)
  <2>1. current # NULL
    BY <1>7 DEF ToBook
  <2>2. new \in PayrollRun /\ row2 = [new EXCEPT !.expense = Len(amounts) + 1]
    BY <1>2, <1>3, <1>6, <1>7, <2>1
  <2>3. PICK position \in Nat : position = Len(amounts) + 1
    OBVIOUS
  <2>4. /\ row2 \in PayrollRun
        /\ row2.gross = new.gross /\ row2.thr = new.thr /\ row2.tax = new.tax
        /\ row2.net = new.net /\ row2.snapshot = new.snapshot /\ row2.method = new.method
    BY <2>2, <2>3 DEF PayrollRun
  <2>5. row2 # NULL /\ new # NULL
    BY <1>4, <2>2, <2>4
  <2>6. amounts = <<>> => amounts2 = <<current.net>>
    BY <1>2, <1>7
  <2> QED
    BY <1>1, <1>6, <1>7, <2>1, <2>2, <2>4, <2>5, <2>6 DEF CarriedOut
<1>8. CASE ~ (req.op = "post" /\ e \in ToBook(req.readRuns))
  <2>1. row2 = new /\ amounts2 = amounts
    BY <1>2, <1>3, <1>8
  <2>2. req.op = "post" => (current = NULL <=> new = NULL)
    BY <1>4, <1>5, <1>6 DEF MayAddSlip
  <2>3. req.op = "post" /\ current # NULL => amounts # <<>>
    <3>1. req.op = "post" /\ current # NULL => current.expense # NULL
      BY <1>8 DEF ToBook
    <3>2. amounts = <<>> => 1..Len(amounts) = {}
      <4>1. 1..Len(<<>>) = {}
        OBVIOUS
      <4> QED
        BY <4>1, Zenon
    <3> QED
      BY <3>1, <3>2 DEF BookedWith
  <2> QED
    BY <1>1, <1>4, <1>6, <2>1, <2>2, <2>3 DEF CarriedOut
<1> QED
  BY <1>7, <1>8

\* A row stays sound as long as the months before it that it was computed from do.
LEMMA MovedSound ==
    ASSUME NEW row, NEW e, NEW k \in Month, NEW runs, NEW runs2, NEW last, NEW ordered,
           NEW ordered2, RowSound(row, e, k, runs, last, ordered), ordered2 => ordered,
           ordered2 => \A j \in Month : j < k =>
               /\ runs[j][e] = NULL <=> runs2[j][e] = NULL
               /\ runs[j][e] # NULL => /\ runs2[j][e].tax = runs[j][e].tax
                                       /\ runs2[j][e].snapshot = runs[j][e].snapshot,
           ThrAlone(row, e, k, runs2)
    PROVE  RowSound(row, e, k, runs2, last, ordered2)
<1>1. ordered2 => /\ EarlierIncome(e, k, runs) = EarlierIncome(e, k, runs2)
                  /\ EarlierContributions(e, k, runs) = EarlierContributions(e, k, runs2)
                  /\ EarlierTax(e, k, runs) = EarlierTax(e, k, runs2)
  BY SameEarlier
<1>2. ordered2 => (Settling(row, e, k, runs) <=> Settling(row, e, k, runs2))
  BY <1>1 DEF Settling
<1> QED
  BY <1>2 DEF RowSound

\* The run a commit writes is as sound as what the session holds.
LEMMA CommittedSound ==
    ASSUME NEW req, NEW e \in Employee, NEW m \in Month, NEW runs, NEW runs2, NEW last,
           NEW ordered, NEW ordered2, NEW amounts, NEW amounts2,
           \A j \in Month : j # m => runs2[j][e] = runs[j][e],
           CarriedOut(req, e, runs[m][e], amounts, runs2[m][e], amounts2),
           req.runs[e] # NULL => RowSound(req.runs[e], e, m, runs, last, ordered),
           ordered2 => ordered, runs2[m][e] # NULL
    PROVE  RowSound(runs2[m][e], e, m, runs2, last, ordered2)
<1>1. PICK row, new : row = runs2[m][e] /\ new = req.runs[e]
  OBVIOUS
<1>2. /\ new # NULL /\ new \in PayrollRun /\ row \in PayrollRun
      /\ row.gross = new.gross /\ row.thr = new.thr /\ row.tax = new.tax
      /\ row.net = new.net /\ row.snapshot = new.snapshot /\ row.method = new.method
  BY <1>1 DEF CarriedOut
<1>3. RowSound(row, e, m, runs, last, ordered)
  BY <1>1, <1>2, SoundWithSlip
<1>4. \A j \in Month : j < m => runs2[j][e] = runs[j][e]
  BY Constants
<1>5. ThrAlone(row, e, m, runs2)
  BY <1>3 DEF RowSound, ThrAlone
<1>6. RowSound(row, e, m, runs2, last, ordered2)
  BY <1>3, <1>4, <1>5, MovedSound
<1> QED
  BY <1>1, <1>6

LEMMA CommitKept ==
    ASSUME IInv, NEW w \in Worker, Commit(w)
    PROVE  IInv'
<1>1. PICK req : req = request[w]
  OBVIOUS
<1> DEFINE m == req.month
<1>0. CommitEffect(req) /\ request' = Overtaken([request EXCEPT ![w] = Idle])
  BY <1>1, CommitWrites
<1>2. /\ m \in Month /\ Held(req) /\ SlipsThere(req, run)
      /\ ~ req.late /\ ~ overlapped => UpToDate(req, period, run, ends, orderly)
      /\ period' = [period EXCEPT ![m] =
             IF req.status = req.readStatus THEN period[m] ELSE req.status]
  BY <1>0 DEF CommitEffect
<1>3. \A k \in Month, e \in Employee :
          k # m => run'[k][e] = run[k][e] /\ booked'[k][e] = booked[k][e]
  BY <1>0 DEF CommitEffect
<1>4. \A e \in Employee :
          Booking(req, e, run[m][e], booked[m][e], run'[m][e], booked'[m][e])
  BY <1>0 DEF CommitEffect
<1>5. /\ run' = [k \in Month |-> [e \in Employee |-> run'[k][e]]]
      /\ booked' = [k \in Month |-> [e \in Employee |-> booked'[k][e]]]
  BY <1>0 DEF CommitEffect
<1>6. /\ orderly' = (orderly /\ \A e \in Employee :
             run'[m][e] # run[m][e] /\ req.op # "post"
                 => \A k \in Month : k > m => run[k][e] = NULL)
      /\ overlapped' = (overlapped \/ req.late)
      /\ request' = Overtaken([request EXCEPT ![w] = Idle])
      /\ ends' = ends
  BY <1>0 DEF CommitEffect
<1> HIDE DEF m
<1>7. /\ run \in [Month -> [Employee -> Rows]]
      /\ booked \in [Month -> [Employee -> Seq(Nat)]]
      /\ period \in [Month -> PayrollStatus \cup {NULL}]
  BY DEF IInv, TablesTyped
<1>8. ASSUME NEW e \in Employee
      PROVE  /\ run'[m][e] \in Rows /\ booked'[m][e] \in Seq(Nat)
             /\ BookedWith(run'[m][e], booked'[m][e])
             /\ run[m][e] # NULL /\ run[m][e].slip => run'[m][e] # NULL /\ run'[m][e].slip
  <2>1. PICK current \in Rows, amounts \in Seq(Nat) : current = run[m][e] /\ amounts = booked[m][e]
    BY <1>2, <1>7
  <2>2. PICK row2, amounts2 : row2 = run'[m][e] /\ amounts2 = booked'[m][e]
    OBVIOUS
  <2>3. BookedWith(current, amounts)
    BY <1>2, <2>1 DEF IInv, BookingSound
  <2>4. Booking(req, e, current, amounts, row2, amounts2)
    BY <1>4, <2>1, <2>2
  <2>5. req.readRuns[e] # NULL /\ req.readRuns[e].slip => current # NULL /\ current.slip
    BY <1>2, <2>1 DEF SlipsThere, m
  <2>6. /\ row2 \in Rows /\ amounts2 \in Seq(Nat) /\ BookedWith(row2, amounts2)
        /\ current # NULL /\ current.slip => row2 # NULL /\ row2.slip
    BY <1>2, <2>1, <2>3, <2>4, <2>5, BookedRow
  <2> QED
    BY <2>1, <2>2, <2>6
<1>9. /\ run' \in [Month -> [Employee -> Rows]]
      /\ booked' \in [Month -> [Employee -> Seq(Nat)]]
  <2>1. PICK runs, bookings, old, oldBookings :
            runs = run' /\ bookings = booked' /\ old = run /\ oldBookings = booked
    OBVIOUS
  <2>2. ASSUME NEW k \in Month, NEW e \in Employee
        PROVE  runs[k][e] \in Rows /\ bookings[k][e] \in Seq(Nat)
    <3>1. CASE k = m
      BY <1>8, <2>1, <3>1
    <3>2. CASE k # m
      <4>1. runs[k][e] = old[k][e] /\ bookings[k][e] = oldBookings[k][e]
        BY <1>3, <2>1, <3>2
      <4>2. old[k][e] \in Rows /\ oldBookings[k][e] \in Seq(Nat)
        BY <1>7, <2>1
      <4> QED
        BY <4>1, <4>2
    <3> QED
      BY <3>1, <3>2
  <2>3. /\ runs = [k \in Month |-> [e \in Employee |-> runs[k][e]]]
        /\ bookings = [k \in Month |-> [e \in Employee |-> bookings[k][e]]]
    BY <1>5, <2>1
  <2>4. runs \in [Month -> [Employee -> Rows]] /\ bookings \in [Month -> [Employee -> Seq(Nat)]]
    BY <2>2, <2>3
  <2> QED
    BY <2>1, <2>4
<1>10. TablesTyped'
  <2>1. req.status \in PayrollStatus /\ req.late \in BOOLEAN
    BY <1>2 DEF Held, Record
  <2>2. period' \in [Month -> PayrollStatus \cup {NULL}]
    BY <1>2, <1>7, <2>1
  <2>3. ends' \in [Employee -> Month \cup {NULL}] /\ orderly' \in BOOLEAN /\ overlapped' \in BOOLEAN
    BY <1>6, <2>1 DEF IInv, TablesTyped
  <2> QED
    BY <1>9, <2>2, <2>3 DEF TablesTyped
<1>11. BookingSound'
  BY <1>3, <1>8 DEF IInv, BookingSound
<1>12. DOMAIN request' = Worker
  BY <1>6 DEF Overtaken
<1>13. RequestsHeld'
  <2>1. PICK requests, rest : requests = [request EXCEPT ![w] = Idle] /\ rest = request'
    OBVIOUS
  <2>2. \A v \in Worker : requests[v] # Idle => Held(requests[v]) /\ SlipsThere(requests[v], run)
    BY <2>1 DEF IInv, RequestsHeld
  <2>3. \A v \in Worker : rest[v] # Idle =>
            /\ Held(rest[v]) /\ rest[v].late /\ requests[v] # Idle
            /\ rest[v].month = requests[v].month /\ rest[v].readRuns = requests[v].readRuns
    <3>1. rest = Overtaken(requests)
      BY <1>6, <2>1
    <3> QED
      BY <2>2, <3>1, OvertakenHeld
  <2>4. \A k \in Month, e \in Employee :
            run[k][e] # NULL /\ run[k][e].slip => run'[k][e] # NULL /\ run'[k][e].slip
    BY <1>3, <1>8
  <2>5. PICK runs, runs2 : runs = run /\ runs2 = run'
    OBVIOUS
  <2>6. \A v \in Worker : rest[v] # Idle => SlipsThere(rest[v], runs2)
    <3> SUFFICES ASSUME NEW v \in Worker, rest[v] # Idle, NEW e \in Employee,
                        rest[v].readRuns[e] # NULL, rest[v].readRuns[e].slip
                 PROVE  runs2[rest[v].month][e] # NULL /\ runs2[rest[v].month][e].slip
      BY DEF SlipsThere
    <3>1. rest[v].month \in Month
      BY <2>3 DEF Held, Record
    <3>2. runs[rest[v].month][e] # NULL /\ runs[rest[v].month][e].slip
      BY <2>2, <2>3, <2>5 DEF SlipsThere
    <3> QED
      BY <2>4, <2>5, <3>1, <3>2
  <2> QED
    BY <2>1, <2>3, <2>5, <2>6 DEF RequestsHeld
<1>14. ASSUME ~ overlapped'
       PROVE  /\ ~ overlapped /\ UpToDate(req, period, run, ends, orderly)
              /\ req.readStatus = period[m] /\ req.readRuns = run[m]
              /\ \A e \in Employee :
                     req.runs[e] # NULL => RowSound(req.runs[e], e, m, run, ends, orderly)
  BY <1>2, <1>6, <1>14 DEF UpToDate, m
<1>15. ASSUME ~ overlapped', NEW e \in Employee
       PROVE  CarriedOut(req, e, run[m][e], booked[m][e], run'[m][e], booked'[m][e])
  <2>1. PICK current \in Rows, amounts \in Seq(Nat) : current = run[m][e] /\ amounts = booked[m][e]
    BY <1>2, <1>7
  <2>2. PICK row2, amounts2 : row2 = run'[m][e] /\ amounts2 = booked'[m][e]
    OBVIOUS
  <2>3. BookedWith(current, amounts)
    BY <1>2, <2>1 DEF IInv, BookingSound
  <2>4. Booking(req, e, current, amounts, row2, amounts2)
    BY <1>4, <2>1, <2>2
  <2>5. current = req.readRuns[e]
    BY <1>14, <1>15, <2>1
  <2>6. CarriedOut(req, e, current, amounts, row2, amounts2)
    BY <1>2, <2>1, <2>3, <2>4, <2>5, BookingCarriedOut
  <2> QED
    BY <2>1, <2>2, <2>6
<1>16. RunsSound'
  <2> SUFFICES ASSUME ~ overlapped', NEW k \in Month, NEW e \in Employee, run'[k][e] # NULL
               PROVE  RowSound(run'[k][e], e, k, run', ends', orderly')
    BY DEF RunsSound
  <2>1. PICK runs, runs2, last, ordered, ordered2, booked1, booked2 :
            /\ runs = run /\ runs2 = run' /\ last = ends /\ ordered = orderly
            /\ ordered2 = orderly' /\ booked1 = booked /\ booked2 = booked'
    OBVIOUS
  <2>2. /\ \A j \in Month : j # m => runs2[j][e] = runs[j][e]
        /\ CarriedOut(req, e, runs[m][e], booked1[m][e], runs2[m][e], booked2[m][e])
        /\ runs \in [Month -> [Employee -> Rows]] /\ runs2 \in [Month -> [Employee -> Rows]]
    BY <1>3, <1>7, <1>9, <1>15, <2>1
  <2>3. \A j \in Month : runs[j][e] # NULL => RowSound(runs[j][e], e, j, runs, last, ordered)
    BY <1>14, <2>1 DEF IInv, RunsSound
  <2>4. req.runs[e] # NULL => RowSound(req.runs[e], e, m, runs, last, ordered)
    BY <1>14, <2>1
  <2>5. ordered2 => ordered
    BY <1>6, <2>1
  <2>6. ordered2 /\ runs2[m][e] # runs[m][e] /\ req.op # "post"
            => \A j \in Month : j > m => runs[j][e] = NULL
    BY <1>6, <2>1
  <2>7. RowSound(runs2[k][e], e, k, runs2, last, ordered2)
    <3>1. CASE k = m
      BY <1>2, <2>1, <2>2, <2>4, <2>5, <3>1, CommittedSound
    <3>2. CASE k # m
      \* A commit that changes what the tax of k was computed from is out of order.
      <4>1. PICK row : row = runs[k][e]
        OBVIOUS
      <4>2. row = runs2[k][e] /\ row # NULL
        BY <2>1, <2>2, <3>2, <4>1
      <4>3. RowSound(row, e, k, runs, last, ordered)
        BY <2>3, <4>1, <4>2
      <4>4. ThrAlone(row, e, k, runs2)
        <5> SUFFICES ASSUME row.thr > 0, NEW j \in Month \ {k}, runs2[j][e] # NULL
                     PROVE  ~ (runs2[j][e].thr > 0)
          BY DEF ThrAlone
        <5>1. CASE j # m
          BY <2>2, <4>3, <5>1 DEF RowSound, ThrAlone
        <5>2. CASE j = m
          <6>1. runs2[m][e].thr = req.runs[e].thr /\ req.runs[e] # NULL
            BY <2>2, <5>2 DEF CarriedOut
          <6>2. ThrAlone(req.runs[e], e, m, runs)
            BY <2>4, <6>1 DEF RowSound
          <6> QED
            BY <3>2, <4>1, <4>2, <5>2, <6>1, <6>2 DEF ThrAlone
        <5> QED
          BY <5>1, <5>2
      <4>5. ASSUME ordered2, NEW j \in Month, j < k
            PROVE  /\ runs[j][e] = NULL <=> runs2[j][e] = NULL
                   /\ runs[j][e] # NULL => /\ runs2[j][e].tax = runs[j][e].tax
                                           /\ runs2[j][e].snapshot = runs[j][e].snapshot
        <5>1. CASE j # m
          BY <2>2, <5>1
        <5>2. CASE j = m /\ req.op = "post"
          BY <2>2, <5>2 DEF CarriedOut
        <5>3. CASE j = m /\ req.op # "post"
          <6>1. k > m
            BY <4>5, <5>3, Constants
          <6>2. runs2[m][e] = runs[m][e]
            BY <2>6, <4>1, <4>2, <4>5, <5>3, <6>1
          <6> QED
            BY <5>3, <6>2
        <5> QED
          BY <5>1, <5>2, <5>3
      <4>6. RowSound(row, e, k, runs2, last, ordered2)
        BY <2>5, <4>3, <4>4, <4>5, MovedSound
      <4> QED
        BY <4>2, <4>6
    <3> QED
      BY <3>1, <3>2
  <2>8. ends' = ends
    BY <1>6
  <2> QED
    BY <2>1, <2>7, <2>8
<1>17. PostedSound'
  <2> SUFFICES ASSUME ~ overlapped', NEW k \in Month, NEW e \in Employee
               PROVE  booked'[k][e] = IF period'[k] = "POSTED" /\ run'[k][e] # NULL
                                      THEN <<run'[k][e].net>> ELSE <<>>
    BY DEF PostedSound
  <2>1. booked[k][e] = IF period[k] = "POSTED" /\ run[k][e] # NULL THEN <<run[k][e].net>>
                       ELSE <<>>
    BY <1>14 DEF IInv, PostedSound
  <2>2. CASE k # m
    BY <1>2, <1>3, <1>7, <2>1, <2>2
  <2>3. CASE k = m
    <3>1. period'[m] = req.status /\ period[m] = req.readStatus
      BY <1>2, <1>7, <1>14
    <3>2. PICK row, row2, amounts, amounts2 :
              /\ row = run[m][e] /\ row2 = run'[m][e]
              /\ amounts = booked[m][e] /\ amounts2 = booked'[m][e]
      OBVIOUS
    <3>3. CarriedOut(req, e, row, amounts, row2, amounts2)
      BY <1>15, <3>2
    <3>4. amounts = IF period[m] = "POSTED" /\ row # NULL THEN <<row.net>> ELSE <<>>
      BY <2>1, <2>3, <3>2
    <3>5. CASE req.op = "post"
      <4>1. req.readStatus = "LOCKED" /\ req.status = "POSTED"
        BY <1>2, <3>5 DEF Held, Transition
      <4>2. amounts = <<>>
        BY <3>1, <3>4, <4>1
      <4> QED
        BY <2>3, <3>1, <3>2, <3>3, <3>5, <4>1, <4>2 DEF CarriedOut
    <3>6. CASE req.op # "post"
      <4>1. req.readStatus # "POSTED" /\ req.status # "POSTED"
        BY <1>2, <3>6 DEF Held, Transition
      <4>2. amounts = <<>>
        BY <3>1, <3>4, <4>1
      <4> QED
        BY <2>3, <3>1, <3>2, <3>3, <3>6, <4>1, <4>2 DEF CarriedOut
    <3> QED
      BY <3>5, <3>6
  <2> QED
    BY <2>2, <2>3
<1> QED
  BY <1>10, <1>11, <1>12, <1>13, <1>16, <1>17 DEF IInv

LEMMA NextKeeps == IInv /\ [Next]_vars => IInv'
<1> SUFFICES ASSUME IInv, [Next]_vars
             PROVE  IInv'
  OBVIOUS
<1>1. ASSUME NEW m \in Month, CreatePeriod(m)
      PROVE  IInv'
  BY <1>1, CreateKept
<1>2. ASSUME NEW w \in Worker, NEW m \in Month, CalculatePeriod(w, m)
      PROVE  IInv'
  BY <1>2, CalculateKept
<1>3. ASSUME NEW w \in Worker, NEW m \in Month, LockPeriod(w, m) \/ UnlockPeriod(w, m)
      PROVE  IInv'
  BY <1>3, LockKept
<1>4. ASSUME NEW w \in Worker, NEW m \in Month, PostPeriod(w, m)
      PROVE  IInv'
  BY <1>4, PostKept
<1>5. ASSUME NEW w \in Worker, NEW m \in Month, NEW e \in Employee, AdjustRun(w, m, e)
      PROVE  IInv'
  BY <1>5, AdjustKept
<1>6. ASSUME NEW w \in Worker, Commit(w)
      PROVE  IInv'
  BY <1>6, CommitKept
<1>7. ASSUME NEW w \in Worker, Rollback(w)
      PROVE  IInv'
  BY <1>7, RollbackKept
<1>8. ASSUME NEW e \in Employee, EndEmployment(e)
      PROVE  IInv'
  BY <1>8, EndKept
<1>9. ASSUME NEW w \in Worker, NEW e \in Employee, FindPayslip(w, e)
      PROVE  IInv'
  BY <1>9, FindKept
<1>10. CASE AdministerCostCodes \/ UNCHANGED vars
  <2>1. UNCHANGED <<period, run, booked, ends, orderly, overlapped, request>>
    BY <1>10 DEF AdministerCostCodes, vars, tables
  <2> QED
    BY <2>1 DEF IInv, TablesTyped, RequestsHeld, BookingSound, RunsSound, PostedSound
<1> QED
  BY <1>1, <1>2, <1>3, <1>4, <1>5, <1>6, <1>7, <1>8, <1>9, <1>10 DEF Next

\* The inductive invariant holds in every reachable state of the payroll.
THEOREM Inductive == Spec => []IInv
<1>1. Init => IInv
  BY InitHolds
<1>2. IInv /\ [Next]_vars => IInv'
  BY NextKeeps
<1> QED
  BY <1>1, <1>2, PTL DEF Spec

---------------------------------------------------------------------------
\* The properties of the run.

\* What a session books for a run that was booked before: it loaded the run without an
\* expense and found its payslip.
Rebooks(w, m, e) ==
    /\ request'[w] = Idle
    /\ request[w].op = "post" /\ request[w].month = m
    /\ request[w].readRuns[e].expense = NULL
    /\ request[w].readRuns[e].slip

LEMMA CommitRebooks ==
    ASSUME IInv, NEW w \in Worker, Commit(w), NEW m \in Month, NEW e \in Employee,
           booked'[m][e] # booked[m][e], booked[m][e] # <<>>
    PROVE  Rebooks(w, m, e)
<1>1. PICK req : req = request[w]
  OBVIOUS
<1>2. CommitEffect(req) /\ request' = Overtaken([request EXCEPT ![w] = Idle])
  BY <1>1, CommitWrites
<1>3. req.month = m /\ Held(req) /\ SlipsThere(req, run)
  BY <1>2 DEF CommitEffect
<1>4. PICK current \in Rows, amounts \in Seq(Nat) : current = run[m][e] /\ amounts = booked[m][e]
  BY DEF IInv, TablesTyped
<1>5. PICK row2, amounts2 : row2 = run'[m][e] /\ amounts2 = booked'[m][e]
  OBVIOUS
<1>6. Booking(req, e, current, amounts, row2, amounts2) /\ BookedWith(current, amounts)
  BY <1>2, <1>3, <1>4, <1>5 DEF CommitEffect, IInv, BookingSound
<1>7. req.readRuns[e] # NULL /\ req.readRuns[e].slip => current # NULL /\ current.slip
  BY <1>3, <1>4 DEF SlipsThere
<1>8. req.op = "post" /\ req.readRuns[e].expense = NULL /\ req.readRuns[e].slip
  BY <1>3, <1>4, <1>5, <1>6, <1>7, BookedRow
<1>9. request'[w] = Idle
  BY <1>2 DEF Overtaken, IInv
<1> QED
  BY <1>1, <1>3, <1>8, <1>9 DEF Rebooks

\* Rows keep their types and, whatever sessions post, unlock and recalculate at once, no
\* run's salary is booked as an expense twice, except by a post that loaded the run before
\* another one booked it and looked for its payslip after (post_period).
THEOREM BookedOnceHolds == Spec => BookedOnce
<1>1. IInv => TypeOK
  <2> SUFFICES ASSUME IInv
               PROVE  TypeOK
    OBVIOUS
  <2>1. period \in [Month -> PayrollStatus \cup {NULL}]
    BY DEF IInv, TablesTyped
  <2>2. ASSUME NEW m \in Month, NEW e \in Employee, run[m][e] # NULL
        PROVE  /\ run[m][e] \in PayrollRun
               /\ run[m][e].expense \in 1..Len(booked[m][e]) \cup {NULL}
    <3>1. run[m][e] \in Rows /\ BookedWith(run[m][e], booked[m][e])
      BY DEF IInv, TablesTyped, BookingSound
    <3> QED
      BY <2>2, <3>1 DEF BookedWith, Rows
  <2> QED
    BY <2>1, <2>2 DEF TypeOK
<1>2. ASSUME IInv, Next, NEW m \in Month, NEW e \in Employee,
             booked'[m][e] # booked[m][e], booked[m][e] # <<>>
      PROVE  \E w \in Worker : Rebooks(w, m, e)
  <2>1. PICK w \in Worker : Commit(w)
    <3>1. ASSUME NEW v \in Worker, NEW op, NEW k, NEW status, NEW runs,
                 Handle(v, op, k, status, runs)
          PROVE  UNCHANGED booked
      BY <3>1 DEF Handle, tables
    <3>2. ASSUME NEW v \in Worker, NEW k \in Month,
                 \/ CalculatePeriod(v, k) \/ LockPeriod(v, k) \/ UnlockPeriod(v, k)
                 \/ PostPeriod(v, k) \/ \E f \in Employee : AdjustRun(v, k, f)
          PROVE  UNCHANGED booked
      BY <3>1, <3>2 DEF CalculatePeriod, LockPeriod, UnlockPeriod, PostPeriod, AdjustRun
    <3>3. ASSUME \/ \E k \in Month : CreatePeriod(k)
                 \/ \E v \in Worker : Rollback(v) \/ \E f \in Employee : FindPayslip(v, f)
                 \/ \E f \in Employee : EndEmployment(f)
                 \/ AdministerCostCodes
          PROVE  UNCHANGED booked
      BY <3>3 DEF CreatePeriod, Rollback, FindPayslip, EndEmployment, AdministerCostCodes, tables
    <3> QED
      BY <1>2, <3>2, <3>3 DEF Next
  <2> QED
    BY <1>2, <2>1, CommitRebooks
<1>3. ASSUME IInv, [Next]_vars
      PROVE  [\A m \in Month, e \in Employee :
                  booked'[m][e] # booked[m][e] /\ booked[m][e] # <<>>
                  => \E w \in Worker : Rebooks(w, m, e)]_vars
  BY <1>2, <1>3
<1>4. IInv /\ [Next]_vars
      => [\A m \in Month, e \in Employee :
              booked'[m][e] # booked[m][e] /\ booked[m][e] # <<>>
              => \E w \in Worker :
                     /\ request'[w] = Idle
                     /\ request[w].op = "post" /\ request[w].month = m
                     /\ request[w].readRuns[e].expense = NULL
                     /\ request[w].readRuns[e].slip]_vars
  BY <1>3 DEF Rebooks
<1> QED
  BY <1>1, <1>4, Inductive, PTL DEF Spec, BookedOnce

\* No employee's runs of the year pay the holiday allowance twice, unless commits overlapped.
THEOREM ThrOnceHolds == Spec => []ThrOnce
<1>1. IInv => ThrOnce
  <2> SUFFICES ASSUME IInv, ~ overlapped, NEW e \in Employee
               PROVE  Cardinality({m \in Month : run[m][e] # NULL /\ run[m][e].thr > 0}) <= 1
    BY DEF ThrOnce
  <2> DEFINE paid == {m \in Month : run[m][e] # NULL /\ run[m][e].thr > 0}
  <2>1. \A m \in paid, k \in paid : k = m
    <3>1. \A m \in paid : ThrAlone(run[m][e], e, m, run)
      BY DEF IInv, RunsSound, RowSound
    <3> QED
      BY <3>1 DEF ThrAlone
  <2> HIDE DEF paid
  <2>2. CASE paid = {}
    <3>1. Cardinality(paid) = 0
      BY <2>2, FS_EmptySet
    <3> QED
      BY <3>1 DEF paid
  <2>3. CASE paid # {}
    <3>1. PICK m \in paid : paid = {m}
      BY <2>1, <2>3
    <3>2. Cardinality(paid) = 1
      BY <3>1, FS_Singleton
    <3> QED
      BY <3>2 DEF paid
  <2> QED
    BY <2>2, <2>3
<1> QED
  BY <1>1, Inductive, PTL

\* What the bank file of a posted period pays is what its expenses say, and with the
\* BPJS report, the tax and the manual deductions it makes up the earnings on the payslips.
THEOREM TransferIsBookedHolds == Spec => []TransferIsBooked
<1>1. IInv => TransferIsBooked
  <2> SUFFICES ASSUME IInv, ~ overlapped, NEW m \in Month, period[m] = "POSTED"
               PROVE  LET paid == {e \in Employee : run[m][e] # NULL}
                          manual(row) == row.snapshot.manual_bpjs + row.snapshot.manual_tax
                      IN  /\ export_bank(m)
                             = SumFunction([e \in {e \in Employee : booked[m][e] # <<>>}
                                                |-> booked[m][e][1]])
                          /\ (\A e \in paid : run[m][e].net > 0)
                             => SumFunction([e \in paid |-> get_payslip(run[m][e])])
                                = export_bank(m) + export_bpjs(m)
                                  + SumFunction([e \in paid |->
                                                     run[m][e].tax + manual(run[m][e])])
    BY DEF TransferIsBooked
  <2> DEFINE paid == {e \in Employee : run[m][e] # NULL}
             bpjs(e) == calculate_bpjs(run[m][e].gross)
             listed(e) == bpjs(e).jht_employee + bpjs(e).jp_employee + bpjs(e).kes_employee
             other(e) == run[m][e].tax + (run[m][e].snapshot.manual_bpjs
                                          + run[m][e].snapshot.manual_tax)
             earned == [e \in paid |-> get_payslip(run[m][e])]
             transferred == [e \in paid |-> run[m][e].net]
             contributed == [e \in paid |-> listed(e)]
             withheld == [e \in paid |-> other(e)]
  <2>1. \A e \in Employee :
            booked[m][e] = IF run[m][e] # NULL THEN <<run[m][e].net>> ELSE <<>>
    BY DEF IInv, PostedSound
  <2>2. export_bank(m) = SumFunction(transferred) /\ export_bpjs(m) = SumFunction(contributed)
    BY DEF export_bank, export_bpjs
  <2>3. SumFunction(transferred)
        = SumFunction([e \in {e \in Employee : booked[m][e] # <<>>} |-> booked[m][e][1]])
    <3>1. ASSUME NEW x
          PROVE  <<x>> # <<>> /\ <<x>>[1] = x
      OBVIOUS
    <3>2. \A e \in Employee : booked[m][e] # <<>> <=> run[m][e] # NULL
      BY <2>1, <3>1, Zenon
    <3>3. \A e \in paid : booked[m][e][1] = run[m][e].net
      BY <2>1, <3>1, Zenon
    <3>4. {e \in Employee : booked[m][e] # <<>>} = paid
      BY <3>2
    <3>5. [e \in paid |-> booked[m][e][1]] = transferred
      BY <3>3
    <3> QED
      BY <3>4, <3>5
  <2>4. ASSUME \A e \in paid : run[m][e].net > 0
        PROVE  SumFunction(earned)
               = SumFunction(transferred) + SumFunction(contributed) + SumFunction(withheld)
    <3> DEFINE left == [e \in paid |-> earned[e] - transferred[e]]
    <3>1. ASSUME NEW e \in paid
          PROVE  /\ transferred[e] \in Int /\ contributed[e] \in Int /\ withheld[e] \in Int
                 /\ earned[e] \in Int
                 /\ earned[e] = transferred[e] + contributed[e] + withheld[e]
      <4>0. e \in Employee /\ run[m][e] # NULL
        OBVIOUS
      <4>1. PICK row \in PayrollRun : row = run[m][e]
        <5> HIDE DEF earned, transferred, contributed, withheld, paid, left
        <5> QED
          BY <4>0 DEF IInv, TablesTyped, Rows
      <4>2. NetSound(row)
        <5> HIDE DEF earned, transferred, contributed, withheld, paid, left
        <5> QED
          BY <4>0, <4>1 DEF IInv, RunsSound, RowSound
      <4>3. PICK jht, jp, kes \in Nat :
                /\ jht = calculate_bpjs(row.gross).jht_employee
                /\ jp = calculate_bpjs(row.gross).jp_employee
                /\ kes = calculate_bpjs(row.gross).kes_employee
        BY RowColumns, BpjsType
      <4>4. PICK net, tax, bpjsByHand, taxByHand \in Int :
                /\ net = row.net /\ tax = row.tax
                /\ bpjsByHand = row.snapshot.manual_bpjs
                /\ taxByHand = row.snapshot.manual_tax
        BY RowColumns
      <4>5. net > 0
        BY <2>4, <4>1, <4>4
      <4>6. get_payslip(row) = net + jht + jp + kes + tax + bpjsByHand + taxByHand
        BY <4>2, <4>3, <4>4, <4>5 DEF NetSound
      <4>7. /\ transferred[e] = net /\ contributed[e] = jht + jp + kes
            /\ withheld[e] = tax + (bpjsByHand + taxByHand) /\ earned[e] = get_payslip(row)
        BY <4>1, <4>3, <4>4
      <4> HIDE DEF earned, transferred, contributed, withheld
      <4> QED
        BY ONLY <4>3, <4>4, <4>6, <4>7
    <3>2. /\ DOMAIN earned = paid /\ DOMAIN transferred = paid
          /\ DOMAIN contributed = paid /\ DOMAIN withheld = paid
      OBVIOUS
    <3>3. IsFiniteSet(paid)
      BY EmployeeAssumption, FS_Subset
    <3> HIDE DEF earned, transferred, contributed, withheld, paid
    <3>4. \A e \in paid : /\ left[e] = earned[e] - transferred[e] /\ left[e] \in Int
                          /\ withheld[e] = left[e] - contributed[e]
      BY <3>1
    <3> HIDE DEF left
    <3>5. /\ SumFunctionOnSet(earned, paid) \in Int /\ SumFunctionOnSet(transferred, paid) \in Int
          /\ SumFunctionOnSet(left, paid)
             = SumFunctionOnSet(earned, paid) - SumFunctionOnSet(transferred, paid)
      BY <3>1, <3>3, <3>4, SumOfDifferences
    <3>6. /\ SumFunctionOnSet(left, paid) \in Int /\ SumFunctionOnSet(contributed, paid) \in Int
          /\ SumFunctionOnSet(withheld, paid)
             = SumFunctionOnSet(left, paid) - SumFunctionOnSet(contributed, paid)
      BY <3>1, <3>3, <3>4, SumOfDifferences
    <3>7. /\ SumFunction(earned) = SumFunctionOnSet(earned, paid)
          /\ SumFunction(transferred) = SumFunctionOnSet(transferred, paid)
          /\ SumFunction(contributed) = SumFunctionOnSet(contributed, paid)
          /\ SumFunction(withheld) = SumFunctionOnSet(withheld, paid)
      BY <3>2 DEF SumFunction
    <3> QED
      BY ONLY <3>5, <3>6, <3>7
  <2>5. SumFunction(withheld)
        = SumFunction([e \in paid |-> run[m][e].tax + (run[m][e].snapshot.manual_bpjs
                                                       + run[m][e].snapshot.manual_tax)])
    OBVIOUS
  <2> HIDE DEF transferred, contributed, withheld
  <2> QED
    BY <2>2, <2>3, <2>4, <2>5
<1> QED
  BY <1>1, Inductive, PTL

\* The tax that form 1721-A1 shows for an employee's year, up to a posted final month, is
\* what the year owes on the taxable income and contributions of the runs, unless commits
\* overlapped or an earlier month was calculated again (prior_tax_context).
THEOREM YearReconciledHolds == Spec => []YearReconciled
<1>1. IInv => YearReconciled
  <2> SUFFICES ASSUME IInv, ~ overlapped, orderly, NEW e \in Employee,
                      NEW last, last = IF ends[e] = NULL THEN 12 ELSE ends[e],
                      last \in form_1721(e).months,
                      \A m \in Month : m <= last /\ run[m][e] # NULL
                                       => m \in form_1721(e).months
               PROVE  form_1721(e).pph21
                      = calculate_pph21_annual(
                            SumFunction([m \in form_1721(e).months |-> run[m][e].snapshot.taxable]),
                            PtkpStatus[e],
                            SumFunction([m \in form_1721(e).months
                                             |-> run[m][e].snapshot.contribution]))
    BY DEF YearReconciled
  <2> DEFINE posted == {m \in Month : period[m] = "POSTED" /\ run[m][e] # NULL}
             before == Earlier(e, last, run)
  <2>1. /\ form_1721(e).months = posted
        /\ form_1721(e).pph21 = SumFunction([m \in posted |-> run[m][e].tax])
    BY DEF form_1721
  <2>2. last \in Month /\ run[last][e] # NULL
    BY <2>1
  <2>3. \A m \in Month : run[m][e] # NULL => RowSound(run[m][e], e, m, run, ends, orderly)
    BY DEF IInv, RunsSound
  <2>4. \A m \in Month : run[m][e] # NULL => m <= last
    <3>1. \A m \in Month : run[m][e] # NULL /\ ends[e] # NULL => m <= last
      BY <2>3 DEF RowSound
    <3>2. \A m \in Month : m <= 12
      BY Constants
    <3> QED
      BY <3>1, <3>2
  <2>5. posted = before \cup {last} /\ last \notin before
    <3>1. \A m \in posted : m < last \/ m = last
      BY <2>2, <2>4, Constants
    <3>2. \A m \in before : m <= last /\ m # last
      BY <2>2, Constants DEF Earlier
    <3> QED
      BY <2>1, <2>2, <3>1, <3>2 DEF Earlier
  <2>6. Settling(run[last][e], e, last, run)
    <3>1. last = 12 \/ ends[e] = last
      OBVIOUS
    <3> QED
      BY <2>2, <2>3, <3>1 DEF RowSound
  <2>7. IsFiniteSet(before)
    BY Constants, FS_Subset DEF Earlier
  <2> DEFINE income == [m \in posted |-> run[m][e].snapshot.taxable]
             contributions == [m \in posted |-> run[m][e].snapshot.contribution]
             tax == [m \in posted |-> run[m][e].tax]
             income2 == [m \in before |-> run[m][e].snapshot.taxable]
             contributions2 == [m \in before |-> run[m][e].snapshot.contribution]
             tax2 == [m \in before |-> run[m][e].tax]
  <2>8. \A m \in posted : income[m] \in Int /\ contributions[m] \in Int /\ tax[m] \in Int
    <3> SUFFICES ASSUME NEW m \in posted
                 PROVE  income[m] \in Int /\ contributions[m] \in Int /\ tax[m] \in Int
      OBVIOUS
    <3>1. run[m][e] \in PayrollRun
      BY DEF IInv, TablesTyped, Rows
    <3> QED
      BY <3>1, RowColumns
  <2>9. /\ EarlierIncome(e, last, run) = SumFunction(income2)
        /\ EarlierContributions(e, last, run) = SumFunction(contributions2)
        /\ EarlierTax(e, last, run) = SumFunction(tax2)
    BY DEF EarlierIncome, EarlierContributions, EarlierTax
  <2>10. /\ DOMAIN income = before \cup {last} /\ DOMAIN contributions = before \cup {last}
         /\ DOMAIN tax = before \cup {last} /\ DOMAIN income2 = before
         /\ DOMAIN contributions2 = before /\ DOMAIN tax2 = before
         /\ income[last] = run[last][e].snapshot.taxable
         /\ contributions[last] = run[last][e].snapshot.contribution
         /\ tax[last] = run[last][e].tax
         /\ \A m \in before : /\ income2[m] = income[m] /\ tax2[m] = tax[m]
                              /\ contributions2[m] = contributions[m]
    BY <2>5
  <2>11. \A m \in before \cup {last} :
             income[m] \in Int /\ contributions[m] \in Int /\ tax[m] \in Int
    BY <2>5, <2>8
  <2> HIDE DEF income, contributions, tax, income2, contributions2, tax2, before
  <2>12. SumFunction(income) = income[last] + SumFunction(income2)
    <3>1. OneMore(income, income2, before, last)
      BY <2>5, <2>10, <2>11 DEF OneMore
    <3> QED
      BY <2>7, <3>1, SumOneMore
  <2>13. SumFunction(contributions) = contributions[last] + SumFunction(contributions2)
    <3>1. OneMore(contributions, contributions2, before, last)
      BY <2>5, <2>10, <2>11 DEF OneMore
    <3> QED
      BY <2>7, <3>1, SumOneMore
  <2>14. SumFunction(tax) = tax[last] + SumFunction(tax2)
    <3>1. OneMore(tax, tax2, before, last)
      BY <2>5, <2>10, <2>11 DEF OneMore
    <3> QED
      BY <2>7, <3>1, SumOneMore
  <2>15. /\ EarlierIncome(e, last, run) \in Int
         /\ EarlierContributions(e, last, run) \in Int /\ EarlierTax(e, last, run) \in Int
         /\ income[last] \in Int /\ contributions[last] \in Int /\ tax[last] \in Int
    <3>1. PICK runs \in [Month -> [Employee -> Rows]] : runs = run
      BY DEF IInv, TablesTyped
    <3>2. /\ EarlierIncome(e, last, runs) \in Int
          /\ EarlierContributions(e, last, runs) \in Int /\ EarlierTax(e, last, runs) \in Int
      BY <2>2, EarlierType
    <3> QED
      BY <2>11, <3>1, <3>2
  <2>16. /\ SumFunction(income)
            = EarlierIncome(e, last, run) + run[last][e].snapshot.taxable
         /\ SumFunction(contributions)
            = EarlierContributions(e, last, run) + run[last][e].snapshot.contribution
         /\ SumFunction(tax) = run[last][e].tax + EarlierTax(e, last, run)
    BY <2>9, <2>10, <2>12, <2>13, <2>14, <2>15
  <2>17. /\ SumFunction([m \in form_1721(e).months |-> run[m][e].snapshot.taxable])
            = SumFunction(income)
         /\ SumFunction([m \in form_1721(e).months |-> run[m][e].snapshot.contribution])
            = SumFunction(contributions)
         /\ form_1721(e).pph21 = SumFunction(tax)
    BY <2>1 DEF income, contributions, tax
  <2> QED
    BY <2>6, <2>16, <2>17 DEF Settling
<1> QED
  BY <1>1, Inductive, PTL

---------------------------------------------------------------------------
\* The tax of every run fits its column.
AmountsFit ==
    \A m \in Month, e \in Employee : run[m][e] # NULL => run[m][e].tax <= LargestAmount

\* A grossed-up run pays the employee the whole tax (calculate_pph21_gross_up and
\* calculate_pph21_final_gross_up), whatever the salaries, as long as the taxes are
\* amounts of the columns.
THEOREM GrossUpCoversHolds == Spec => [](AmountsFit => GrossUpCovers)
<1>1. IInv /\ AmountsFit => GrossUpCovers
  <2> SUFFICES ASSUME IInv, AmountsFit, ~ overlapped, NEW m \in Month, NEW e \in Employee,
                      run[m][e] # NULL, run[m][e].method = "GROSS_UP"
               PROVE  run[m][e].snapshot.allowance = Larger(0, run[m][e].tax)
    BY DEF GrossUpCovers
  <2>1. RowSound(run[m][e], e, m, run, ends, orderly)
    BY DEF IInv, RunsSound
  <2>2. run[m][e].tax <= LargestAmount
    BY DEF AmountsFit
  <2> QED
    BY <2>1, <2>2 DEF RowSound, Covered
<1> QED
  BY <1>1, Inductive, PTL

---------------------------------------------------------------------------
\* One handler at a time: while one is at work, nothing happens but its own queries, its
\* commit or its rollback.
Serially ==
    \A w \in Worker : request[w] # Idle =>
        \/ request'[w] = Idle
        \/ \E e \in Employee : FindPayslip(w, e)

NobodyLate == ~ overlapped /\ \A w \in Worker : request[w] # Idle => ~ request[w].late

LEMMA NobodyLateKept ==
    ASSUME IInv, NobodyLate, [Next]_vars, [Serially]_vars
    PROVE  NobodyLate'
<1>1. CASE UNCHANGED vars
  BY <1>1 DEF vars, tables, NobodyLate
<1> SUFFICES ASSUME Next, Serially
             PROVE  NobodyLate'
  BY <1>1
<1>8. ASSUME NEW w \in Worker, NEW e \in Employee, FindPayslip(w, e)
      PROVE  request'[w] # Idle /\ NobodyLate'
  <2>1. PICK req : req = request[w]
    OBVIOUS
  <2>2. PICK there, req2 :
            /\ there \in BOOLEAN /\ req2 = Found(req, e, there)
            /\ request' = [request EXCEPT ![w] = req2]
    <3>1. (run[req.month][e] # NULL /\ run[req.month][e].slip) \in BOOLEAN
      OBVIOUS
    <3> QED
      BY <1>8, <2>1, <3>1 DEF FindPayslip, Found
  <2>3. Seeks(req, e) /\ overlapped' = overlapped
    BY <1>8, <2>1 DEF FindPayslip, tables, Seeks
  <2>4. req # Idle
    BY <2>3 DEF Idle, Seeks
  <2>5. Held(req) /\ ~ req.late
    BY <2>1, <2>4 DEF IInv, RequestsHeld, NobodyLate
  <2>6. Held(req2) /\ req2.late = req.late
    BY <2>2, <2>3, <2>5, FoundHeld
  <2>7. req2 # Idle
    BY <2>6 DEF Held, Transition, Idle
  <2>8. request'[w] = req2 /\ \A v \in Worker : v # w => request'[v] = request[v]
    BY <2>2 DEF IInv
  <2> QED
    BY <2>3, <2>5, <2>6, <2>7, <2>8 DEF NobodyLate
<1>2. ASSUME NEW w \in Worker, NEW op, NEW m, NEW status, NEW runs,
             Handle(w, op, m, status, runs)
      PROVE  NobodyLate'
  <2>1. PICK req : ~ req.late /\ request' = [request EXCEPT ![w] = req]
    BY <1>2, Zenon DEF Handle
  <2>2. request'[w] = req /\ \A v \in Worker : v # w => request'[v] = request[v]
    BY <2>1 DEF IInv
  <2>3. overlapped' = overlapped
    BY <1>2 DEF Handle, tables
  <2> QED
    BY <2>1, <2>2, <2>3 DEF NobodyLate
<1>3. ASSUME \/ \E m \in Month : CreatePeriod(m)
             \/ AdministerCostCodes
      PROVE  NobodyLate'
  BY <1>3 DEF CreatePeriod, AdministerCostCodes, NobodyLate
<1>4. ASSUME NEW w \in Worker, Commit(w)
      PROVE  NobodyLate'
  <2>1. /\ request[w] # Idle /\ overlapped' = (overlapped \/ request[w].late)
        /\ request' = Overtaken([request EXCEPT ![w] = Idle])
    BY <1>4 DEF Commit
  <2>2. ~ overlapped'
    BY <2>1 DEF NobodyLate
  <2>3. \A v \in Worker : request[v] = Idle => request'[v] = Idle
    BY <2>1 DEF Overtaken
  <2>4. \A v \in Worker, e \in Employee : ~ FindPayslip(v, e)
    <3> SUFFICES ASSUME NEW v \in Worker, NEW e \in Employee, FindPayslip(v, e)
                 PROVE  FALSE
      OBVIOUS
    <3>1. v # w
      <4>1. request'[w] = Idle
        BY <2>1 DEF Overtaken, IInv
      <4> QED
        BY <1>8, <4>1
    <3>2. request'[w] = request[w]
      BY <3>1 DEF FindPayslip
    <3> QED
      BY <2>1, <3>2 DEF Overtaken, IInv
  <2>5. \A v \in Worker : request'[v] = Idle
    BY <2>3, <2>4 DEF Serially
  <2> QED
    BY <2>2, <2>5 DEF NobodyLate
<1>5. ASSUME NEW w \in Worker, Rollback(w)
      PROVE  NobodyLate'
  BY <1>5 DEF Rollback, NobodyLate, tables, IInv
<1>6. ASSUME NEW e \in Employee, EndEmployment(e)
      PROVE  NobodyLate'
  <2>1. request' = Overtaken(request) /\ overlapped' = overlapped
    BY <1>6 DEF EndEmployment
  <2>2. \A v \in Worker : request[v] = Idle => request'[v] = Idle
    BY <2>1 DEF Overtaken
  <2>3. \A v \in Worker, f \in Employee : ~ FindPayslip(v, f)
    <3>1. ends' # ends
      BY <1>6, Constants DEF EndEmployment, IInv, TablesTyped
    <3> QED
      BY <3>1 DEF FindPayslip, tables
  <2>4. \A v \in Worker : request'[v] = Idle
    BY <2>2, <2>3 DEF Serially
  <2> QED
    BY <2>1, <2>4 DEF NobodyLate
<1>7. ASSUME NEW w \in Worker, NEW m \in Month,
             \/ CalculatePeriod(w, m) \/ LockPeriod(w, m) \/ UnlockPeriod(w, m)
             \/ PostPeriod(w, m) \/ \E e \in Employee : AdjustRun(w, m, e)
      PROVE  NobodyLate'
  BY <1>2, <1>7 DEF CalculatePeriod, LockPeriod, UnlockPeriod, PostPeriod, AdjustRun
<1> QED
  BY <1>3, <1>4, <1>5, <1>6, <1>7, <1>8 DEF Next

\* ThrOnce and the bank file of TransferIsBooked without their exception.
PayrollAgrees ==
    /\ \A e \in Employee :
           Cardinality({m \in Month : run[m][e] # NULL /\ run[m][e].thr > 0}) <= 1
    /\ \A m \in Month : period[m] = "POSTED" =>
           export_bank(m) = SumFunction([e \in {e \in Employee : booked[m][e] # <<>>}
                                             |-> booked[m][e][1]])

\* What the properties except is the overlap of handlers and nothing else: one at a time,
\* the holiday allowance is paid once and the bank file pays what was booked, always
\* (_ensure_thr_not_duplicated, post_period).
THEOREM SerialPayrollAgrees == Spec /\ [][Serially]_vars => []PayrollAgrees
<1>1. Init => NobodyLate
  BY DEF Init, NobodyLate
<1>3. IInv /\ NobodyLate /\ [Next]_vars /\ [Serially]_vars => NobodyLate'
  BY NobodyLateKept
<1>4. ThrOnce /\ TransferIsBooked /\ NobodyLate => PayrollAgrees
  BY DEF NobodyLate, ThrOnce, TransferIsBooked, PayrollAgrees
<1> QED
  BY <1>1, <1>3, <1>4, Inductive, ThrOnceHolds, TransferIsBookedHolds, PTL DEF Spec
===============================================================================
