-------------------------- MODULE ProjectLedgerProofs --------------------------
(***************************************************************************)
(* Proofs about ProjectLedger, for any projects, receivables, items,       *)
(* tables, users and workers.                                              *)
(***************************************************************************)
EXTENDS ProjectLedger, FiniteSetTheorems, WellFoundedInduction, TLAPS

---------------------------------------------------------------------------
\* The inductive invariant: what a worker that is about to commit holds in hand.

InvoiceOps == {"insert", "update", "delete"}
ItemOps == {"move", "activate"}

Row(row, type) == row = NULL \/ row \in type

\* The remainder shown, the payment and the confirmation of a receivable agree.
Coherent(row) ==
    /\ PaidAmount(row.actual_payment) <= row.amount
    /\ row.remaining_amount = Outstanding(row)
    /\ row.confirmed_by # NULL <=> row.status = "confirmed"

\* What a handler made of the receivable it loaded.
InvoiceChange(req) ==
    /\ req.id \in Receivable
    /\ Row(req.read, AccountReceivable)
    /\ Row(req.new, AccountReceivable)
    /\ req.op = "insert" => req.read = NULL /\ req.new # NULL /\ req.new.status = "draft"
    /\ req.op = "update" =>
           /\ req.read # NULL
           /\ req.new # NULL
           /\ req.read.status = "confirmed" =>
                  /\ req.new.project = req.read.project
                  /\ req.new.amount = req.read.amount
                  /\ req.new.status = "confirmed"
    /\ req.op = "delete" => req.read # NULL /\ req.read.status = "draft" /\ req.new = NULL

\* What a handler made of the item it loaded.
ItemChange(req) ==
    /\ req.id \in Item
    /\ req.read \in InventoryItem
    /\ req.new \in InventoryItem
    /\ req.op = "move" =>
           /\ req.txn \in InventoryTxn
           /\ req.txn.txn_type # "opening"
           /\ req.read.is_active
           /\ req.new = [req.read EXCEPT !.qty_on_hand = Apply(@, req.txn)]
    /\ req.op = "activate" =>
           /\ req.new.qty_on_hand = req.read.qty_on_hand
           /\ req.new.is_active \/ req.read.qty_on_hand = 0

RequestsTyped ==
    \A w \in Worker :
        \/ request[w] = Idle
        \/ request[w].op \in InvoiceOps /\ InvoiceChange(request[w])
        \/ /\ request[w].op \in ItemOps
           /\ ItemChange(request[w])
           /\ item[request[w].id] # NULL
        \/ request[w].op = "delete_project" /\ request[w].project \in ProjectCode

TablesTyped ==
    /\ project \in [ProjectCode -> Project \cup {NULL}]
    /\ receivable \in [Receivable -> AccountReceivable \cup {NULL}]
    /\ item \in [Item -> InventoryItem \cup {NULL}]
    /\ movements \in [Item -> Seq(InventoryTxn)]
    /\ references \subseteq ReferringTable \X ProjectCode
    /\ DOMAIN request = Worker

\* A receivable is inserted once: two handlers never hold the same new id.
IdsFresh ==
    /\ IsFiniteSet(created)
    /\ \A r \in Receivable : receivable[r] # NULL => r \in created
    /\ \A w \in Worker : request[w].op = "insert" =>
           /\ request[w].id \notin created
           /\ \A v \in Worker \ {w} :
                  request[v].op = "insert" => request[v].id # request[w].id
    /\ \A w \in Worker : request[w].op \in {"update", "delete"} => request[w].id \in created

\* Unless another session wrote it meanwhile, a receivable in hand is coherent.
RowsCoherent ==
    /\ \A r \in Receivable \ overlapped : receivable[r] # NULL => Coherent(receivable[r])
    /\ \A w \in Worker : LET req == request[w] IN
           req.op \in InvoiceOps /\ req.id \notin overlapped =>
               /\ req.read # NULL => Coherent(req.read)
               /\ req.new # NULL => Coherent(req.new)

\* The movements of an item start with the opening count.
Opened ==
    \A i \in Item : item[i] # NULL =>
        /\ Len(movements[i]) > 0
        /\ movements[i][1].txn_type = "opening"

IInv ==
    /\ TablesTyped
    /\ RequestsTyped
    /\ IdsFresh
    /\ RowsCoherent
    /\ Opened
    /\ StockMatchesMovements

---------------------------------------------------------------------------
\* Rows: what a commit writes has the type of the row, and is the row in hand unless
\* another session changed it.

LEMMA InvoiceWritten ==
    ASSUME NEW req, InvoiceChange(req), req.op \in InvoiceOps,
           NEW current, Row(current, AccountReceivable), ~ Misses(current, req.read, req.new)
    PROVE  LET row == Written(current, req.read, req.new)
           IN  /\ Row(row, AccountReceivable)
               /\ current = req.read => row = req.new
               /\ current # NULL /\ req.op = "update" /\ req.read.status = "confirmed" =>
                      /\ row # NULL
                      /\ row.project = current.project
                      /\ row.amount = current.amount
                      /\ row.status = current.status
<1> DEFINE row == Written(current, req.read, req.new)
<1>1. CASE req.read = NULL \/ req.new = NULL
  BY <1>1, ReceivableAssumption DEF InvoiceChange, InvoiceOps, Row, Written, Misses
<1>2. CASE req.read # NULL /\ req.new # NULL /\ req.read = req.new
  BY <1>2 DEF InvoiceChange, InvoiceOps, Row, Written
<1>3. CASE req.read # NULL /\ req.new # NULL /\ req.read # req.new
  <2>1. /\ row = Merged(current, req.read, req.new)
        /\ current \in AccountReceivable
        /\ req.read \in AccountReceivable
        /\ req.new \in AccountReceivable
        /\ req.op = "update"
    BY <1>3, ReceivableAssumption DEF Written, Misses, Row, InvoiceChange, InvoiceOps
  <2>2. row \in AccountReceivable
    BY <2>1 DEF Merged, AccountReceivable
  <2>3. current = req.read => row = req.new
    BY <2>1 DEF Merged, AccountReceivable
  <2>4. req.read.status = "confirmed" =>
            /\ row.project = current.project
            /\ row.amount = current.amount
            /\ row.status = current.status
    BY <1>3, <2>1 DEF Merged, AccountReceivable, InvoiceChange
  <2> QED
    BY <2>2, <2>3, <2>4, ReceivableAssumption DEF Row
<1> QED
  BY <1>1, <1>2, <1>3

LEMMA ItemWritten ==
    ASSUME NEW req, ItemChange(req), NEW current \in InventoryItem
    PROVE  /\ Merged(current, req.read, req.new) \in InventoryItem
           /\ current = req.read => Merged(current, req.read, req.new) = req.new
  BY DEF ItemChange, Merged, InventoryItem

\* Nothing in the handlers' ways to change a receivable spoils it.
LEMMA InvoiceFacts ==
    ASSUME NEW p \in ProjectCode, NEW amount \in Invoiced, NEW payment \in Payments \cup {NULL},
           PaidAmount(payment) <= amount
    PROVE  /\ Invoice(p, amount, payment) \in AccountReceivable
           /\ Coherent(Invoice(p, amount, payment))
           /\ \A row \in AccountReceivable :
                  /\ Edited(row, p, amount, payment) \in AccountReceivable
                  /\ Edited(row, p, amount, payment).status = row.status
                  /\ Edited(row, p, amount, payment).project = p
                  /\ Edited(row, p, amount, payment).amount = amount
                  /\ Coherent(row) => Coherent(Edited(row, p, amount, payment))
<1>1. amount \in Nat /\ PaidAmount(payment) \in Nat /\ amount - PaidAmount(payment) \in Nat
  BY InvoiceAssumption DEF PaidAmount
<1>2. Invoice(p, amount, payment) \in AccountReceivable
  BY <1>1 DEF Invoice, AccountReceivable
<1>3. Coherent(Invoice(p, amount, payment))
  BY <1>1 DEF Invoice, Coherent, Outstanding
<1>4. ASSUME NEW row \in AccountReceivable
      PROVE  LET new == Edited(row, p, amount, payment)
             IN  /\ new \in AccountReceivable
                 /\ new.status = row.status
                 /\ new.project = p
                 /\ new.amount = amount
                 /\ new.actual_payment = payment
                 /\ new.remaining_amount = amount - PaidAmount(payment)
                 /\ new.confirmed_by = row.confirmed_by
  BY <1>1 DEF Edited, AccountReceivable
<1>5. ASSUME NEW row \in AccountReceivable, Coherent(row)
      PROVE  Coherent(Edited(row, p, amount, payment))
  <2> HIDE DEF Edited
  <2> QED
    BY <1>1, <1>4, <1>5 DEF Coherent, Outstanding
<1> QED
  BY <1>2, <1>3, <1>4, <1>5

LEMMA AmountsAreNumbers ==
    ASSUME NEW row \in AccountReceivable
    PROVE  row.amount \in Int /\ PaidAmount(row.actual_payment) \in Int
<1>1. row.amount \in Invoiced /\ row.actual_payment \in Payments \cup {NULL}
  BY DEF AccountReceivable
<1>2. \A amount \in Invoiced : amount \in Int
  BY InvoiceAssumption
<1>3. \A payment \in Payments \cup {NULL} : PaidAmount(payment) \in Int
  BY InvoiceAssumption DEF PaidAmount
<1> QED
  BY <1>1, <1>2, <1>3, Zenon

LEMMA ConfirmedFacts ==
    ASSUME NEW row \in AccountReceivable, NEW actor \in User
    PROVE  /\ Confirmed(row, actor) \in AccountReceivable
           /\ Coherent(row) => Coherent(Confirmed(row, actor))
<1> DEFINE new == Confirmed(row, actor)
<1>1. /\ new \in AccountReceivable
      /\ new.amount = row.amount
      /\ new.actual_payment = row.actual_payment
      /\ new.remaining_amount = row.remaining_amount
      /\ new.status = "confirmed"
      /\ new.confirmed_by = actor
  BY DEF Confirmed, AccountReceivable
<1>2. actor # NULL
  BY StaffAssumption
<1> HIDE DEF new
<1> QED
  BY <1>1, <1>2 DEF Coherent, Outstanding, new

LEMMA ApplyType ==
    ASSUME NEW row \in InventoryItem, NEW txn \in InventoryTxn, MayMove(row, txn)
    PROVE  Apply(row.qty_on_hand, txn) \in Nat
  BY DEF InventoryItem, InventoryTxn, MayMove, Apply

---------------------------------------------------------------------------
\* Numbers and finite sets have least members: induction for what follows.

\* Every set of numbers that is not empty has a least one.
LEMMA LeastNumber ==
    ASSUME NEW T \in SUBSET Nat, T # {}
    PROVE  \E n \in T : \A m \in T : n <= m
<1> DEFINE less == {ss \in Nat \X Nat : ss[1] < ss[2]}
<1>1. IsWellFoundedOn(less, Nat)
  BY NatLessThanWellFounded DEF OpToRel
<1>2. PICK n \in T : \A m \in T : <<m, n>> \notin less
  BY <1>1, WFMin
<1>3. \A m \in T : ~ (m < n)
  BY <1>2
<1> QED
  BY <1>3

\* Every family of subsets of a finite set that is not empty has a smallest member.
LEMMA SmallestSet ==
    ASSUME NEW S, IsFiniteSet(S), NEW T \in SUBSET SUBSET S, T # {}
    PROVE  \E s \in T : \A t \in T : t \subseteq s => t = s
<1> DEFINE sizes == {Cardinality(s) : s \in T}
<1>1. \A s \in T : IsFiniteSet(s) /\ Cardinality(s) \in Nat
  BY FS_Subset, FS_CardinalityType
<1>2. PICK n \in sizes : \A m \in sizes : n <= m
  <2>1. sizes \in SUBSET Nat /\ sizes # {}
    BY <1>1
  <2> HIDE DEF sizes
  <2> QED
    BY <2>1, LeastNumber
<1>3. PICK s \in T : n = Cardinality(s)
  BY <1>2
<1>4. ASSUME NEW t \in T, t \subseteq s
      PROVE  t = s
  <2>1. Cardinality(t) <= Cardinality(s) /\ (Cardinality(s) = Cardinality(t) => s = t)
    BY <1>1, <1>4, FS_Subset
  <2>2. Cardinality(s) <= Cardinality(t)
    BY <1>2, <1>3
  <2> QED
    BY <1>1, <2>1, <2>2
<1> QED
  BY <1>4

---------------------------------------------------------------------------
\* Sums over finite sets: SumFunctionOnSet, one member at a time.

Picked(s) == CHOOSE x \in s : TRUE

IsSum(sum, val, S) ==
    sum = [s \in SUBSET S |-> IF s = {} THEN 0 ELSE val[Picked(s)] + sum[s \ {Picked(s)}]]

LEMMA SumUnique ==
    ASSUME NEW val, NEW S, NEW T, NEW f, NEW g, IsSum(f, val, S), IsSum(g, val, T),
           NEW u \in SUBSET (S \cap T), IsFiniteSet(u)
    PROVE  f[u] = g[u]
<1> DEFINE differ == {s \in SUBSET u : f[s] # g[s]}
<1> SUFFICES ASSUME differ # {} PROVE FALSE
  BY u \in SUBSET u
<1>1. PICK s \in differ : \A t \in differ : t \subseteq s => t = s
  <2>1. differ \in SUBSET SUBSET u
    OBVIOUS
  <2> HIDE DEF differ
  <2> QED
    BY <2>1, SmallestSet
<1>2. /\ f[s] = IF s = {} THEN 0 ELSE val[Picked(s)] + f[s \ {Picked(s)}]
      /\ g[s] = IF s = {} THEN 0 ELSE val[Picked(s)] + g[s \ {Picked(s)}]
  BY DEF IsSum
<1>3. s # {} /\ Picked(s) \in s
  BY <1>1, <1>2 DEF Picked
<1>4. f[s \ {Picked(s)}] = g[s \ {Picked(s)}]
  BY <1>1, <1>3
<1> QED
  BY <1>1, <1>2, <1>3, <1>4

LEMMA SumExists ==
    ASSUME NEW S, IsFiniteSet(S), NEW val
    PROVE  \E sum : IsSum(sum, val, S)
<1> DEFINE missing == {s \in SUBSET S : ~ \E sum : IsSum(sum, val, s)}
<1> SUFFICES ASSUME missing # {} PROVE FALSE
  BY S \in SUBSET S
<1>1. PICK s \in missing : \A t \in missing : t \subseteq s => t = s
  <2>1. missing \in SUBSET SUBSET S
    OBVIOUS
  <2> HIDE DEF missing
  <2> QED
    BY <2>1, SmallestSet
<1> DEFINE Of(t) == (CHOOSE sum : IsSum(sum, val, t))[t]
           whole == [t \in SUBSET s |-> IF t = {} THEN 0
                                         ELSE val[Picked(t)] + Of(t \ {Picked(t)})]
<1>2. ASSUME NEW t \in SUBSET s, t # s
      PROVE  IsSum(CHOOSE sum : IsSum(sum, val, t), val, t)
  BY <1>1, <1>2
<1>3. ASSUME NEW t \in SUBSET s, t # s
      PROVE  whole[t] = Of(t)
  <2> DEFINE sum == CHOOSE h : IsSum(h, val, t)
             rest == t \ {Picked(t)}
             less == CHOOSE h : IsSum(h, val, rest)
  <2>1. IsSum(sum, val, t)
    BY <1>2, <1>3
  <2>2. sum[t] = IF t = {} THEN 0 ELSE val[Picked(t)] + sum[rest]
    <3> HIDE DEF sum
    <3> QED
      BY <2>1 DEF IsSum
  <2>3. t # {} => sum[rest] = less[rest]
    <3>1. rest \in SUBSET s /\ rest # s /\ IsFiniteSet(rest)
      BY <1>1, <1>3, FS_Subset
    <3>2. IsSum(less, val, rest)
      BY <1>2, <3>1
    <3> HIDE DEF sum, less
    <3> QED
      BY <2>1, <3>1, <3>2, SumUnique
  <2> QED
    BY <2>2, <2>3
<1>4. ASSUME NEW t \in SUBSET s, t # {}
      PROVE  /\ t \ {Picked(t)} \in SUBSET s
             /\ t \ {Picked(t)} # s
  BY <1>4 DEF Picked
<1>5. \A t \in SUBSET s : t # {} => whole[t \ {Picked(t)}] = Of(t \ {Picked(t)})
  <2> HIDE DEF whole, Of
  <2> QED
    BY <1>3, <1>4
<1>6. IsSum(whole, val, s)
  <2> HIDE DEF Of
  <2>1. whole = [t \in SUBSET s |-> IF t = {} THEN 0
                                    ELSE val[Picked(t)] + whole[t \ {Picked(t)}]]
    BY <1>5
  <2> HIDE DEF whole
  <2> QED
    BY <2>1 DEF IsSum
<1> QED
  BY <1>1, <1>6

LEMMA SumStep ==
    ASSUME NEW S, IsFiniteSet(S), NEW val
    PROVE  /\ S = {} => SumFunctionOnSet(val, S) = 0
           /\ S # {} => /\ Picked(S) \in S
                        /\ SumFunctionOnSet(val, S)
                           = val[Picked(S)] + SumFunctionOnSet(val, S \ {Picked(S)})
<1> DEFINE Sum(T) == CHOOSE g : IsSum(g, val, T)
           rest == S \ {Picked(S)}
<1>1. \A T : SumFunctionOnSet(val, T) = Sum(T)[T]
  BY Zenon DEF SumFunctionOnSet, FoldFunctionOnSet, MapThenFoldSet, IsSum, Picked
<1>2. IsFiniteSet(rest)
  BY FS_Subset
<1>3. IsSum(Sum(S), val, S) /\ IsSum(Sum(rest), val, rest)
  BY <1>2, SumExists
<1> HIDE DEF Sum
<1>4. Sum(S)[S] = IF S = {} THEN 0 ELSE val[Picked(S)] + Sum(S)[rest]
  BY <1>3 DEF IsSum
<1>5. Sum(S)[rest] = Sum(rest)[rest]
  BY <1>2, <1>3, SumUnique
<1>6. S # {} => Picked(S) \in S
  BY DEF Picked
<1> QED
  BY <1>1, <1>4, <1>5, <1>6

\* The sum of differences is the difference of the sums.
LEMMA SumOfDifferences ==
    ASSUME NEW S, IsFiniteSet(S), NEW f, NEW g, NEW h,
           \A x \in S : f[x] \in Int /\ g[x] \in Int /\ h[x] = f[x] - g[x]
    PROVE  /\ SumFunctionOnSet(f, S) \in Int
           /\ SumFunctionOnSet(g, S) \in Int
           /\ SumFunctionOnSet(h, S) = SumFunctionOnSet(f, S) - SumFunctionOnSet(g, S)
<1> DEFINE Holds(s) == /\ SumFunctionOnSet(f, s) \in Int
                       /\ SumFunctionOnSet(g, s) \in Int
                       /\ SumFunctionOnSet(h, s) = SumFunctionOnSet(f, s) - SumFunctionOnSet(g, s)
           wrong == {s \in SUBSET S : ~ Holds(s)}
<1> SUFFICES ASSUME wrong # {} PROVE FALSE
  BY S \in SUBSET S
<1>1. PICK s \in wrong : \A t \in wrong : t \subseteq s => t = s
  <2>1. wrong \in SUBSET SUBSET S
    OBVIOUS
  <2> HIDE DEF wrong
  <2> QED
    BY <2>1, SmallestSet
<1> DEFINE rest == s \ {Picked(s)}
<1>2. IsFiniteSet(s)
  BY FS_Subset
<1>3. s # {}
  <2>1. s = {} => /\ SumFunctionOnSet(f, s) = 0
                  /\ SumFunctionOnSet(g, s) = 0
                  /\ SumFunctionOnSet(h, s) = 0
    BY <1>2, SumStep
  <2> QED
    BY <1>1, <2>1
<1>4. /\ Picked(s) \in s
      /\ SumFunctionOnSet(f, s) = f[Picked(s)] + SumFunctionOnSet(f, rest)
      /\ SumFunctionOnSet(g, s) = g[Picked(s)] + SumFunctionOnSet(g, rest)
      /\ SumFunctionOnSet(h, s) = h[Picked(s)] + SumFunctionOnSet(h, rest)
  BY <1>2, <1>3, SumStep
<1>5. Holds(rest)
  <2>1. rest \in SUBSET S /\ rest \subseteq s /\ rest # s
    BY <1>4
  <2> HIDE DEF Holds, rest
  <2> QED
    BY <1>1, <2>1
<1>6. Picked(s) \in S
  BY <1>4
<1> HIDE DEF rest
<1> QED
  BY <1>1, <1>4, <1>5, <1>6

---------------------------------------------------------------------------
\* What movements add up to: Recorded, one movement at a time.

Counts(txns) == {k \in DOMAIN txns : txns[k].txn_type \in {"opening", "adjustment"}}

LastCount(txns) == CHOOSE k \in Counts(txns) : \A other \in Counts(txns) : other <= k

\* The stock after movement k, and after each of the first n.
StockAt(total, txns, k) ==
    IF k <= LastCount(txns) THEN txns[LastCount(txns)].quantity
    ELSE IF txns[k].txn_type = "in" THEN total[k - 1] + txns[k].quantity
    ELSE total[k - 1] - txns[k].quantity

IsTotal(total, txns, n) == total = [k \in 0..n |-> StockAt(total, txns, k)]

HasOpening(txns) ==
    /\ txns \in Seq(InventoryTxn)
    /\ Len(txns) > 0
    /\ txns[1].txn_type = "opening"

LEMMA LastCountFacts ==
    ASSUME NEW txns, HasOpening(txns)
    PROVE  /\ LastCount(txns) \in Counts(txns)
           /\ \A other \in Counts(txns) : other <= LastCount(txns)
           /\ LastCount(txns) \in 1..Len(txns)
<1> DEFINE after == {Len(txns) - k : k \in Counts(txns)}
<1>1. Counts(txns) \subseteq 1..Len(txns) /\ 1 \in Counts(txns)
  BY DEF HasOpening, Counts
<1>2. after \in SUBSET Nat /\ after # {}
  BY <1>1 DEF HasOpening
<1> HIDE DEF after
<1>3. PICK n \in after : \A m \in after : n <= m
  BY <1>2, LeastNumber
<1>4. PICK k \in Counts(txns) : n = Len(txns) - k
  BY <1>3 DEF after
<1>5. ASSUME NEW other \in Counts(txns)
      PROVE  other <= k
  <2>1. Len(txns) - other \in after
    BY DEF after
  <2> QED
    BY <1>1, <1>3, <1>4, <2>1 DEF HasOpening
<1>6. /\ LastCount(txns) \in Counts(txns)
      /\ \A other \in Counts(txns) : other <= LastCount(txns)
  BY <1>5, Zenon DEF LastCount
<1> QED
  BY <1>1, <1>6

LEMMA TotalExists ==
    ASSUME NEW txns, HasOpening(txns)
    PROVE  \A n \in 0..Len(txns) : \E total : IsTotal(total, txns, n)
<1> DEFINE missing == {n \in 0..Len(txns) : ~ \E total : IsTotal(total, txns, n)}
<1> SUFFICES ASSUME missing # {} PROVE FALSE
  OBVIOUS
<1>1. missing \in SUBSET Nat /\ Len(txns) \in Nat
  BY DEF HasOpening
<1>2. PICK n \in missing : \A m \in missing : n <= m
  <2> HIDE DEF missing
  <2> QED
    BY <1>1, LeastNumber
<1>3. n # 0
  <2> DEFINE total == [k \in 0..0 |-> txns[LastCount(txns)].quantity]
  <2>1. 0 <= LastCount(txns)
    BY LastCountFacts
  <2>2. IsTotal(total, txns, 0)
    BY <2>1 DEF IsTotal, StockAt
  <2> QED
    BY <1>2, <2>2
<1>4. PICK total : IsTotal(total, txns, n - 1)
  BY <1>1, <1>2, <1>3
<1> DEFINE extended == [k \in 0..n |-> IF k = n THEN StockAt(total, txns, n) ELSE total[k]]
<1>5. n \in 1..Len(txns) /\ LastCount(txns) \in Nat
  BY <1>1, <1>2, <1>3, LastCountFacts
<1>6. ASSUME NEW k \in 0..n
      PROVE  extended[k] = StockAt(extended, txns, k)
  <2>1. k <= LastCount(txns) \/ k - 1 \in 0..n - 1
    BY <1>1, <1>5
  <2>2. k - 1 \in 0..n - 1 => extended[k - 1] = total[k - 1]
    BY <1>1, <1>5
  <2>3. extended[k] = StockAt(total, txns, k)
    BY <1>1, <1>4, <1>5 DEF IsTotal
  <2> HIDE DEF extended
  <2> QED
    BY <2>1, <2>2, <2>3 DEF StockAt
<1>7. IsTotal(extended, txns, n)
  BY <1>6 DEF IsTotal
<1> QED
  BY <1>2, <1>7

LEMMA TotalUnique ==
    ASSUME NEW txns, HasOpening(txns), NEW n \in Nat, NEW f, NEW g,
           IsTotal(f, txns, n), IsTotal(g, txns, n)
    PROVE  f = g
<1> DEFINE differ == {k \in 0..n : f[k] # g[k]}
<1>1. differ = {}
  <2> SUFFICES ASSUME differ # {} PROVE FALSE
    OBVIOUS
  <2>1. PICK k \in differ : \A m \in differ : k <= m
    <3>1. differ \in SUBSET Nat
      OBVIOUS
    <3> HIDE DEF differ
    <3> QED
      BY <3>1, LeastNumber
  <2>2. f[k] = StockAt(f, txns, k) /\ g[k] = StockAt(g, txns, k)
    BY <2>1 DEF IsTotal
  <2>3. k > LastCount(txns) /\ k - 1 \in 0..n
    BY <2>1, <2>2, LastCountFacts DEF StockAt
  <2>4. f[k - 1] = g[k - 1]
    BY <2>1, <2>3
  <2> QED
    BY <2>1, <2>2, <2>4 DEF StockAt
<1> QED
  BY <1>1 DEF IsTotal

LEMMA RecordedIsTotal ==
    ASSUME NEW txns, HasOpening(txns), NEW g, IsTotal(g, txns, Len(txns))
    PROVE  Recorded(txns) = g[Len(txns)]
<1> DEFINE Total == CHOOSE f : f = [k \in 0..Len(txns) |-> StockAt(f, txns, k)]
<1>1. Recorded(txns) = Total[Len(txns)]
  BY Zenon DEF Recorded, LastCount, Counts, StockAt
<1>2. IsTotal(Total, txns, Len(txns))
  BY Zenon DEF IsTotal
<1> HIDE DEF Total
<1>3. Total = g
  BY <1>2, TotalUnique DEF HasOpening
<1> QED
  BY <1>1, <1>3

\* A movement appended to the others changes the stock as _apply_txn does.
LEMMA RecordedAppend ==
    ASSUME NEW txns, HasOpening(txns), NEW txn \in InventoryTxn, txn.txn_type # "opening"
    PROVE  /\ HasOpening(Append(txns, txn))
           /\ Recorded(Append(txns, txn)) = Apply(Recorded(txns), txn)
<1> DEFINE more == Append(txns, txn)
           n == Len(txns)
<1>1. /\ HasOpening(more)
      /\ Len(more) = n + 1
      /\ more[n + 1] = txn
      /\ \A k \in 1..n : more[k] = txns[k]
      /\ n \in Nat
  BY DEF HasOpening
<1> HIDE DEF more
<1>2. PICK total : IsTotal(total, more, n + 1)
  BY <1>1, TotalExists
<1>3. Recorded(more) = total[n + 1] /\ total[n + 1] = StockAt(total, more, n + 1)
  <2>1. Recorded(more) = total[n + 1]
    BY <1>1, <1>2, RecordedIsTotal
  <2> QED
    BY <1>1, <1>2, <2>1 DEF IsTotal
<1>4. CASE txn.txn_type = "adjustment"
  <2>1. n + 1 \in Counts(more)
    BY <1>1, <1>4 DEF Counts, HasOpening
  <2>2. LastCount(more) = n + 1
    BY <1>1, <2>1, LastCountFacts
  <2> QED
    BY <1>1, <1>3, <1>4, <2>2 DEF StockAt, Apply, more
<1>5. CASE txn.txn_type \in {"in", "out"}
  <2>1. Counts(more) = Counts(txns)
    BY <1>1, <1>5 DEF Counts, HasOpening
  <2>2. LastCount(more) = LastCount(txns) /\ LastCount(txns) \in 1..n
    BY <1>1, <2>1, LastCountFacts DEF LastCount
  <2> DEFINE before == [k \in 0..n |-> total[k]]
  <2>3. IsTotal(before, txns, n)
    <3>1. ASSUME NEW k \in 0..n
          PROVE  before[k] = StockAt(before, txns, k)
      <4>1. total[k] = StockAt(total, more, k)
        BY <1>1, <1>2 DEF IsTotal
      <4>2. k > LastCount(txns) => k \in 1..n /\ before[k - 1] = total[k - 1]
        BY <1>1, <2>2
      <4> QED
        BY <1>1, <2>2, <4>1, <4>2 DEF StockAt
    <3> HIDE DEF before
    <3>2. before = [k \in 0..n |-> before[k]]
      BY DEF before
    <3> QED
      BY <3>1, <3>2 DEF IsTotal
  <2>4. Recorded(txns) = total[n]
    BY <1>1, <2>3, RecordedIsTotal
  <2>5. ~ (n + 1 <= LastCount(more)) /\ (n + 1) - 1 = n
    BY <1>1, <2>2
  <2> QED
    BY <1>1, <1>3, <1>5, <2>4, <2>5 DEF StockAt, Apply, more
<1>6. txn.txn_type \in {"adjustment", "in", "out"}
  BY DEF InventoryTxn
<1> QED
  BY <1>1, <1>4, <1>5, <1>6 DEF more

\* The opening count alone.
LEMMA RecordedOpening ==
    ASSUME NEW txn \in InventoryTxn, txn.txn_type = "opening"
    PROVE  HasOpening(<<txn>>) /\ Recorded(<<txn>>) = txn.quantity
<1> DEFINE txns == <<txn>>
<1>1. HasOpening(txns) /\ Len(txns) = 1 /\ txns[1] = txn
  BY DEF HasOpening
<1> HIDE DEF txns
<1>2. PICK total : IsTotal(total, txns, 1)
  BY <1>1, TotalExists
<1>3. Recorded(txns) = total[1]
  BY <1>1, <1>2, RecordedIsTotal
<1>4. total[1] = StockAt(total, txns, 1)
  BY <1>2 DEF IsTotal
<1>5. LastCount(txns) \in 1..Len(txns)
  BY <1>1, LastCountFacts
<1>6. LastCount(txns) = 1
  BY <1>1, <1>5
<1> QED
  BY <1>1, <1>3, <1>4, <1>6 DEF StockAt, txns

\* The project of a movement counts for nothing.
LEMMA RecordedUnlinked ==
    ASSUME NEW txns, HasOpening(txns), NEW p
    PROVE  /\ HasOpening(Unlinked(txns, p))
           /\ Recorded(Unlinked(txns, p)) = Recorded(txns)
<1> DEFINE less == Unlinked(txns, p)
           n == Len(txns)
<1>1. n \in Nat /\ DOMAIN txns = 1..n /\ \A k \in 1..n : txns[k] \in InventoryTxn
  BY DEF HasOpening
<1>2. ASSUME NEW k \in 1..n
      PROVE  /\ less[k] \in InventoryTxn
             /\ less[k].txn_type = txns[k].txn_type
             /\ less[k].quantity = txns[k].quantity
  BY <1>1 DEF Unlinked, InventoryTxn
<1>3. less \in Seq(InventoryTxn) /\ Len(less) = n
  <2>1. less \in [1..n -> InventoryTxn]
    BY <1>1, <1>2 DEF Unlinked
  <2> HIDE DEF less
  <2> QED
    BY <1>1, <2>1
<1>4. HasOpening(less)
  BY <1>1, <1>2, <1>3 DEF HasOpening
<1>5. Counts(less) = Counts(txns)
  <2> HIDE DEF less
  <2> QED
    BY <1>1, <1>2, <1>3 DEF Counts
<1>6. LastCount(less) = LastCount(txns) /\ LastCount(txns) \in 1..n
  BY <1>5, LastCountFacts DEF LastCount
<1>7. PICK total : IsTotal(total, txns, n)
  BY <1>1, TotalExists
<1>8. IsTotal(total, less, n)
  <2>1. ASSUME NEW k \in 0..n
        PROVE  StockAt(total, less, k) = StockAt(total, txns, k)
    <3>1. k > LastCount(txns) => k \in 1..n
      BY <1>1, <1>6
    <3> HIDE DEF less
    <3> QED
      BY <1>1, <1>2, <1>6, <3>1 DEF StockAt
  <2> QED
    BY <1>7, <2>1 DEF IsTotal
<1> QED
  BY <1>3, <1>4, <1>7, <1>8, RecordedIsTotal

---------------------------------------------------------------------------
\* Each step keeps the invariant.

\* A row that a worker may take in hand.
MayHold(w, req) ==
    /\ \/ req.op \in InvoiceOps /\ InvoiceChange(req)
       \/ req.op \in ItemOps /\ ItemChange(req) /\ item[req.id] # NULL
       \/ req.op = "delete_project" /\ req.project \in ProjectCode
    /\ req.op = "insert" =>
           /\ req.id \notin created
           /\ \A v \in Worker : request[v].op = "insert" => request[v].id # req.id
    /\ req.op \in {"update", "delete"} => req.id \in created
    /\ req.op \in InvoiceOps /\ req.id \notin overlapped =>
           /\ req.read # NULL => Coherent(req.read)
           /\ req.new # NULL => Coherent(req.new)

LEMMA LoadKeeps ==
    ASSUME IInv, NEW w \in Worker, NEW req, MayHold(w, req),
           request' = [request EXCEPT ![w] = req], UNCHANGED tables
    PROVE  IInv'
<1>1. \A v \in Worker : request'[v] = IF v = w THEN req ELSE request[v]
  BY DEF IInv, TablesTyped
<1>2. \A v \in Worker : request[v].op \in InvoiceOps \cup ItemOps => request[v] # Idle
  BY DEF Idle, InvoiceOps, ItemOps
<1>3. TablesTyped' /\ Opened' /\ StockMatchesMovements'
  BY DEF IInv, tables, TablesTyped, Opened, StockMatchesMovements
<1>4. RequestsTyped'
  BY <1>1 DEF IInv, tables, RequestsTyped, MayHold
<1>5. IdsFresh'
  <2>1. UNCHANGED <<receivable, created>>
    BY DEF tables
  <2> QED
    BY <1>1, <1>2, <2>1 DEF IInv, IdsFresh, MayHold, InvoiceOps
<1>6. RowsCoherent'
  <2>1. UNCHANGED <<receivable, overlapped>>
    BY DEF tables
  <2> QED
    BY <1>1, <2>1 DEF IInv, RowsCoherent, MayHold
<1> QED
  BY <1>3, <1>4, <1>5, <1>6 DEF IInv

LEMMA RollbackKeeps ==
    ASSUME IInv, NEW w \in Worker, Rollback(w)
    PROVE  IInv'
<1>1. \A v \in Worker : request'[v] = IF v = w THEN Idle ELSE request[v]
  BY DEF IInv, TablesTyped, Rollback
<1>2. UNCHANGED tables
  BY DEF Rollback
<1>3. Idle.op \notin InvoiceOps
  BY DEF Idle, InvoiceOps
<1>4. TablesTyped' /\ Opened' /\ StockMatchesMovements'
  BY <1>2 DEF Rollback, IInv, tables, TablesTyped, Opened, StockMatchesMovements
<1>5. RequestsTyped' /\ IdsFresh' /\ RowsCoherent'
  BY <1>1, <1>2, <1>3 DEF IInv, tables, RequestsTyped, IdsFresh, RowsCoherent, InvoiceOps
<1> QED
  BY <1>4, <1>5 DEF IInv

LEMMA HandlerKeeps ==
    ASSUME IInv, NEW w \in Worker,
           \/ CreateReceivable(w) \/ UpdateReceivable(w) \/ ConfirmReceivable(w)
           \/ DeleteReceivable(w) \/ RecordTransaction(w) \/ UpdateItem(w)
    PROVE  IInv'
<1> DEFINE Held(op, id, read, new, txn) ==
               [op |-> op, id |-> id, read |-> read, new |-> new, txn |-> txn]
<1>1. ASSUME NEW op, NEW id, NEW read, NEW new, NEW txn, Handle(w, op, id, read, new, txn),
             MayHold(w, Held(op, id, read, new, txn))
      PROVE  IInv'
  BY <1>1, LoadKeeps DEF Handle
<1>2. \A r \in Receivable : receivable[r] # NULL =>
          /\ receivable[r] \in AccountReceivable
          /\ r \in created
          /\ r \notin overlapped => Coherent(receivable[r])
  BY DEF IInv, TablesTyped, IdsFresh, RowsCoherent
<1>3. CASE CreateReceivable(w)
  <2>1. PICK r \in Receivable \ created, p \in ProjectCode,
             amount \in Invoiced, payment \in Payments \cup {NULL} :
            /\ \A other \in Worker : request[other].op = "insert" => request[other].id # r
            /\ PaidAmount(payment) <= amount
            /\ Handle(w, "insert", r, NULL, Invoice(p, amount, payment), NULL)
    BY <1>3 DEF CreateReceivable
  <2> DEFINE new == Invoice(p, amount, payment)
  <2>2. new \in AccountReceivable /\ Coherent(new) /\ new.status = "draft"
    BY <2>1, InvoiceFacts DEF Invoice
  <2> HIDE DEF new
  <2>3. MayHold(w, Held("insert", r, NULL, new, NULL))
    BY <2>1, <2>2, ReceivableAssumption
       DEF MayHold, InvoiceOps, ItemOps, InvoiceChange, Row
  <2> QED
    BY <1>1, <2>1, <2>3 DEF new
<1>4. CASE UpdateReceivable(w)
  <2>1. PICK r \in Receivable, p \in ProjectCode,
             amount \in Invoiced, payment \in Payments \cup {NULL} :
            /\ receivable[r] # NULL
            /\ MayEdit(receivable[r], p, amount, payment)
            /\ Handle(w, "update", r, receivable[r],
                      Edited(receivable[r], p, amount, payment), NULL)
    BY <1>4 DEF UpdateReceivable
  <2> DEFINE read == receivable[r]
             new == Edited(receivable[r], p, amount, payment)
  <2>2. read \in AccountReceivable /\ r \in created /\ (r \notin overlapped => Coherent(read))
    BY <1>2, <2>1
  <2>3. /\ new \in AccountReceivable
        /\ new.status = read.status
        /\ new.project = p
        /\ new.amount = amount
        /\ Coherent(read) => Coherent(new)
    BY <2>1, <2>2, InvoiceFacts DEF MayEdit
  <2>4. read.status = "confirmed" => p = read.project /\ amount = read.amount
    BY <2>1 DEF MayEdit
  <2> HIDE DEF new
  <2>5. MayHold(w, Held("update", r, read, new, NULL))
    BY <2>1, <2>2, <2>3, <2>4, ReceivableAssumption
       DEF MayHold, InvoiceOps, ItemOps, InvoiceChange, Row
  <2> QED
    BY <1>1, <2>1, <2>5 DEF new
<1>5. CASE ConfirmReceivable(w)
  <2>1. PICK r \in Receivable, actor \in Staff(ConfirmRoles) :
            /\ receivable[r] # NULL
            /\ receivable[r].status = "draft"
            /\ Handle(w, "update", r, receivable[r], Confirmed(receivable[r], actor), NULL)
    BY <1>5 DEF ConfirmReceivable
  <2> DEFINE read == receivable[r]
             new == Confirmed(receivable[r], actor)
  <2>2. read \in AccountReceivable /\ r \in created /\ (r \notin overlapped => Coherent(read))
    BY <1>2, <2>1
  <2>3. new \in AccountReceivable /\ (Coherent(read) => Coherent(new))
    BY <2>2, ConfirmedFacts DEF Staff
  <2> HIDE DEF new
  <2>4. MayHold(w, Held("update", r, read, new, NULL))
    BY <2>1, <2>2, <2>3, ReceivableAssumption
       DEF MayHold, InvoiceOps, ItemOps, InvoiceChange, Row
  <2> QED
    BY <1>1, <2>1, <2>4 DEF new
<1>6. CASE DeleteReceivable(w)
  <2>1. PICK r \in Receivable :
            /\ receivable[r] # NULL
            /\ receivable[r].status = "draft"
            /\ Handle(w, "delete", r, receivable[r], NULL, NULL)
    BY <1>6 DEF DeleteReceivable
  <2>2. MayHold(w, Held("delete", r, receivable[r], NULL, NULL))
    BY <1>2, <2>1 DEF MayHold, InvoiceOps, ItemOps, InvoiceChange, Row
  <2> QED
    BY <1>1, <2>1, <2>2
<1>7. CASE RecordTransaction(w)
  <2>1. PICK i \in Item, kind \in {"in", "out", "adjustment"}, quantity \in Quantities,
             p \in ProjectCode \cup {NULL} :
            LET txn == [txn_type |-> kind, quantity |-> quantity, project |-> p]
            IN  /\ item[i] # NULL
                /\ MayMove(item[i], txn)
                /\ Handle(w, "move", i, item[i],
                          [item[i] EXCEPT !.qty_on_hand = Apply(@, txn)], txn)
    BY <1>7 DEF RecordTransaction
  <2> DEFINE txn == [txn_type |-> kind, quantity |-> quantity, project |-> p]
             read == item[i]
             new == [read EXCEPT !.qty_on_hand = Apply(@, txn)]
  <2>2. read \in InventoryItem
    BY <2>1 DEF IInv, TablesTyped
  <2>3. txn \in InventoryTxn /\ txn.txn_type # "opening"
    BY QuantityAssumption DEF InventoryTxn
  <2>4. Apply(read.qty_on_hand, txn) \in Nat /\ read.is_active
    BY <2>1, <2>2, <2>3, ApplyType DEF MayMove
  <2>5. new \in InventoryItem
    BY <2>2, <2>4 DEF InventoryItem
  <2>6. Handle(w, "move", i, read, new, txn) /\ read # NULL
    BY <2>1
  <2>7. ItemChange(Held("move", i, read, new, txn))
    BY <2>2, <2>3, <2>4, <2>5 DEF ItemChange
  <2> HIDE DEF txn, new
  <2>8. MayHold(w, Held("move", i, read, new, txn))
    BY <2>6, <2>7 DEF MayHold, InvoiceOps, ItemOps
  <2> QED
    BY <1>1, <2>6, <2>8
<1>8. CASE UpdateItem(w)
  <2>1. PICK i \in Item, is_active \in BOOLEAN :
            /\ item[i] # NULL
            /\ is_active \/ MayDeactivate(item[i])
            /\ Handle(w, "activate", i, item[i], [item[i] EXCEPT !.is_active = is_active], NULL)
    BY <1>8 DEF UpdateItem
  <2> DEFINE read == item[i]
             new == [read EXCEPT !.is_active = is_active]
  <2>2. read \in InventoryItem
    BY <2>1 DEF IInv, TablesTyped
  <2>3. /\ new \in InventoryItem
        /\ new.qty_on_hand = read.qty_on_hand
        /\ new.is_active \/ read.qty_on_hand = 0
    BY <2>1, <2>2 DEF InventoryItem, MayDeactivate
  <2> HIDE DEF new
  <2>4. MayHold(w, Held("activate", i, read, new, NULL))
    BY <2>1, <2>2, <2>3 DEF MayHold, InvoiceOps, ItemOps, ItemChange
  <2> QED
    BY <1>1, <2>1, <2>4 DEF new
<1> QED
  BY <1>3, <1>4, <1>5, <1>6, <1>7, <1>8
\* After a commit the worker is idle again, and the others hold what they held.
LEMMA CommitEnds ==
    ASSUME IInv, NEW w \in Worker, request' = [request EXCEPT ![w] = Idle]
    PROVE  /\ \A v \in Worker : request'[v] = IF v = w THEN Idle ELSE request[v]
           /\ DOMAIN request' = Worker
           /\ Idle.op \notin InvoiceOps \cup ItemOps
  BY DEF IInv, TablesTyped, Idle, InvoiceOps, ItemOps

LEMMA CommitReceivableKeeps ==
    ASSUME IInv, NEW w \in Worker, CommitReceivable(w)
    PROVE  IInv'
<1> DEFINE req == request[w]
           id == req.id
           row == Written(receivable[id], req.read, req.new)
<1>1. /\ req.op \in InvoiceOps
      /\ ~ Misses(receivable[id], req.read, req.new)
      /\ receivable' = [receivable EXCEPT ![id] = row]
      /\ receivable'[id] # NULL => project[receivable'[id].project] # NULL
      /\ created' = created \cup {id}
      /\ overlapped' = IF receivable[id] # req.read THEN overlapped \cup {id} ELSE overlapped
      /\ request' = [request EXCEPT ![w] = Idle]
      /\ UNCHANGED <<project, item, movements, references>>
  BY DEF CommitReceivable, InvoiceOps, Overlap
<1>2. InvoiceChange(req)
  BY <1>1 DEF IInv, RequestsTyped, Idle, InvoiceOps, ItemOps
<1>3. id \in Receivable /\ Row(receivable[id], AccountReceivable)
  BY <1>2 DEF InvoiceChange, IInv, TablesTyped, Row
<1>4. /\ Row(row, AccountReceivable)
      /\ receivable[id] = req.read => row = req.new
  BY <1>1, <1>2, <1>3, InvoiceWritten
<1>5. \A r \in Receivable : receivable'[r] = IF r = id THEN row ELSE receivable[r]
  BY <1>1 DEF IInv, TablesTyped
<1>6. /\ \A v \in Worker : request'[v] = IF v = w THEN Idle ELSE request[v]
      /\ DOMAIN request' = Worker
      /\ Idle.op \notin InvoiceOps \cup ItemOps
  BY <1>1, CommitEnds
<1> HIDE DEF row
<1>7. TablesTyped'
  BY <1>1, <1>3, <1>4, <1>6 DEF IInv, TablesTyped, Row
<1>8. RequestsTyped' /\ Opened'
  BY <1>1, <1>6 DEF IInv, RequestsTyped, Opened
<1>9. IdsFresh'
  <2>1. /\ IsFiniteSet(created')
        /\ \A r \in Receivable : receivable'[r] # NULL => r \in created'
    BY <1>1, <1>5, FS_AddElement DEF IInv, IdsFresh
  <2>2. ASSUME NEW v \in Worker \ {w}, request[v].op = "insert"
        PROVE  request[v].id # id
    BY <1>1, <2>2 DEF IInv, IdsFresh, InvoiceOps
  <2> QED
    BY <1>1, <1>6, <2>1, <2>2 DEF IInv, IdsFresh, InvoiceOps
<1>10. RowsCoherent'
  <2>1. ASSUME NEW r \in Receivable \ overlapped', receivable'[r] # NULL
        PROVE  Coherent(receivable'[r])
    <3>1. CASE r = id
      <4>1. receivable[id] = req.read /\ id \notin overlapped
        BY <1>1, <2>1, <3>1
      <4> QED
        BY <1>1, <1>4, <1>5, <2>1, <3>1, <4>1 DEF IInv, RowsCoherent
    <3>2. CASE r # id
      BY <1>1, <1>5, <2>1, <3>2 DEF IInv, RowsCoherent
    <3> QED
      BY <3>1, <3>2
  <2> QED
    BY <1>1, <1>6, <2>1 DEF IInv, RowsCoherent
<1>11. StockMatchesMovements'
  BY <1>1 DEF IInv, StockMatchesMovements
<1> QED
  BY <1>7, <1>8, <1>9, <1>10, <1>11 DEF IInv

LEMMA OpeningOfItem ==
    ASSUME IInv, NEW i \in Item, item[i] # NULL
    PROVE  HasOpening(movements[i])
  BY DEF IInv, TablesTyped, Opened, HasOpening

LEMMA CommitItemKeeps ==
    ASSUME IInv, NEW w \in Worker, CommitItem(w)
    PROVE  IInv'
<1> DEFINE req == request[w]
           id == req.id
           row == Merged(item[id], req.read, req.new)
<1>1. /\ req.op \in ItemOps
      /\ item' = [item EXCEPT ![id] = row]
      /\ overlapped' = IF item[id] # req.read THEN overlapped \cup {id} ELSE overlapped
      /\ request' = [request EXCEPT ![w] = Idle]
      /\ UNCHANGED <<project, receivable, references, created>>
  BY DEF CommitItem, ItemOps, Overlap
<1>2. ItemChange(req) /\ item[id] # NULL
  BY <1>1 DEF IInv, RequestsTyped, Idle, InvoiceOps, ItemOps
<1>3. id \in Item /\ item[id] \in InventoryItem
  BY <1>2 DEF ItemChange, IInv, TablesTyped
<1>4. /\ row \in InventoryItem
      /\ item[id] = req.read => row = req.new
  BY <1>2, <1>3, ItemWritten
<1>5. \A i \in Item : item'[i] = IF i = id THEN row ELSE item[i]
  BY <1>1 DEF IInv, TablesTyped
<1>6. /\ \A v \in Worker : request'[v] = IF v = w THEN Idle ELSE request[v]
      /\ DOMAIN request' = Worker
      /\ Idle.op \notin InvoiceOps \cup ItemOps
  BY <1>1, CommitEnds
<1>7. \/ /\ req.op = "move"
         /\ req.txn \in InventoryTxn
         /\ req.txn.txn_type # "opening"
         /\ req.txn.project # NULL => project[req.txn.project] # NULL
         /\ movements' = [movements EXCEPT ![id] = Append(movements[id], req.txn)]
      \/ req.op = "activate" /\ UNCHANGED movements
  BY <1>2 DEF CommitItem, ItemChange
<1>8. \A i \in Item : movements'[i] = IF i = id /\ req.op = "move"
                                       THEN Append(movements[id], req.txn) ELSE movements[i]
  BY <1>7 DEF IInv, TablesTyped
<1>9. HasOpening(movements[id])
  BY <1>2, <1>3, OpeningOfItem
<1> HIDE DEF row
<1>10. item[id] = req.read => row = req.new
  BY <1>4
<1>11. TablesTyped'
  <2>1. item' \in [Item -> InventoryItem \cup {NULL}]
    BY <1>1, <1>3, <1>4 DEF IInv, TablesTyped
  <2>2. req.op = "move" => Append(movements[id], req.txn) \in Seq(InventoryTxn)
    BY <1>7, <1>9, RecordedAppend DEF HasOpening
  <2>3. movements' \in [Item -> Seq(InventoryTxn)]
    BY <1>3, <1>7, <2>2 DEF IInv, TablesTyped
  <2> QED
    BY <1>1, <1>6, <2>1, <2>3 DEF IInv, TablesTyped
<1>12. RequestsTyped'
  BY <1>1, <1>4, <1>5, <1>6, ItemAssumption DEF IInv, RequestsTyped, ItemChange
<1>13. IdsFresh' /\ RowsCoherent'
  BY <1>1, <1>6 DEF IInv, IdsFresh, RowsCoherent, InvoiceOps
<1>14. Opened'
  <2>1. ASSUME NEW i \in Item, item'[i] # NULL
        PROVE  Len(movements'[i]) > 0 /\ movements'[i][1].txn_type = "opening"
    <3>1. CASE i = id /\ req.op = "move"
      <4>1. HasOpening(Append(movements[id], req.txn))
        BY <1>7, <1>9, <3>1, RecordedAppend
      <4> QED
        BY <1>8, <3>1, <4>1 DEF HasOpening
    <3>2. CASE ~ (i = id /\ req.op = "move")
      BY <1>2, <1>5, <1>8, <2>1, <3>2 DEF IInv, Opened
    <3> QED
      BY <3>1, <3>2
  <2> QED
    BY <2>1 DEF Opened
<1>15. StockMatchesMovements'
  <2>1. ASSUME NEW i \in Item \ overlapped', item'[i] # NULL
        PROVE  /\ item'[i].qty_on_hand = Recorded(movements'[i])
               /\ item'[i].is_active \/ item'[i].qty_on_hand = 0
    <3>1. CASE i # id
      BY <1>1, <1>5, <1>8, <2>1, <3>1 DEF IInv, StockMatchesMovements
    <3>2. CASE i = id
      <4>1. item[id] = req.read /\ id \notin overlapped /\ item'[id] = req.new
        BY <1>1, <1>3, <1>5, <1>10, <2>1, <3>2
      <4>2. /\ item[id].qty_on_hand = Recorded(movements[id])
            /\ item[id].is_active \/ item[id].qty_on_hand = 0
        BY <1>2, <1>3, <4>1 DEF IInv, StockMatchesMovements
      <4>3. CASE req.op = "move"
        <5>1. /\ req.new.qty_on_hand = Apply(req.read.qty_on_hand, req.txn)
              /\ req.new.is_active
          BY <1>2, <4>3 DEF ItemChange, InventoryItem
        <5>2. Recorded(movements'[id]) = Apply(Recorded(movements[id]), req.txn)
          BY <1>3, <1>7, <1>8, <1>9, <4>3, RecordedAppend
        <5> QED
          BY <3>2, <4>1, <4>2, <5>1, <5>2
      <4>4. CASE req.op = "activate"
        BY <1>2, <1>3, <1>8, <3>2, <4>1, <4>2, <4>4 DEF ItemChange
      <4> QED
        BY <1>1, <4>3, <4>4 DEF ItemOps
    <3> QED
      BY <3>1, <3>2
  <2> QED
    BY <2>1 DEF StockMatchesMovements
<1> QED
  BY <1>11, <1>12, <1>13, <1>14, <1>15 DEF IInv

LEMMA CreateItemKeeps ==
    ASSUME IInv, NEW i \in Item, CreateItem(i)
    PROVE  IInv'
<1>1. PICK quantity \in Quantities \cup {0} :
          /\ item' = [item EXCEPT ![i] = [qty_on_hand |-> quantity, is_active |-> TRUE]]
          /\ movements' = [movements EXCEPT ![i] =
                 <<[txn_type |-> "opening", quantity |-> quantity, project |-> NULL]>>]
  BY DEF CreateItem
<1> DEFINE row == [qty_on_hand |-> quantity, is_active |-> TRUE]
           txn == [txn_type |-> "opening", quantity |-> quantity, project |-> NULL]
<1>2. /\ item[i] = NULL
      /\ UNCHANGED <<project, receivable, references, request, created, overlapped>>
  BY DEF CreateItem
<1>3. row \in InventoryItem /\ txn \in InventoryTxn
  BY QuantityAssumption DEF InventoryItem, InventoryTxn
<1>4. HasOpening(<<txn>>) /\ Recorded(<<txn>>) = row.qty_on_hand
  <2>1. txn.txn_type = "opening" /\ txn.quantity = row.qty_on_hand
    OBVIOUS
  <2> HIDE DEF txn, row
  <2> QED
    BY <1>3, <2>1, RecordedOpening
<1>5. /\ \A j \in Item : item'[j] = IF j = i THEN row ELSE item[j]
      /\ \A j \in Item : movements'[j] = IF j = i THEN <<txn>> ELSE movements[j]
  BY <1>1 DEF IInv, TablesTyped
<1>6. row.is_active /\ txn.project = NULL
  OBVIOUS
<1>7. TablesTyped'
  <2>1. item' \in [Item -> InventoryItem \cup {NULL}]
    BY <1>1, <1>3 DEF IInv, TablesTyped
  <2>2. <<txn>> \in Seq(InventoryTxn)
    BY <1>3
  <2>3. movements' \in [Item -> Seq(InventoryTxn)]
    BY <1>1, <2>2 DEF IInv, TablesTyped
  <2> QED
    BY <1>2, <2>1, <2>3 DEF IInv, TablesTyped
<1> HIDE DEF row, txn
<1>8. RequestsTyped'
  BY <1>2, <1>3, <1>5, ItemAssumption DEF IInv, RequestsTyped, ItemChange
<1>9. IdsFresh' /\ RowsCoherent'
  BY <1>2 DEF IInv, IdsFresh, RowsCoherent
<1>10. Opened'
  BY <1>4, <1>5 DEF IInv, Opened, HasOpening
<1>11. StockMatchesMovements'
  BY <1>2, <1>4, <1>5, <1>6 DEF IInv, StockMatchesMovements
<1> QED
  BY <1>7, <1>8, <1>9, <1>10, <1>11 DEF IInv

LEMMA ProjectStepsKeep ==
    ASSUME IInv,
           \/ \E p \in ProjectCode : CreateProject(p) \/ UpdateProject(p)
           \/ \E codes \in SUBSET ProjectCode : ImportProjects(codes)
           \/ \E p \in ProjectCode, table \in ReferringTable : Refer(table, p)
    PROVE  IInv'
<1>1. /\ project' \in [ProjectCode -> Project \cup {NULL}]
      /\ references' \subseteq ReferringTable \X ProjectCode
      /\ UNCHANGED <<receivable, item, movements, request, created, overlapped>>
  <2>1. ASSUME NEW p \in ProjectCode, NEW row \in Project, project' = [project EXCEPT ![p] = row]
        PROVE  project' \in [ProjectCode -> Project \cup {NULL}]
    BY <2>1 DEF IInv, TablesTyped
  <2>2. CASE \E p \in ProjectCode : CreateProject(p) \/ UpdateProject(p)
    BY <2>1, <2>2 DEF CreateProject, UpdateProject, IInv, TablesTyped
  <2>3. CASE \E codes \in SUBSET ProjectCode : ImportProjects(codes)
    <3>1. PICK codes \in SUBSET ProjectCode : ImportProjects(codes)
      BY <2>3
    <3> DEFINE new == {p \in codes \ deleted : project[p] = NULL}
    <3>2. PICK rows \in [new -> {row \in Project : ~ row.is_archived}] :
              project' = [p \in ProjectCode |-> IF p \in new THEN rows[p] ELSE project[p]]
      BY <3>1 DEF ImportProjects
    <3> QED
      BY <3>1, <3>2 DEF ImportProjects, IInv, TablesTyped
  <2>4. CASE \E p \in ProjectCode, table \in ReferringTable : Refer(table, p)
    BY <2>4 DEF Refer, IInv, TablesTyped
  <2> QED
    BY <2>2, <2>3, <2>4
<1>2. TablesTyped'
  BY <1>1 DEF IInv, TablesTyped
<1>3. RequestsTyped' /\ IdsFresh' /\ RowsCoherent' /\ Opened' /\ StockMatchesMovements'
  BY <1>1 DEF IInv, RequestsTyped, IdsFresh, RowsCoherent, Opened, StockMatchesMovements
<1> QED
  BY <1>2, <1>3 DEF IInv

\* The load of delete_project: what it holds is no row of receivables or items.
LEMMA DeleteProjectKeeps ==
    ASSUME IInv, NEW w \in Worker, DeleteProject(w)
    PROVE  IInv'
<1>1. PICK req : /\ req.op = "delete_project" /\ req.project \in ProjectCode
                 /\ request' = [request EXCEPT ![w] = req]
                 /\ UNCHANGED tables
  BY Zenon DEF DeleteProject
<1>2. MayHold(w, req)
  BY <1>1 DEF MayHold, InvoiceOps
<1> QED
  BY <1>1, <1>2, LoadKeeps

\* Deleting the loaded invoices and unlinking the movements leaves the others as they are.
LEMMA CommitDeletionKeeps ==
    ASSUME IInv, NEW w \in Worker, CommitDeletion(w)
    PROVE  IInv'
<1> DEFINE p == request[w].project
<1>1. /\ request[w].op = "delete_project"
      /\ project' = [project EXCEPT ![p] = NULL]
      /\ receivable' = [r \in Receivable |->
             IF r \in request[w].invoices THEN NULL ELSE receivable[r]]
      /\ movements' = [i \in Item |-> Unlinked(movements[i], p)]
      /\ references' \subseteq references
      /\ request' = [request EXCEPT ![w] = Idle]
      /\ UNCHANGED <<item, created, overlapped>>
  BY DEF CommitDeletion
<1>2. p \in ProjectCode
  BY <1>1 DEF IInv, RequestsTyped, Idle, InvoiceOps, ItemOps
<1>3. /\ \A v \in Worker : request'[v] = IF v = w THEN Idle ELSE request[v]
      /\ DOMAIN request' = Worker
      /\ Idle.op \notin InvoiceOps \cup ItemOps
  BY <1>1, CommitEnds
<1> HIDE DEF p
<1>4. ASSUME NEW i \in Item
      PROVE  Unlinked(movements[i], p) \in Seq(InventoryTxn)
  <2> DEFINE txns == movements[i]
             less == Unlinked(txns, p)
             n == Len(txns)
  <2>1. n \in Nat /\ DOMAIN txns = 1..n /\ \A k \in 1..n : txns[k] \in InventoryTxn
    BY DEF IInv, TablesTyped
  <2>2. less \in [1..n -> InventoryTxn]
    BY <2>1 DEF Unlinked, InventoryTxn
  <2> HIDE DEF less, txns
  <2> QED
    BY <2>1, <2>2 DEF less, txns
<1>5. TablesTyped'
  <2>1. project' \in [ProjectCode -> Project \cup {NULL}]
    BY <1>1, <1>2 DEF IInv, TablesTyped
  <2> QED
    BY <1>1, <1>3, <1>4, <2>1 DEF IInv, TablesTyped
<1>6. RequestsTyped' /\ RowsCoherent'
  BY <1>1, <1>3 DEF IInv, RequestsTyped, RowsCoherent
<1>7. IdsFresh'
  BY <1>1, <1>3 DEF IInv, IdsFresh, Idle
<1>8. \A i \in Item : item[i] # NULL =>
          /\ HasOpening(movements'[i])
          /\ Recorded(movements'[i]) = Recorded(movements[i])
  BY <1>1, <1>2, OpeningOfItem, RecordedUnlinked
<1>9. Opened' /\ StockMatchesMovements'
  BY <1>1, <1>8 DEF IInv, Opened, StockMatchesMovements, HasOpening
<1> QED
  BY <1>5, <1>6, <1>7, <1>9 DEF IInv

---------------------------------------------------------------------------
\* The invariant above holds in every state: rows have their types, what a worker holds
\* is a change one of the handlers makes, and tables and hands agree.
THEOREM Inductive == Spec => []IInv
<1>1. Init => IInv
  BY FS_EmptySet DEF Init, IInv, TablesTyped, RequestsTyped, IdsFresh, RowsCoherent,
         Opened, StockMatchesMovements, Idle, InvoiceOps
<1>2. IInv /\ [Next]_vars => IInv'
  <2> SUFFICES ASSUME IInv, [Next]_vars PROVE IInv'
    OBVIOUS
  <2>1. CASE \E w \in Worker : DeleteProject(w) \/ CommitDeletion(w)
    BY <2>1, DeleteProjectKeeps, CommitDeletionKeeps
  <2>2. CASE \/ \E p \in ProjectCode :
                 \/ CreateProject(p) \/ UpdateProject(p)
                 \/ \E table \in ReferringTable : Refer(table, p)
             \/ \E codes \in SUBSET ProjectCode : ImportProjects(codes)
    BY <2>2, ProjectStepsKeep
  <2>3. CASE \E i \in Item : CreateItem(i)
    BY <2>3, CreateItemKeeps
  <2>4. CASE \E w \in Worker :
                 \/ CreateReceivable(w) \/ UpdateReceivable(w) \/ ConfirmReceivable(w)
                 \/ DeleteReceivable(w) \/ RecordTransaction(w) \/ UpdateItem(w)
    BY <2>4, HandlerKeeps
  <2>5. CASE \E w \in Worker : CommitReceivable(w) \/ CommitItem(w) \/ Rollback(w)
    BY <2>5, CommitReceivableKeeps, CommitItemKeeps, RollbackKeeps
  <2>6. CASE UNCHANGED vars
    BY <2>6 DEF vars, tables, IInv, TablesTyped, RequestsTyped, IdsFresh,
           RowsCoherent, Opened, StockMatchesMovements
  <2> QED
    BY <2>1, <2>2, <2>3, <2>4, <2>5, <2>6 DEF Next
<1> QED
  BY <1>1, <1>2, PTL DEF Spec

\* The tables hold rows of their types.
THEOREM TypeCorrect == Spec => []TypeOK
<1>1. IInv => TypeOK
  BY DEF IInv, TablesTyped, TypeOK
<1> QED
  BY <1>1, Inductive, PTL

\* Unless two sessions wrote the item at once, the stock on hand is what its movements add
\* up to, however many there are, and an inactive item has none (_apply_txn, delete_item).
THEOREM StockMatches == Spec => []StockMatchesMovements
<1>1. IInv => StockMatchesMovements
  BY DEF IInv
<1> QED
  BY <1>1, Inductive, PTL

\* Recognised revenue leaves the ceiling only by a commit of a session that loaded the
\* receivable as a draft, or as an invoice of the archived project it deletes
\* (update_receivable, delete_receivable, delete_project).
THEOREM CeilingFrozenHolds == Spec => CeilingFrozen
<1> DEFINE TookOut(r) ==
               \E w \in Worker :
                   /\ request'[w] = Idle
                   /\ \/ /\ request[w].op = "delete_project"
                         /\ r \in request[w].invoices
                      \/ /\ request[w].op \in {"update", "delete"}
                         /\ request[w].id = r
                         /\ request[w].read.status = "draft"
<1>1. ASSUME IInv, [Next]_vars, NEW r \in Receivable,
             receivable[r] # NULL, receivable[r].status = "confirmed",
             \/ receivable'[r] = NULL
             \/ receivable'[r].project # receivable[r].project
             \/ receivable'[r].amount # receivable[r].amount
             \/ receivable'[r].status # "confirmed"
      PROVE  TookOut(r)
  <2>1. CASE \E w \in Worker : CommitDeletion(w)
    <3>1. PICK w \in Worker : CommitDeletion(w)
      BY <2>1
    <3>2. r \in request[w].invoices
      BY <1>1, <3>1 DEF CommitDeletion
    <3> QED
      BY <1>1, <3>1, <3>2 DEF CommitDeletion, IInv, TablesTyped
  <2>2. CASE \E w \in Worker : CommitReceivable(w)
    <3>1. PICK w \in Worker : CommitReceivable(w)
      BY <2>2
    <3> DEFINE req == request[w]
               row == Written(receivable[req.id], req.read, req.new)
    <3>2. /\ req.op \in InvoiceOps
          /\ ~ Misses(receivable[req.id], req.read, req.new)
          /\ receivable' = [receivable EXCEPT ![req.id] = row]
          /\ request' = [request EXCEPT ![w] = Idle]
      BY <3>1 DEF CommitReceivable, InvoiceOps
    <3>3. InvoiceChange(req)
      BY <1>1, <3>2 DEF IInv, RequestsTyped, Idle, InvoiceOps, ItemOps
    <3>4. req.id = r /\ receivable'[r] = row
      BY <1>1, <3>2 DEF IInv, TablesTyped
    <3>5. req.op # "insert"
      BY <1>1, <3>4 DEF IInv, IdsFresh
    <3>6. Row(receivable[r], AccountReceivable)
      BY <1>1 DEF IInv, TablesTyped, Row
    <3>7. req.op = "update" => req.read.status # "confirmed"
      <4> HIDE DEF row
      <4>1. req.op = "update" /\ req.read.status = "confirmed" =>
                /\ row # NULL
                /\ row.project = receivable[r].project
                /\ row.amount = receivable[r].amount
                /\ row.status = receivable[r].status
        BY <1>1, <3>2, <3>3, <3>4, <3>6, InvoiceWritten DEF row
      <4> QED
        BY <1>1, <3>4, <4>1
    <3>8. req.read.status = "draft"
      BY <3>2, <3>3, <3>5, <3>7 DEF InvoiceChange, InvoiceOps, Row, AccountReceivable
    <3>9. request'[w] = Idle /\ req.op \in {"update", "delete"}
      BY <1>1, <3>2, <3>5 DEF InvoiceOps, IInv, TablesTyped
    <3> QED
      BY <3>4, <3>8, <3>9
  <2>3. CASE UNCHANGED receivable
    BY <1>1, <2>3
  <2>4. ASSUME NEW w \in Worker,
               \/ CreateReceivable(w) \/ UpdateReceivable(w) \/ ConfirmReceivable(w)
               \/ DeleteReceivable(w) \/ RecordTransaction(w) \/ UpdateItem(w)
               \/ DeleteProject(w)
        PROVE  UNCHANGED receivable
    <3>1. UNCHANGED tables
      BY <2>4 DEF CreateReceivable, UpdateReceivable, ConfirmReceivable, DeleteReceivable,
             RecordTransaction, UpdateItem, Handle, DeleteProject
    <3> QED
      BY <3>1 DEF tables
  <2>5. ASSUME NEW w \in Worker, CommitItem(w) \/ Rollback(w)
        PROVE  UNCHANGED receivable
    BY <2>5 DEF CommitItem, Rollback, tables
  <2>6. ASSUME \/ \E p \in ProjectCode :
                   \/ CreateProject(p) \/ UpdateProject(p)
                   \/ \E table \in ReferringTable : Refer(table, p)
               \/ \E codes \in SUBSET ProjectCode : ImportProjects(codes)
               \/ \E i \in Item : CreateItem(i)
        PROVE  UNCHANGED receivable
    BY <2>6 DEF CreateProject, UpdateProject, ImportProjects, Refer, CreateItem
  <2>7. UNCHANGED vars => UNCHANGED receivable
    BY DEF vars, tables
  <2> QED
    BY <1>1, <2>1, <2>2, <2>3, <2>4, <2>5, <2>6, <2>7 DEF Next
<1>2. IInv /\ [Next]_vars =>
          [\A r \in Receivable :
              LET now == receivable[r]
                  next == receivable'[r]
              IN  now # NULL /\ now.status = "confirmed"
                  /\ (next = NULL \/ next.project # now.project \/ next.amount # now.amount
                      \/ next.status # "confirmed")
                  => TookOut(r)]_vars
  BY <1>1
<1> QED
  BY <1>2, Inductive, PTL DEF Spec, CeilingFrozen

\* However many receivables there are: unless two sessions wrote one at once, the
\* summary's outstanding total is what was invoiced less what was paid, and every row shows
\* its remainder and who confirmed it (receivables_summary, _remaining_amount_expr).
THEOREM PaymentsAddUpHolds == Spec => []PaymentsAddUp
<1>1. ASSUME IInv
      PROVE  PaymentsAddUp
  <2> DEFINE sound == {r \in Receivable \ overlapped : receivable[r] # NULL}
             rows == [r \in sound |-> receivable[r]]
             invoiced == [r \in DOMAIN rows |-> rows[r].amount]
             paid == [r \in DOMAIN rows |-> PaidAmount(rows[r].actual_payment)]
             outstanding == [r \in DOMAIN rows |-> Outstanding(rows[r])]
  <2>1. IsFiniteSet(sound)
    <3>1. sound \subseteq created
      BY <1>1 DEF IInv, IdsFresh
    <3> QED
      BY <1>1, <3>1, FS_Subset DEF IInv, IdsFresh
  <2>2. ASSUME NEW r \in sound
        PROVE  receivable[r] \in AccountReceivable /\ Coherent(receivable[r])
    BY <1>1 DEF IInv, TablesTyped, RowsCoherent
  <2>3. ASSUME NEW r \in sound
        PROVE  /\ invoiced[r] \in Int
               /\ paid[r] \in Int
               /\ outstanding[r] = invoiced[r] - paid[r]
    <3>1. receivable[r].amount \in Int /\ PaidAmount(receivable[r].actual_payment) \in Int
      BY <2>2, AmountsAreNumbers
    <3> QED
      BY <2>2, <3>1 DEF Coherent, Outstanding
  <2>4. DOMAIN invoiced = sound /\ DOMAIN paid = sound /\ DOMAIN outstanding = sound
    OBVIOUS
  <2>5. /\ receivables_summary(rows).total_invoiced = SumFunction(invoiced)
        /\ receivables_summary(rows).total_paid = SumFunction(paid)
        /\ receivables_summary(rows).total_outstanding = SumFunction(outstanding)
    BY DEF receivables_summary
  <2> HIDE DEF invoiced, paid, outstanding, sound
  <2>6. SumFunction(outstanding) = SumFunction(invoiced) - SumFunction(paid)
    BY <2>1, <2>3, <2>4, SumOfDifferences DEF SumFunction
  <2>7. TypeOK
    BY <1>1 DEF IInv, TablesTyped, TypeOK
  <2> QED
    BY <2>2, <2>5, <2>6, <2>7 DEF PaymentsAddUp, Coherent, sound
<1> QED
  BY <1>1, Inductive, PTL

---------------------------------------------------------------------------
\* One handler at a time: while one is at work, the next step is its commit or rollback.
Serially == \A w \in Worker : request[w] # Idle => request'[w] = Idle

\* What a busy worker loaded is what the tables still say.
StillThere(w) ==
    LET req == request[w]
    IN  /\ req.op \in InvoiceOps => receivable[req.id] = req.read
        /\ req.op \in ItemOps => item[req.id] = req.read

NobodyLate == overlapped = {} /\ \A w \in Worker : request[w] # Idle => StillThere(w)

LEMMA NobodyLateKept ==
    ASSUME DOMAIN request = Worker, IdsFresh, NobodyLate, [Next]_vars, [Serially]_vars
    PROVE  NobodyLate'
<1>1. CASE UNCHANGED vars
  BY <1>1 DEF vars, tables, NobodyLate, StillThere
<1> SUFFICES ASSUME Next, Serially
             PROVE  NobodyLate'
  BY <1>1
<1>2. ASSUME NEW w \in Worker, NEW op, NEW id, NEW read, NEW new, NEW txn,
             Handle(w, op, id, read, new, txn),
             op \in InvoiceOps => receivable[id] = read,
             op \in ItemOps => item[id] = read
      PROVE  NobodyLate'
  <2>1. PICK req : /\ req.op = op /\ req.id = id /\ req.read = read
                   /\ request' = [request EXCEPT ![w] = req]
    BY <1>2, Zenon DEF Handle
  <2>2. request'[w] = req /\ \A v \in Worker : v # w => request'[v] = request[v]
    BY <2>1
  <2>3. UNCHANGED <<receivable, item, overlapped>>
    BY <1>2 DEF Handle, tables
  <2> QED
    BY <1>2, <2>1, <2>2, <2>3 DEF NobodyLate, StillThere
<1>3. ASSUME NEW w \in Worker, CommitReceivable(w) \/ CommitItem(w) \/ Rollback(w) \/ CommitDeletion(w)
      PROVE  NobodyLate'
  <2>1. request[w] # Idle /\ request' = [request EXCEPT ![w] = Idle]
    BY <1>3 DEF CommitReceivable, CommitItem, CommitDeletion, Rollback, Idle
  <2>2. overlapped' = overlapped
    BY <1>3, <2>1 DEF CommitReceivable, CommitItem, CommitDeletion, Rollback, Overlap, tables,
                      NobodyLate, StillThere, InvoiceOps, ItemOps
  <2>3. \A v \in Worker : request'[v] = Idle
    BY <2>1 DEF Serially
  <2> QED
    BY <2>2, <2>3 DEF NobodyLate
<1>4. ASSUME UNCHANGED <<request, overlapped>>
      PROVE  NobodyLate'
  BY <1>4 DEF Serially, NobodyLate
<1>5. ASSUME NEW w \in Worker,
             \/ CreateReceivable(w) \/ UpdateReceivable(w) \/ ConfirmReceivable(w)
             \/ DeleteReceivable(w) \/ RecordTransaction(w) \/ UpdateItem(w)
      PROVE  NobodyLate'
  <2>1. CASE CreateReceivable(w)
    <3>1. PICK r \in Receivable \ created : \E new : Handle(w, "insert", r, NULL, new, NULL)
      BY <2>1, Zenon DEF CreateReceivable
    <3>2. receivable[r] = NULL
      BY DEF IdsFresh
    <3> QED
      BY <1>2, <3>1, <3>2 DEF InvoiceOps, ItemOps
  <2>2. CASE UpdateReceivable(w)
    <3>1. PICK r \in Receivable : \E new : Handle(w, "update", r, receivable[r], new, NULL)
      BY <2>2, Zenon DEF UpdateReceivable
    <3> QED
      BY <1>2, <3>1 DEF InvoiceOps, ItemOps
  <2>3. CASE ConfirmReceivable(w)
    <3>1. PICK r \in Receivable : \E new : Handle(w, "update", r, receivable[r], new, NULL)
      BY <2>3, Zenon DEF ConfirmReceivable
    <3> QED
      BY <1>2, <3>1 DEF InvoiceOps, ItemOps
  <2>4. CASE DeleteReceivable(w)
    <3>1. PICK r \in Receivable : Handle(w, "delete", r, receivable[r], NULL, NULL)
      BY <2>4, Zenon DEF DeleteReceivable
    <3> QED
      BY <1>2, <3>1 DEF InvoiceOps, ItemOps
  <2>5. CASE RecordTransaction(w)
    <3>1. PICK i \in Item : \E new, txn : Handle(w, "move", i, item[i], new, txn)
      BY <2>5, Zenon DEF RecordTransaction
    <3> QED
      BY <1>2, <3>1 DEF InvoiceOps, ItemOps
  <2>6. CASE UpdateItem(w)
    <3>1. PICK i \in Item : \E new : Handle(w, "activate", i, item[i], new, NULL)
      BY <2>6, Zenon DEF UpdateItem
    <3> QED
      BY <1>2, <3>1 DEF InvoiceOps, ItemOps
  <2> QED
    BY <1>5, <2>1, <2>2, <2>3, <2>4, <2>5, <2>6
<1>6. ASSUME \/ \E p \in ProjectCode :
                    \/ CreateProject(p) \/ UpdateProject(p)
                    \/ \E table \in ReferringTable : Refer(table, p)
             \/ \E codes \in SUBSET ProjectCode : ImportProjects(codes)
             \/ \E i \in Item : CreateItem(i)
      PROVE  NobodyLate'
  BY <1>4, <1>6 DEF CreateProject, UpdateProject, Refer, ImportProjects, CreateItem
<1>7. ASSUME NEW w \in Worker, DeleteProject(w)
      PROVE  NobodyLate'
  <2>1. PICK req : req.op = "delete_project" /\ request' = [request EXCEPT ![w] = req]
    BY <1>7, Zenon DEF DeleteProject
  <2>2. request'[w] = req /\ \A v \in Worker : v # w => request'[v] = request[v]
    BY <2>1
  <2>3. UNCHANGED <<receivable, item, overlapped>>
    BY <1>7 DEF DeleteProject, tables
  <2> QED
    BY <2>1, <2>2, <2>3 DEF NobodyLate, StillThere, InvoiceOps, ItemOps
<1> QED
  BY <1>3, <1>5, <1>6, <1>7 DEF Next

\* PaymentsAddUp, row by row, and StockMatchesMovements without their exception.
LedgerAgrees ==
    /\ \A r \in Receivable : receivable[r] # NULL => Coherent(receivable[r])
    /\ \A i \in Item : item[i] # NULL =>
           /\ item[i].qty_on_hand = Recorded(movements[i])
           /\ item[i].is_active \/ item[i].qty_on_hand = 0

\* What the properties except is the overlap of handlers and nothing else: one at a time,
\* no payment exceeds its invoice, the stored remainder is what is left, and the stock is
\* what its movements add up to, always (update_receivable, record_transaction).
THEOREM SerialLedgerAgrees == Spec /\ [][Serially]_vars => []LedgerAgrees
<1>1. Init => NobodyLate
  BY DEF Init, NobodyLate
<1>2. IInv => IdsFresh /\ DOMAIN request = Worker
  BY DEF IInv, TablesTyped
<1>3. IInv /\ NobodyLate /\ [Next]_vars /\ [Serially]_vars => NobodyLate'
  BY <1>2, NobodyLateKept
<1>4. IInv /\ NobodyLate => LedgerAgrees
  BY DEF IInv, NobodyLate, RowsCoherent, StockMatchesMovements, LedgerAgrees
<1> QED
  BY <1>1, <1>3, <1>4, Inductive, PTL DEF Spec
===============================================================================
