--------------------------- MODULE TimekeepingProofs ---------------------------
(***************************************************************************)
(* Proofs about leave, balances, certificates, attendance and overtime,    *)
(* for any days, types, users, workers and bounds.  Nothing rests on       *)
(* OnlyLeave and OnlyAttendance: the invariant holds when requests of both *)
(* kinds overlap.                                                          *)
(***************************************************************************)
EXTENDS Timekeeping, FiniteSetTheorems, WellFoundedInduction, TLAPS

---------------------------------------------------------------------------
\* The inductive invariant: leave.

\* The days of year y that a row counts when the calendar closes the days off.
Counted(row, y, off) == {d \in Span(row) : YearOf[d] = y} \ (Weekend \cup off)

\* The days the approved rows of a type take in a year, with the request of each.
Taken(rows, t, y, off) ==
    {ld \in Leave \X Day :
        /\ rows[ld[1]] # NULL
        /\ rows[ld[1]].type = t
        /\ rows[ld[1]].status = "APPROVED"
        /\ ld[2] \in Counted(rows[ld[1]], y, off)}

\* What every row of leave requests satisfies, and one about to be inserted.
RowSound(row) ==
    /\ row \in LeaveRequest
    /\ Span(row) \subseteq Day
    /\ row.status = "SUBMITTED" => row.step < Len(Chain(row.type))
    /\ LeaveType[row.type].requires_doctor_cert => row.cert \in Certificate

LeaveTyped ==
    /\ leave \in [Leave -> LeaveRequest \cup {NULL}]
    /\ \A l \in Leave : leave[l] # NULL => RowSound(leave[l])
    /\ balance \in [Type -> [Year -> LeaveBalance \cup {NULL}]]
    /\ certificate \in [Certificate -> User \cup {NULL}]
    /\ uploaded \subseteq Certificate
    /\ steady \in BOOLEAN

BalanceSound(t, y) ==
    /\ Balances(t)[y].used <= Balances(t)[y].accrued
    /\ steady /\ ~ Unlimited(t) =>
           Balances(t)[y].used = Cardinality(Taken(leave, t, y, holidays))

BalancesSound == \A t \in Type, y \in Year : BalanceSound(t, y)

\* Whether two rows keep apart.
Apart(row, other) ==
    /\ row.status # "REJECTED" => ~ Overlaps(row, other)
    /\ LeaveType[row.type].requires_doctor_cert /\ LeaveType[other.type].requires_doctor_cert
           => row.cert # other.cert

\* Whether the certificate of a row is among the files on disk.
Filed(row, files) == LeaveType[row.type].requires_doctor_cert => files[row.cert] # NULL

RequestsApart ==
    \A l \in Leave \ raced : leave[l] # NULL =>
        /\ \A k \in Leave \ (raced \cup {l}) : leave[k] # NULL => Apart(leave[l], leave[k])
        /\ Filed(leave[l], certificate)

---------------------------------------------------------------------------
\* Attendance.

AttendanceTyped ==
    /\ attendance \in [Day -> AttendanceRecord \cup {NULL}]
    /\ overtime \in [Overtime -> OvertimeRequest \cup {NULL}]

ShiftsSound ==
    /\ IsFiniteSet(OpenDays)
    /\ \A c, d \in OpenDays \ unchecked : c = d

OvertimeSound ==
    \A o \in Overtime : overtime[o] # NULL =>
        /\ overtime[o].linked <=> attendance[overtime[o].date] # NULL
        /\ \A p \in Overtime \ {o} : overtime[p] # NULL /\ overtime[p].date = overtime[o].date
               => "REJECTED" \in {overtime[o].status, overtime[p].status}

---------------------------------------------------------------------------
\* The requests under way.

SubmitRecord ==
    [op : {"submit"}, row : LeaveRequest, created : SUBSET Year, allocations : [Year -> Nat],
     late : BOOLEAN]
FilesRecord ==
    [op : {"files"}, removed : SUBSET Certificate, added : Certificate \cup {NULL}, owner : User,
     late : BOOLEAN]
ClockRecord == [op : {"clock_in"}, date : Day, late : BOOLEAN, found : BOOLEAN]

\* What holds of a request however long it waits.
Typed(req) ==
    \/ req = Idle
    \/ /\ req \in SubmitRecord
       /\ RowSound(req.row)
       /\ req.row.status # "REJECTED"
       /\ steady => req.allocations = leave_days_by_year(Span(req.row))
    \/ req \in FilesRecord
    \/ req \in ClockRecord /\ (req.found => attendance[req.date] # NULL)

\* What holds as long as no other handler committed.
Fresh(req) ==
    /\ req.op = "submit" =>
           /\ \A l \in Leave : leave[l] # NULL => Apart(req.row, leave[l])
           /\ Filed(req.row, certificate)
    /\ req.op = "files" => \A l \in Leave : leave[l] # NULL => leave[l].cert \notin req.removed
    /\ req.op = "clock_in" => OpenDays = {}

RequestSound(req) == Typed(req) /\ (req # Idle /\ ~ req.late => Fresh(req))

RequestsSound == \A w \in Worker : RequestSound(request[w])

LeaveInv == LeaveTyped /\ BalancesSound /\ RequestsApart
AttendanceInv == AttendanceTyped /\ ShiftsSound /\ OvertimeSound

IInv ==
    /\ LeaveInv
    /\ AttendanceInv
    /\ DOMAIN request = Worker
    /\ RequestsSound

---------------------------------------------------------------------------
\* Numbers and finite sets have least and greatest members.

\* Every set of numbers that is not empty has a least one.
LEMMA LeastNumber ==
    ASSUME NEW T \in SUBSET Nat, T # {}
    PROVE  \E n \in T : \A m \in T : n <= m
<1> DEFINE less == {ss \in Nat \X Nat : ss[1] < ss[2]}
<1>1. IsWellFoundedOn(less, Nat)
  BY NatLessThanWellFounded DEF OpToRel
<1>2. PICK n \in T : \A m \in T : <<m, n>> \notin less
  BY <1>1, WFMin
<1>3. \A m \in T : ~ (m < n)
  BY <1>2
<1> QED
  BY <1>3

\* Min chooses a member of the set.
LEMMA MinMember ==
    ASSUME NEW T \in SUBSET Nat, T # {}
    PROVE  Min(T) \in T
<1>1. \E n \in T : \A m \in T : n <= m
  BY LeastNumber
<1> QED
  BY <1>1 DEF Min

\* Max does, too, when the set is finite: a smallest subset without a greatest member
\* would still have one after the loss of a member.
LEMMA MaxMember ==
    ASSUME NEW S \in SUBSET Nat, IsFiniteSet(S), S # {}
    PROVE  Max(S) \in S
<1> DEFINE Topped(s) == \E n \in s : \A m \in s : n >= m
<1> DEFINE bad == {s \in SUBSET S : s # {} /\ ~ Topped(s)}
<1> DEFINE sizes == {Cardinality(s) : s \in bad}
<1>1. ASSUME NEW s \in SUBSET S
      PROVE  IsFiniteSet(s) /\ Cardinality(s) \in Nat
  BY FS_Subset, FS_CardinalityType
<1>2. ASSUME bad # {}
      PROVE  FALSE
  <2>1. sizes \in SUBSET Nat /\ sizes # {}
    BY <1>1, <1>2
  <2>2. PICK n \in sizes : \A m \in sizes : n <= m
    <3> HIDE DEF sizes
    <3> QED
      BY <2>1, LeastNumber
  <2>3. PICK s \in bad : n = Cardinality(s)
    BY <2>2
  <2>4. PICK x \in s : TRUE
    BY <2>3
  <2> DEFINE rest == s \ {x}
  <2>5. Cardinality(rest) < n
    BY <1>1, <2>3, <2>4, FS_RemoveElement
  <2>6. rest \notin bad
    <3>1. \A m \in bad : n <= Cardinality(m)
      BY <2>2
    <3>2. n \in Nat /\ rest \in SUBSET S
      BY <1>1, <2>3
    <3> HIDE DEF bad, sizes, rest
    <3> QED
      BY <1>1, <2>5, <3>1, <3>2
  <2>7. rest = {} \/ Topped(rest)
    BY <2>3, <2>6
  <2>8. Topped(s)
    <3>1. CASE rest = {}
      <4>1. x \in Nat /\ s = {x}
        BY <2>3, <2>4, <3>1
      <4> QED
        BY <4>1
    <3>2. CASE Topped(rest)
      <4>1. PICK n1 \in rest : \A m \in rest : n1 >= m
        BY <3>2
      <4>2. x \in Nat /\ s \subseteq Nat /\ n1 \in Nat
        BY <2>3, <2>4
      <4>3. CASE n1 >= x
        BY <4>1, <4>2, <4>3, <2>4
      <4>4. CASE x >= n1
        BY <4>1, <4>2, <4>4, <2>4
      <4> QED
        BY <4>2, <4>3, <4>4
    <3> QED
      BY <2>7, <3>1, <3>2
  <2> QED
    BY <2>3, <2>8
<1>3. Topped(S)
  BY <1>2
<1> QED
  BY <1>3 DEF Max

---------------------------------------------------------------------------
\* Days counted and days taken.

\* The columns of a row.
LEMMA RowColumns ==
    ASSUME NEW row \in LeaveRequest
    PROVE  /\ row.type \in Type
           /\ row.first \in Day /\ row.first \in Int
           /\ row.last \in Day /\ row.last \in Int
           /\ row.days \in Nat
           /\ row.status \in {"SUBMITTED", "APPROVED", "REJECTED"}
           /\ row.step \in 0..2
           /\ row.cert \in Certificate \cup {NULL}
           /\ row # NULL
<1>1. Len(_LEAVE_APPROVAL_CHAIN) = 2
  BY DEF _LEAVE_APPROVAL_CHAIN
<1>2. row \in [type : Type, first : Day, last : Day, days : Nat,
                 status : {"SUBMITTED", "APPROVED", "REJECTED"}, step : 0..2,
                 cert : Certificate \cup {NULL}]
  BY Zenon, <1>1 DEF LeaveRequest
<1>3. row # NULL
  BY LeaveRowAssumption
<1>4. Day \subseteq Int
  BY CalendarAssumption
<1> QED
  BY <1>2, <1>3, <1>4

\* A row counts finitely many days.
LEMMA SpanFinite ==
    ASSUME NEW row, RowSound(row), NEW y \in Year, NEW off
    PROVE  /\ IsFiniteSet(Span(row))
           /\ IsFiniteSet(Counted(row, y, off))
           /\ Counted(row, y, off) \subseteq Day
           /\ Cardinality(Counted(row, y, off)) \in Nat
<1>1. row.first \in Int /\ row.last \in Int /\ Span(row) \subseteq Day
  BY RowColumns DEF RowSound
<1>2. IsFiniteSet(Span(row))
  BY <1>1, FS_Interval DEF Span
<1>3. Counted(row, y, off) \in SUBSET Span(row)
  BY DEF Counted
<1>4. IsFiniteSet(Counted(row, y, off))
  BY <1>2, <1>3, FS_Subset
<1> QED
  BY <1>1, <1>2, <1>3, <1>4, FS_CardinalityType

\* The days of a span by year are numbers: as many as a row counts.
LEMMA DaysByYear ==
    ASSUME NEW row, RowSound(row)
    PROVE  /\ leave_days_by_year(Span(row)) \in [Year -> Nat]
           /\ \A y \in Year :
                  leave_days_by_year(Span(row))[y] = Cardinality(Counted(row, y, holidays))
<1>1. \A y \in Year :
          leave_days_by_year(Span(row))[y] = Cardinality(Counted(row, y, holidays))
  BY DEF leave_days_by_year, leave_duration, Counted
<1>2. \A y \in Year : Cardinality(Counted(row, y, holidays)) \in Nat
  BY SpanFinite
<1> QED
  BY <1>1, <1>2 DEF leave_days_by_year

RowsSound(rows) == \A l \in Leave : rows[l] # NULL => RowSound(rows[l])

\* The days taken are finitely many: a span for each of finitely many requests.
LEMMA TakenFinite ==
    ASSUME NEW rows, RowsSound(rows), NEW t \in Type, NEW y \in Year, NEW off
    PROVE  /\ IsFiniteSet(Taken(rows, t, y, off))
           /\ Cardinality(Taken(rows, t, y, off)) \in Nat
<1> DEFINE filled == {l \in Leave : rows[l] # NULL}
<1> DEFINE spans == {Span(rows[l]) : l \in filled}
<1> DEFINE spanOf == [l \in filled |-> Span(rows[l])]
<1>1. IsFiniteSet(Leave) /\ IsFiniteSet(filled)
  <2>1. IsFiniteSet(Leave)
    BY LeaveAssumption, FS_Interval DEF Leave
  <2> QED
    BY <2>1, FS_Subset
<1>2. spanOf \in Surjection(filled, spans)
  BY DEF Surjection
<1>3. IsFiniteSet(spans)
  <2> HIDE DEF filled, spans, spanOf
  <2> QED
    BY <1>1, <1>2, FS_Surjection
<1>4. \A s \in spans : IsFiniteSet(s)
  BY SpanFinite DEF RowsSound
<1>5. IsFiniteSet(UNION spans)
  <2> HIDE DEF spans
  <2> QED
    BY <1>3, <1>4, FS_UNION
<1>6. IsFiniteSet(Leave \X UNION spans)
  <2> HIDE DEF spans
  <2> QED
    BY <1>1, <1>5, FS_Product
<1>7. Taken(rows, t, y, off) \in SUBSET (Leave \X UNION spans)
  BY DEF Taken, Counted
<1> QED
  <2> HIDE DEF spans
  <2> QED
    BY <1>6, <1>7, FS_Subset, FS_CardinalityType

\* Only row l differs.
Replaced(rows, rows2, l) == \A k \in Leave \ {l} : rows2[k] = rows[k]

Unapproved(row) == row = NULL \/ row.status # "APPROVED"

\* What becomes of one row, as long as it is not approved, does not change the days taken.
LEMMA TakenSame ==
    ASSUME NEW rows, NEW rows2, NEW l \in Leave, NEW t, NEW y, NEW off,
           Replaced(rows, rows2, l), Unapproved(rows[l]), Unapproved(rows2[l])
    PROVE  Taken(rows2, t, y, off) = Taken(rows, t, y, off)
<1>1. ASSUME NEW ld \in Leave \X Day
      PROVE  ld \in Taken(rows2, t, y, off) <=> ld \in Taken(rows, t, y, off)
  <2>1. ld[1] \in Leave
    OBVIOUS
  <2>2. CASE ld[1] = l
    BY <2>2 DEF Taken, Unapproved
  <2>3. CASE ld[1] # l
    <3>1. rows2[ld[1]] = rows[ld[1]]
      BY <2>1, <2>3 DEF Replaced
    <3> QED
      BY <3>1 DEF Taken
  <2> QED
    BY <2>2, <2>3
<1> QED
  BY <1>1 DEF Taken

\* When a row becomes approved, the days it counts are added to those taken of its type.
LEMMA TakenGrows ==
    ASSUME NEW rows, NEW rows2, RowsSound(rows), NEW l \in Leave,
           NEW t \in Type, NEW y \in Year, NEW off,
           Replaced(rows, rows2, l), Unapproved(rows[l]), RowSound(rows2[l]),
           rows2[l].status = "APPROVED"
    PROVE  Cardinality(Taken(rows2, t, y, off)) =
               IF t = rows2[l].type
               THEN Cardinality(Taken(rows, t, y, off)) + Cardinality(Counted(rows2[l], y, off))
               ELSE Cardinality(Taken(rows, t, y, off))
<1> DEFINE before == Taken(rows, t, y, off)
<1> DEFINE days == Counted(rows2[l], y, off)
<1> DEFINE added == {l} \X days
<1>1. rows2[l] # NULL
  BY RowColumns DEF RowSound
<1>2. days \subseteq Day /\ IsFiniteSet(days) /\ Cardinality(days) \in Nat
  BY SpanFinite
<1>3. IsFiniteSet(before) /\ Cardinality(before) \in Nat
  BY TakenFinite
<1>4. ASSUME NEW ld \in Leave \X Day
      PROVE  ld \in Taken(rows2, t, y, off)
                 <=> ld \in before \/ (t = rows2[l].type /\ ld \in added)
  <2>1. ld[1] \in Leave /\ ld = <<ld[1], ld[2]>>
    OBVIOUS
  <2>2. CASE ld[1] = l
    <3>1. ld \notin before
      BY <2>2 DEF Taken, Unapproved
    <3>2. ld \in added <=> ld[2] \in days
      BY <2>1, <2>2
    <3>3. ld \in Taken(rows2, t, y, off) <=> t = rows2[l].type /\ ld[2] \in days
      BY <1>1, <2>2 DEF Taken
    <3> QED
      BY <3>1, <3>2, <3>3
  <2>3. CASE ld[1] # l
    <3>1. rows2[ld[1]] = rows[ld[1]]
      BY <2>1, <2>3 DEF Replaced
    <3>2. ld \notin added
      BY <2>1, <2>3
    <3>3. ld \in Taken(rows2, t, y, off) <=> ld \in before
      BY <3>1 DEF Taken
    <3> QED
      BY <3>2, <3>3
  <2> QED
    BY <2>2, <2>3
<1>5. before \subseteq Leave \X Day /\ Taken(rows2, t, y, off) \subseteq Leave \X Day
  BY DEF Taken
<1>6. added \subseteq Leave \X Day
  BY <1>2
<1>7. CASE t = rows2[l].type
  <2>1. Taken(rows2, t, y, off) = before \cup added
    <3> HIDE DEF before, added
    <3> QED
      BY <1>4, <1>5, <1>6, <1>7
  <2>2. before \cap added = {}
    BY DEF Taken, Unapproved
  <2>3. IsFiniteSet({l}) /\ Cardinality({l}) = 1
    BY FS_Singleton
  <2>4. IsFiniteSet(added) /\ Cardinality(added) = Cardinality(days)
    <3> HIDE DEF days
    <3>1. IsFiniteSet(added) /\ Cardinality(added) = 1 * Cardinality(days)
      BY <1>2, <2>3, FS_Product
    <3> QED
      BY <1>2, <3>1
  <2> HIDE DEF before, added, days
  <2>5. Cardinality(before \cup added) = Cardinality(before) + Cardinality(days)
    <3>1. Cardinality(before \cup added) =
              Cardinality(before) + Cardinality(added) - Cardinality(before \cap added)
      BY <1>3, <2>4, FS_Union
    <3>2. Cardinality(before \cap added) = 0
      BY <2>2, FS_EmptySet
    <3> QED
      BY <1>2, <1>3, <2>4, <3>1, <3>2
  <2> QED
    BY <1>7, <2>1, <2>5 DEF before, days
<1>8. CASE t # rows2[l].type
  <2>1. Taken(rows2, t, y, off) = before
    <3> HIDE DEF before, added
    <3> QED
      BY <1>4, <1>5, <1>8
  <2> QED
    BY <1>8, <2>1
<1> QED
  BY <1>7, <1>8

---------------------------------------------------------------------------
\* Balances.

\* A missing balance row stands for one with the days of its type, none of them used.
LEMMA BalancesTyped ==
    ASSUME LeaveTyped, NEW t \in Type, NEW y \in Year
    PROVE  /\ Balances(t)[y] \in LeaveBalance
           /\ Balances(t)[y].accrued \in Nat
           /\ Balances(t)[y].used \in Nat
           /\ balance[t][y] # NULL => Balances(t)[y] = balance[t][y]
<1>1. LeaveType[t].max_days \in Nat \cup {NULL}
  BY LeaveAssumption DEF LeaveTypeRow
<1>2. Accrued(t) \in Nat
  BY <1>1 DEF Accrued
<1>3. balance[t][y] \in LeaveBalance \cup {NULL}
  BY DEF LeaveTyped
<1>4. Balances(t)[y] \in LeaveBalance /\ (balance[t][y] # NULL => Balances(t)[y] = balance[t][y])
  BY <1>2, <1>3 DEF Balances, LeaveBalance
<1> QED
  BY <1>4 DEF LeaveBalance

\* An inserted balance row does not change the balance.
LEMMA BalancesKept ==
    ASSUME LeaveTyped,
           balance' \in [Type -> [Year -> LeaveBalance \cup {NULL}]],
           \A t \in Type, y \in Year : balance'[t][y] \in {balance[t][y], Balances(t)[y]}
    PROVE  \A t \in Type, y \in Year : Balances(t)'[y] = Balances(t)[y]
<1> SUFFICES ASSUME NEW t \in Type, NEW y \in Year
             PROVE  Balances(t)'[y] = Balances(t)[y]
  OBVIOUS
<1>1. Balances(t)'[y] = IF balance'[t][y] # NULL THEN balance'[t][y]
                        ELSE [accrued |-> Accrued(t), used |-> 0]
  BY DEF Balances, Accrued
<1>2. Balances(t)[y] = IF balance[t][y] # NULL THEN balance[t][y]
                       ELSE [accrued |-> Accrued(t), used |-> 0]
  BY DEF Balances
<1>3. Balances(t)[y] # NULL
  BY BalancesTyped, LeaveRowAssumption
<1> QED
  BY <1>1, <1>2, <1>3

\* A deduction adds what it allocates to the days used, and no balance is overdrawn.
LEMMA Deducted ==
    ASSUME LeaveTyped, BalancesSound, NEW type \in Type, NEW allocations \in [Year -> Nat],
           Deduct(type, allocations)
    PROVE  /\ balance' \in [Type -> [Year -> LeaveBalance \cup {NULL}]]
           /\ \A t \in Type, y \in Year :
                  /\ Balances(t)'[y].used <= Balances(t)'[y].accrued
                  /\ ~ Unlimited(t) => Balances(t)'[y].used =
                         IF t = type THEN Balances(t)[y].used + allocations[y]
                         ELSE Balances(t)[y].used
<1>1. CASE Unlimited(type)
  <2>1. balance' = balance
    BY <1>1 DEF Deduct
  <2>2. \A t \in Type : Balances(t)' = Balances(t)
    BY <2>1 DEF Balances, Accrued
  <2> QED
    BY <1>1, <2>1, <2>2 DEF LeaveTyped, BalancesSound, BalanceSound
<1>2. CASE ~ Unlimited(type)
  <2> DEFINE after(y) == [accrued |-> Balances(type)[y].accrued,
                          used |-> Balances(type)[y].used + allocations[y]]
  <2>1. balance \in [Type -> [Year -> LeaveBalance \cup {NULL}]]
    BY DEF LeaveTyped
  <2>2. \A y \in Year : [Balances(type)[y] EXCEPT !.used = @ + allocations[y]] = after(y)
    BY BalancesTyped DEF LeaveBalance
  <2>3. balance' = [balance EXCEPT ![type] = [y \in Year |->
                       IF y \notin Needed(allocations) THEN balance[type][y] ELSE after(y)]]
    <3>1. balance' = [balance EXCEPT ![type] = [y \in Year |->
                         IF y \notin Needed(allocations) THEN balance[type][y]
                         ELSE [Balances(type)[y] EXCEPT !.used = @ + allocations[y]]]]
      BY <1>2 DEF Deduct
    <3> HIDE DEF after
    <3> QED
      BY <2>2, <3>1
  <2>4. ASSUME NEW y \in Year
        PROVE  after(y) \in LeaveBalance
    BY BalancesTyped DEF LeaveBalance
  <2>5. balance' \in [Type -> [Year -> LeaveBalance \cup {NULL}]]
    <3> HIDE DEF after
    <3> QED
      BY <2>1, <2>3, <2>4
  <2>6. ASSUME NEW t \in Type \ {type}, NEW y \in Year
        PROVE  Balances(t)'[y] = Balances(t)[y]
    <3>1. balance'[t] = balance[t]
      BY <2>1, <2>3
    <3> QED
      BY <3>1 DEF Balances, Accrued
  <2>7. ASSUME NEW y \in Year
        PROVE  /\ Balances(type)'[y].used = Balances(type)[y].used + allocations[y]
               /\ Balances(type)'[y].accrued = Balances(type)[y].accrued
               /\ Balances(type)[y].used + allocations[y] <= Balances(type)[y].accrued
    <3>1. Balances(type)[y].used <= Balances(type)[y].accrued
      BY DEF BalancesSound, BalanceSound
    <3>2. allocations[y] \in Nat /\ Balances(type)[y].used \in Nat
          /\ Balances(type)[y].accrued \in Nat
      BY BalancesTyped
    <3>3. CASE y \in Needed(allocations)
      <4>1. balance'[type][y] = after(y)
        BY <2>1, <2>3, <3>3
      <4>2. Balances(type)'[y] = after(y)
        <5>1. after(y) # NULL
          BY <2>4, LeaveRowAssumption
        <5> HIDE DEF after
        <5> QED
          BY <4>1, <5>1 DEF Balances
      <4>3. Balances(type)[y].accrued >= Balances(type)[y].used + allocations[y]
        BY <1>2, <3>3 DEF Deduct, Sufficient
      <4> QED
        BY <3>2, <4>2, <4>3
    <3>4. CASE y \notin Needed(allocations)
      <4>1. balance'[type][y] = balance[type][y]
        BY <2>1, <2>3, <3>4
      <4>2. Balances(type)'[y] = Balances(type)[y]
        BY <4>1 DEF Balances, Accrued
      <4>3. allocations[y] = 0
        BY <3>2, <3>4 DEF Needed
      <4> QED
        BY <3>1, <3>2, <4>2, <4>3
    <3> QED
      BY <3>3, <3>4
  <2> QED
    BY <2>5, <2>6, <2>7 DEF BalancesSound, BalanceSound
<1> QED
  BY <1>1, <1>2

---------------------------------------------------------------------------
\* Rows that keep apart.

LEMMA ApartSymmetric ==
    ASSUME NEW row \in LeaveRequest, NEW other \in LeaveRequest,
           Apart(row, other), row.status # "REJECTED"
    PROVE  Apart(other, row)
<1>1. row.first \in Int /\ row.last \in Int /\ other.first \in Int /\ other.last \in Int
  BY RowColumns
<1>2. row.status \in {"SUBMITTED", "APPROVED"}
      /\ other.status \in {"SUBMITTED", "APPROVED", "REJECTED"}
  BY RowColumns
<1> QED
  BY <1>1, <1>2 DEF Apart, Overlaps

\* A decision keeps what the row asks for.
Signed(row, new) ==
    /\ row.status = "SUBMITTED"
    /\ new.type = row.type
    /\ new.first = row.first
    /\ new.last = row.last
    /\ new.cert = row.cert

LEMMA ApartSigned ==
    ASSUME NEW row, NEW new, NEW other, Signed(row, new)
    PROVE  /\ Apart(row, other) => Apart(new, other)
           /\ Apart(other, row) => Apart(other, new)
BY DEF Signed, Apart, Overlaps

\* A decision keeps requests apart, and their certificates on disk.
LEMMA DecisionApart ==
    ASSUME LeaveTyped, RequestsApart,
           NEW l \in Leave, leave[l] # NULL, NEW new, Signed(leave[l], new),
           leave' = [leave EXCEPT ![l] = new],
           UNCHANGED <<certificate, raced>>
    PROVE  RequestsApart'
<1>1. leave'[l] = new /\ \A k \in Leave \ {l} : leave'[k] = leave[k]
  BY DEF LeaveTyped
<1> SUFFICES ASSUME NEW k \in Leave \ raced, leave'[k] # NULL
             PROVE  /\ \A j \in Leave \ (raced \cup {k}) : leave'[j] # NULL =>
                           Apart(leave'[k], leave'[j])
                    /\ Filed(leave'[k], certificate')
  BY DEF RequestsApart
<1>2. ASSUME NEW j \in Leave \ (raced \cup {k}), leave'[j] # NULL
      PROVE  Apart(leave'[k], leave'[j])
  <2>1. leave[k] # NULL /\ leave[j] # NULL
    BY <1>1, <1>2
  <2>2. Apart(leave[k], leave[j])
    BY <1>2, <2>1 DEF RequestsApart
  <2>3. CASE k = l
    <3>1. j # l /\ leave'[j] = leave[j] /\ leave'[k] = new
      BY <1>1, <2>3
    <3> QED
      BY <2>2, <2>3, <3>1, ApartSigned
  <2>4. CASE j = l
    <3>1. leave'[k] = leave[k] /\ leave'[j] = new
      BY <1>1, <2>4
    <3> QED
      BY <2>2, <2>4, <3>1, ApartSigned
  <2>5. CASE k # l /\ j # l
    BY <1>1, <2>2, <2>5
  <2> QED
    BY <2>3, <2>4, <2>5
<1>3. Filed(leave'[k], certificate')
  <2>1. leave[k] # NULL
    BY <1>1
  <2>2. Filed(leave[k], certificate)
    BY <2>1 DEF RequestsApart
  <2>3. CASE k = l
    BY <1>1, <2>2, <2>3 DEF Filed, Signed
  <2>4. CASE k # l
    BY <1>1, <2>2, <2>4 DEF Filed
  <2> QED
    BY <2>3, <2>4
<1> QED
  BY <1>2, <1>3

---------------------------------------------------------------------------
\* The steps of leave.

\* A decision that deducts nothing.
LEMMA UndeductedKept ==
    ASSUME LeaveInv,
           NEW l \in Leave, leave[l] # NULL, NEW new, Signed(leave[l], new),
           RowSound(new), new.status # "APPROVED",
           leave' = [leave EXCEPT ![l] = new],
           UNCHANGED <<holidays, balance, certificate, uploaded, raced, steady>>
    PROVE  LeaveInv'
<1>1. leave'[l] = new /\ \A k \in Leave \ {l} : leave'[k] = leave[k]
  BY DEF LeaveInv, LeaveTyped
<1>2. leave \in [Leave -> LeaveRequest \cup {NULL}] /\ new \in LeaveRequest
      /\ \A k \in Leave : leave[k] # NULL => RowSound(leave[k])
  BY DEF LeaveInv, LeaveTyped, RowSound
<1>3. leave' \in [Leave -> LeaveRequest \cup {NULL}]
  BY <1>2
<1>4. \A k \in Leave : leave'[k] # NULL => RowSound(leave'[k])
  BY <1>1, <1>2
<1>5. LeaveTyped'
  BY <1>3, <1>4 DEF LeaveInv, LeaveTyped
<1>6. RequestsApart'
  BY DecisionApart DEF LeaveInv
<1>7. ASSUME NEW t \in Type, NEW y \in Year
      PROVE  BalanceSound(t, y)'
  <2>1. BalanceSound(t, y)
    BY DEF LeaveInv, BalancesSound
  <2>2. Unapproved(leave[l]) /\ Unapproved(leave'[l]) /\ Replaced(leave, leave', l)
    BY <1>1 DEF Signed, Unapproved, Replaced
  <2>3. Taken(leave', t, y, holidays) = Taken(leave, t, y, holidays)
    <3>1. PICK rows, rows2, off : rows = leave /\ rows2 = leave' /\ off = holidays
      OBVIOUS
    <3>2. Replaced(rows, rows2, l) /\ Unapproved(rows[l]) /\ Unapproved(rows2[l])
      BY <2>2, <3>1
    <3>3. Taken(rows2, t, y, off) = Taken(rows, t, y, off)
      BY <3>2, TakenSame
    <3> QED
      BY <3>1, <3>3
  <2>4. Balances(t)' = Balances(t)
    BY DEF Balances, Accrued
  <2> QED
    BY <2>1, <2>3, <2>4 DEF BalanceSound
<1> QED
  BY <1>5, <1>6, <1>7 DEF LeaveInv, BalancesSound

\* The last signature.
LEMMA DeductedKept ==
    ASSUME LeaveInv,
           NEW l \in Leave, NEW new, RowSound(new), new.status = "APPROVED",
           leave[l] = NULL \/ leave[l].status # "APPROVED",
           leave' = [leave EXCEPT ![l] = new],
           NEW allocations \in [Year -> Nat],
           steady => \A y \in Year : allocations[y] = Cardinality(Counted(new, y, holidays)),
           Deduct(new.type, allocations),
           UNCHANGED <<holidays, certificate, uploaded, steady>>
    PROVE  LeaveTyped' /\ BalancesSound'
<1>1. leave'[l] = new /\ \A k \in Leave \ {l} : leave'[k] = leave[k]
  BY DEF LeaveInv, LeaveTyped
<1>2. leave \in [Leave -> LeaveRequest \cup {NULL}] /\ new \in LeaveRequest
      /\ \A k \in Leave : leave[k] # NULL => RowSound(leave[k])
  BY DEF LeaveInv, LeaveTyped, RowSound
<1>3. leave' \in [Leave -> LeaveRequest \cup {NULL}]
  BY <1>2
<1>4. \A k \in Leave : leave'[k] # NULL => RowSound(leave'[k])
  BY <1>1, <1>2
<1>5. new.type \in Type
  BY <1>2, RowColumns
<1>6. /\ balance' \in [Type -> [Year -> LeaveBalance \cup {NULL}]]
      /\ \A t \in Type, y \in Year :
             /\ Balances(t)'[y].used <= Balances(t)'[y].accrued
             /\ ~ Unlimited(t) => Balances(t)'[y].used =
                    IF t = new.type THEN Balances(t)[y].used + allocations[y]
                    ELSE Balances(t)[y].used
  BY <1>5, Deducted DEF LeaveInv
<1>7. LeaveTyped'
  BY <1>3, <1>4, <1>6 DEF LeaveInv, LeaveTyped
<1>8. ASSUME NEW t \in Type, NEW y \in Year
      PROVE  BalanceSound(t, y)'
  <2>1. Balances(t)'[y].used <= Balances(t)'[y].accrued
    BY <1>6
  <2>2. ASSUME steady, ~ Unlimited(t)
        PROVE  Balances(t)'[y].used = Cardinality(Taken(leave', t, y, holidays))
    <3>1. Balances(t)[y].used = Cardinality(Taken(leave, t, y, holidays))
      BY <2>2 DEF LeaveInv, BalancesSound, BalanceSound
    <3>2. /\ RowsSound(leave) /\ RowSound(leave'[l]) /\ leave'[l].status = "APPROVED"
          /\ Unapproved(leave[l]) /\ Replaced(leave, leave', l)
      BY <1>1, <1>2 DEF RowsSound, Unapproved, Replaced
    <3>3. Cardinality(Taken(leave', t, y, holidays)) =
              IF t = leave'[l].type
              THEN Cardinality(Taken(leave, t, y, holidays))
                       + Cardinality(Counted(leave'[l], y, holidays))
              ELSE Cardinality(Taken(leave, t, y, holidays))
      <4>1. PICK rows, rows2, off : rows = leave /\ rows2 = leave' /\ off = holidays
        OBVIOUS
      <4>2. /\ RowsSound(rows) /\ RowSound(rows2[l]) /\ rows2[l].status = "APPROVED"
            /\ Unapproved(rows[l]) /\ Replaced(rows, rows2, l)
        BY <3>2, <4>1
      <4>3. Cardinality(Taken(rows2, t, y, off)) =
                IF t = rows2[l].type
                THEN Cardinality(Taken(rows, t, y, off)) + Cardinality(Counted(rows2[l], y, off))
                ELSE Cardinality(Taken(rows, t, y, off))
        BY <4>2, TakenGrows
      <4> QED
        BY <4>1, <4>3
    <3>4. Balances(t)'[y].used = IF t = new.type THEN Balances(t)[y].used + allocations[y]
                                 ELSE Balances(t)[y].used
      BY <1>6, <2>2
    <3>5. allocations[y] = Cardinality(Counted(new, y, holidays))
      BY <2>2
    <3> QED
      BY <1>1, <3>1, <3>3, <3>4, <3>5
  <2> QED
    BY <2>1, <2>2 DEF BalanceSound, Unlimited
<1> QED
  BY <1>7, <1>8 DEF BalancesSound

LEMMA ApproveKept == ASSUME LeaveInv, NEW l \in Requests, ApproveLeave(l)
                     PROVE  LeaveInv' /\ Signed(leave[l], leave'[l])
<1> DEFINE row == leave[l]
           signed == [row EXCEPT !.step = @ + 1]
           approved == [signed EXCEPT !.status = "APPROVED"]
           days == leave_days_by_year(Span(row))
<1>1. /\ row.status = "SUBMITTED"
      /\ IF row.step + 1 >= Len(Chain(row.type))
         THEN /\ Deduct(row.type, days)
              /\ leave' = [leave EXCEPT ![l] = approved]
         ELSE leave' = [leave EXCEPT ![l] = signed] /\ UNCHANGED balance
      /\ UNCHANGED <<holidays, certificate, uploaded, raced, steady>>
  BY DEF ApproveLeave
<1>2. l \in Leave /\ row # NULL /\ RowSound(row) /\ row \in LeaveRequest
      /\ leave \in [Leave -> LeaveRequest \cup {NULL}]
  BY DEF LeaveInv, LeaveTyped, Requests, RowSound
<1>3. Len(Chain(row.type)) \in 0..2
  BY DEF Chain, _LEAVE_APPROVAL_CHAIN
<1>4. row.step \in 0..2 /\ row.step < Len(Chain(row.type))
  BY <1>1, <1>2, RowColumns DEF RowSound
<1>5. /\ signed.step = row.step + 1
      /\ signed.status = row.status
      /\ signed.type = row.type /\ approved.type = row.type
      /\ signed.cert = row.cert /\ approved.cert = row.cert
      /\ Signed(row, signed)
      /\ Signed(row, approved)
      /\ approved.status = "APPROVED"
      /\ Span(signed) = Span(row)
      /\ Span(approved) = Span(row)
  <2>1. row \in [type : Type, first : Day, last : Day, days : Nat,
                 status : {"SUBMITTED", "APPROVED", "REJECTED"},
                 step : 0..Len(_LEAVE_APPROVAL_CHAIN), cert : Certificate \cup {NULL}]
    BY Zenon, <1>2 DEF LeaveRequest
  <2> QED
    BY <1>1, <2>1 DEF Signed, Span
<1>6. signed \in LeaveRequest /\ approved \in LeaveRequest
  <2>1. Len(_LEAVE_APPROVAL_CHAIN) = 2 /\ row.step + 1 \in 0..2
    <3>1. Len(_LEAVE_APPROVAL_CHAIN) = 2
      BY DEF _LEAVE_APPROVAL_CHAIN
    <3> HIDE DEF row
    <3>2. row.step + 1 \in 0..2
      BY <1>3, <1>4
    <3> QED
      BY <3>1, <3>2
  <2>2. row \in [type : Type, first : Day, last : Day, days : Nat,
                 status : {"SUBMITTED", "APPROVED", "REJECTED"},
                 step : 0..2, cert : Certificate \cup {NULL}]
    BY Zenon, <1>2, <2>1 DEF LeaveRequest
  <2>3. /\ signed \in [type : Type, first : Day, last : Day, days : Nat,
                       status : {"SUBMITTED", "APPROVED", "REJECTED"},
                       step : 0..2, cert : Certificate \cup {NULL}]
        /\ approved \in [type : Type, first : Day, last : Day, days : Nat,
                         status : {"SUBMITTED", "APPROVED", "REJECTED"},
                         step : 0..2, cert : Certificate \cup {NULL}]
    BY <2>1, <2>2
  <2> HIDE DEF signed, approved
  <2> QED
    BY Zenon, <2>1, <2>3 DEF LeaveRequest
<1> HIDE DEF signed, approved
<1>7. CASE row.step + 1 >= Len(Chain(row.type))
  <2>1. Deduct(row.type, days) /\ leave' = [leave EXCEPT ![l] = approved]
    BY <1>1, <1>7
  <2>2. RowSound(approved)
    BY <1>2, <1>5, <1>6 DEF RowSound
  <2>3. days \in [Year -> Nat]
        /\ \A y \in Year : days[y] = Cardinality(Counted(approved, y, holidays))
    BY <1>2, <1>5, DaysByYear DEF Counted
  <2>4. leave[l].status # "APPROVED"
    BY <1>1
  <2> HIDE DEF days
  <2>5. LeaveTyped' /\ BalancesSound'
    BY <1>1, <1>2, <1>5, <2>1, <2>2, <2>3, <2>4, DeductedKept
  <2>6. RequestsApart'
    BY <1>1, <1>2, <1>5, <2>1, DecisionApart DEF LeaveInv
  <2> QED
    BY <1>2, <1>5, <2>1, <2>5, <2>6 DEF LeaveInv
<1>8. CASE ~ (row.step + 1 >= Len(Chain(row.type)))
  <2>1. leave' = [leave EXCEPT ![l] = signed] /\ UNCHANGED balance
    BY <1>1, <1>8
  <2>2. RowSound(signed) /\ signed.status # "APPROVED"
    BY <1>1, <1>2, <1>3, <1>4, <1>5, <1>6, <1>8 DEF RowSound
  <2>3. LeaveInv'
    BY <1>1, <1>2, <1>5, <2>1, <2>2, UndeductedKept
  <2> QED
    BY <1>2, <1>5, <2>1, <2>3
<1> QED
  BY <1>7, <1>8

LEMMA RejectKept == ASSUME LeaveInv, NEW l \in Requests, RejectLeave(l)
                    PROVE  LeaveInv' /\ Signed(leave[l], leave'[l])
<1> DEFINE new == [leave[l] EXCEPT !.status = "REJECTED"]
<1>1. l \in Leave /\ leave[l] # NULL /\ RowSound(leave[l]) /\ leave[l] \in LeaveRequest
      /\ leave \in [Leave -> LeaveRequest \cup {NULL}]
  BY DEF LeaveInv, LeaveTyped, Requests, RowSound
<1>2. /\ leave' = [leave EXCEPT ![l] = new]
      /\ UNCHANGED <<holidays, balance, certificate, uploaded, raced, steady>>
      /\ leave[l].status = "SUBMITTED"
  BY DEF RejectLeave
<1>3. Signed(leave[l], new) /\ new \in LeaveRequest /\ new.status = "REJECTED"
      /\ Span(new) = Span(leave[l])
  BY <1>1, <1>2 DEF Signed, LeaveRequest, Span
<1>4. RowSound(new) /\ new.status # "APPROVED"
  BY <1>1, <1>3 DEF RowSound, Signed
<1> HIDE DEF new
<1>5. LeaveInv'
  BY <1>1, <1>2, <1>3, <1>4, UndeductedKept
<1> QED
  BY <1>1, <1>2, <1>3, <1>5

\* Balance rows inserted, and a row of leave that is not approved: no day is taken.
LEMMA BalancesUndeducted ==
    ASSUME LeaveTyped, BalancesSound,
           NEW l \in Leave, Replaced(leave, leave', l),
           Unapproved(leave[l]), Unapproved(leave'[l]),
           balance' \in [Type -> [Year -> LeaveBalance \cup {NULL}]],
           \A t \in Type, y \in Year : balance'[t][y] \in {balance[t][y], Balances(t)[y]},
           UNCHANGED <<holidays, steady>>
    PROVE  BalancesSound'
<1> SUFFICES ASSUME NEW t \in Type, NEW y \in Year
             PROVE  BalanceSound(t, y)'
  BY DEF BalancesSound
<1>1. BalanceSound(t, y)
  BY DEF BalancesSound
<1>2. Taken(leave', t, y, holidays) = Taken(leave, t, y, holidays)
  <2>1. PICK rows, rows2, off : rows = leave /\ rows2 = leave' /\ off = holidays
    OBVIOUS
  <2>2. Replaced(rows, rows2, l) /\ Unapproved(rows[l]) /\ Unapproved(rows2[l])
    BY <2>1
  <2>3. Taken(rows2, t, y, off) = Taken(rows, t, y, off)
    BY <2>2, TakenSame
  <2> QED
    BY <2>1, <2>3
<1>3. Balances(t)'[y] = Balances(t)[y]
  BY BalancesKept
<1> QED
  BY <1>1, <1>2, <1>3 DEF BalanceSound

\* A row that keeps apart from the others, or that is excused.
LEMMA InsertionApart ==
    ASSUME LeaveTyped, RequestsApart,
           NEW l \in Leave, leave[l] = NULL,
           NEW row, RowSound(row), row.status # "REJECTED",
           leave' = [leave EXCEPT ![l] = row],
           UNCHANGED certificate, raced \subseteq raced',
           \/ l \in raced'
           \/ /\ \A k \in Leave : leave[k] # NULL => Apart(row, leave[k])
              /\ Filed(row, certificate)
    PROVE  RequestsApart'
<1>1. leave'[l] = row /\ \A k \in Leave \ {l} : leave'[k] = leave[k]
  BY DEF LeaveTyped
<1> SUFFICES ASSUME NEW k \in Leave \ raced', leave'[k] # NULL
             PROVE  /\ \A j \in Leave \ (raced' \cup {k}) : leave'[j] # NULL =>
                           Apart(leave'[k], leave'[j])
                    /\ Filed(leave'[k], certificate')
  BY DEF RequestsApart
<1>2. \A j \in Leave : leave[j] # NULL => leave[j] \in LeaveRequest
  BY DEF LeaveTyped, RowSound
<1>3. ASSUME NEW j \in Leave \ (raced' \cup {k}), leave'[j] # NULL
      PROVE  Apart(leave'[k], leave'[j])
  <2>1. CASE k = l
    <3>1. Apart(row, leave[j]) /\ leave'[j] = leave[j] /\ leave'[k] = row
      BY <1>1, <1>3, <2>1
    <3> QED
      BY <3>1
  <2>2. CASE j = l
    <3>1. Apart(row, leave[k]) /\ leave'[k] = leave[k] /\ leave'[j] = row
      BY <1>1, <1>3, <2>2
    <3>2. Apart(leave[k], row)
      BY <1>1, <1>2, <3>1, ApartSymmetric DEF RowSound
    <3> QED
      BY <3>1, <3>2
  <2>3. CASE k # l /\ j # l
    <3>1. leave'[k] = leave[k] /\ leave'[j] = leave[j]
      BY <1>1, <2>3
    <3>2. Apart(leave[k], leave[j])
      BY <1>3, <3>1 DEF RequestsApart
    <3> QED
      BY <3>1, <3>2
  <2> QED
    BY <2>1, <2>2, <2>3
<1>4. Filed(leave'[k], certificate')
  <2>1. CASE k = l
    BY <1>1, <2>1
  <2>2. CASE k # l
    <3>1. leave'[k] = leave[k]
      BY <1>1, <2>2
    <3>2. Filed(leave[k], certificate)
      BY <3>1 DEF RequestsApart
    <3> QED
      BY <3>1, <3>2
  <2> QED
    BY <2>1, <2>2
<1> QED
  BY <1>3, <1>4

\* What a handler at work is, by its name.
LEMMA Handlers ==
    ASSUME NEW req, Typed(req)
    PROVE  /\ req.op = "submit" =>
                  /\ req \in SubmitRecord
                  /\ req # Idle
                  /\ RowSound(req.row)
                  /\ req.row.status # "REJECTED"
                  /\ steady => req.allocations = leave_days_by_year(Span(req.row))
           /\ req.op = "files" => req \in FilesRecord /\ req # Idle
           /\ req.op = "clock_in" =>
                  req \in ClockRecord /\ req # Idle /\ (req.found => attendance[req.date] # NULL)
           /\ req.op = "idle" => req = Idle
<1>1. Idle.op = "idle"
  BY DEF Idle
<1>2. req \in SubmitRecord => req.op = "submit"
  BY DEF SubmitRecord
<1>3. req \in FilesRecord => req.op = "files"
  BY DEF FilesRecord
<1>4. req \in ClockRecord => req.op = "clock_in"
  BY DEF ClockRecord
<1> QED
  BY <1>1, <1>2, <1>3, <1>4 DEF Typed

LEMMA CommitLeaveKept ==
    ASSUME LeaveInv, NEW w \in Worker, RequestSound(request[w]), CommitLeave(w)
    PROVE  LeaveInv'
<1>1. PICK q : q = request[w]
  OBVIOUS
<1>2. PICK l : l = Min(Leave \ Requests)
  OBVIOUS
<1> DEFINE row == q.row
           t == row.type
<1>3. /\ q.op = "submit"
      /\ Requests # Leave
      /\ leave' = [leave EXCEPT ![l] = row]
      /\ IF row.status = "APPROVED" THEN Deduct(t, q.allocations)
         ELSE balance' = [balance EXCEPT ![t] = [y \in Year |->
                             IF y \in q.created THEN Balances(t)[y] ELSE balance[t][y]]]
      /\ raced' = IF q.late THEN raced \cup {l} ELSE raced
      /\ UNCHANGED <<holidays, certificate, uploaded, steady>>
  BY <1>1, <1>2 DEF CommitLeave
<1>4. l \in Leave /\ leave[l] = NULL
  <2>1. Leave \ Requests \in SUBSET Nat /\ Leave \ Requests # {}
    BY <1>3 DEF Leave, Requests
  <2>2. l \in Leave \ Requests
    BY <1>2, <2>1, MinMember
  <2> QED
    BY <2>2 DEF Requests
<1>5. /\ q \in SubmitRecord /\ q # Idle
      /\ RowSound(row) /\ row.status # "REJECTED"
      /\ steady => q.allocations = leave_days_by_year(Span(row))
  BY <1>1, <1>3, Handlers DEF RequestSound
<1>6. q.allocations \in [Year -> Nat] /\ q.late \in BOOLEAN /\ row \in LeaveRequest
  BY <1>5 DEF SubmitRecord
<1>7. leave'[l] = row /\ \A k \in Leave \ {l} : leave'[k] = leave[k]
  BY <1>3, <1>4 DEF LeaveInv, LeaveTyped
<1>8. RequestsApart'
  <2>1. \/ l \in raced'
        \/ /\ \A k \in Leave : leave[k] # NULL => Apart(row, leave[k])
           /\ Filed(row, certificate)
    BY <1>1, <1>3, <1>5, <1>6 DEF RequestSound, Fresh
  <2>2. raced \subseteq raced' /\ UNCHANGED certificate
    BY <1>3
  <2> HIDE DEF row
  <2> QED
    BY <1>3, <1>4, <1>5, <2>1, <2>2, InsertionApart DEF LeaveInv
<1>9. CASE row.status = "APPROVED"
  <2>1. Deduct(t, q.allocations)
    BY <1>3, <1>9
  <2>2. steady => \A y \in Year : q.allocations[y] = Cardinality(Counted(row, y, holidays))
    BY <1>5, DaysByYear
  <2>3. UNCHANGED <<holidays, certificate, uploaded, steady>>
    BY <1>3
  <2> HIDE DEF row
  <2>4. LeaveTyped' /\ BalancesSound'
    BY <1>3, <1>4, <1>5, <1>6, <1>9, <2>1, <2>2, <2>3, DeductedKept
  <2> QED
    BY <1>8, <2>4 DEF LeaveInv
<1>10. CASE row.status # "APPROVED"
  <2>1. t \in Type
    BY <1>6, RowColumns
  <2>2. balance \in [Type -> [Year -> LeaveBalance \cup {NULL}]]
    BY DEF LeaveInv, LeaveTyped
  <2>3. \A y \in Year : Balances(t)[y] \in LeaveBalance
    BY <2>1, BalancesTyped DEF LeaveInv
  <2>4. balance' = [balance EXCEPT ![t] = [y \in Year |->
                       IF y \in q.created THEN Balances(t)[y] ELSE balance[t][y]]]
    BY <1>3, <1>10
  <2> HIDE DEF row, t
  <2>5. balance' \in [Type -> [Year -> LeaveBalance \cup {NULL}]]
    BY <2>1, <2>2, <2>3, <2>4
  <2>6. \A s \in Type, y \in Year : balance'[s][y] \in {balance[s][y], Balances(s)[y]}
    BY <2>1, <2>2, <2>4
  <2>7. leave' \in [Leave -> LeaveRequest \cup {NULL}]
    BY <1>3, <1>4, <1>6 DEF LeaveInv, LeaveTyped
  <2>8. \A k \in Leave : leave'[k] # NULL => RowSound(leave'[k])
    BY <1>5, <1>7 DEF LeaveInv, LeaveTyped
  <2>9. LeaveTyped'
    BY <1>3, <2>5, <2>7, <2>8 DEF LeaveInv, LeaveTyped
  <2>10. Replaced(leave, leave', l) /\ Unapproved(leave[l]) /\ Unapproved(leave'[l])
    BY <1>4, <1>7, <1>10 DEF Replaced, Unapproved
  <2>11. BalancesSound'
    BY <1>3, <1>4, <2>5, <2>6, <2>10, BalancesUndeducted DEF LeaveInv
  <2> QED
    BY <1>8, <2>9, <2>11 DEF LeaveInv
<1> QED
  BY <1>9, <1>10

LEMMA SeedKept == ASSUME LeaveInv, NEW y \in Year, SeedBalances(y)
                  PROVE  LeaveInv'
<1>1. /\ balance' = [t \in Type |-> [balance[t] EXCEPT ![y] = Balances(t)[y]]]
      /\ UNCHANGED <<holidays, leave, certificate, uploaded, raced, steady>>
  BY DEF SeedBalances
<1>2. balance \in [Type -> [Year -> LeaveBalance \cup {NULL}]] /\ LeaveTyped
  BY DEF LeaveInv, LeaveTyped
<1>3. \A t \in Type : Balances(t)[y] \in LeaveBalance
  BY <1>2, BalancesTyped
<1>4. balance' \in [Type -> [Year -> LeaveBalance \cup {NULL}]]
  BY <1>1, <1>2, <1>3
<1>5. \A t \in Type, z \in Year : balance'[t][z] \in {balance[t][z], Balances(t)[z]}
  BY <1>1, <1>2
<1>6. \A t \in Type, z \in Year : Balances(t)'[z] = Balances(t)[z]
  BY <1>2, <1>4, <1>5, BalancesKept
<1>7. LeaveTyped'
  BY <1>1, <1>4 DEF LeaveInv, LeaveTyped
<1>8. BalancesSound'
  BY <1>1, <1>6 DEF LeaveInv, BalancesSound, BalanceSound
<1>9. RequestsApart'
  BY <1>1 DEF LeaveInv, RequestsApart
<1> QED
  BY <1>7, <1>8, <1>9 DEF LeaveInv

\* An unlinked file was named by no request when the handler looked; when others
\* committed in between, the requests that name it now are excused.
LEMMA WriteFilesKept ==
    ASSUME LeaveInv, NEW w \in Worker, RequestSound(request[w]), WriteFiles(w)
    PROVE  LeaveInv'
<1>1. PICK q : q = request[w]
  OBVIOUS
<1>2. /\ q.op = "files"
      /\ certificate' = [c \in Certificate |-> IF c \in q.removed THEN NULL
                                               ELSE IF c = q.added THEN q.owner
                                               ELSE certificate[c]]
      /\ uploaded' = IF q.added = NULL THEN uploaded ELSE uploaded \cup {q.added}
      /\ raced' = IF q.late
                  THEN raced \cup {l \in Requests : leave[l].cert \in q.removed} ELSE raced
      /\ UNCHANGED <<holidays, leave, balance, steady>>
  BY <1>1 DEF WriteFiles
<1>3. q \in FilesRecord /\ q # Idle
  BY <1>1, <1>2, Handlers DEF RequestSound
<1>4. q.added \in Certificate \cup {NULL} /\ q.owner \in User /\ q.late \in BOOLEAN
  BY <1>3 DEF FilesRecord
<1>5. LeaveTyped'
  <2>1. certificate' \in [Certificate -> User \cup {NULL}] /\ uploaded' \subseteq Certificate
    BY <1>2, <1>4 DEF LeaveInv, LeaveTyped
  <2> QED
    BY <1>2, <2>1 DEF LeaveInv, LeaveTyped
<1>6. BalancesSound'
  <2>1. \A t \in Type : Balances(t)' = Balances(t)
    BY <1>2 DEF Balances, Accrued
  <2> QED
    BY <1>2, <2>1 DEF LeaveInv, BalancesSound, BalanceSound
<1>7. RequestsApart'
  <2> SUFFICES ASSUME NEW l \in Leave \ raced', leave[l] # NULL
               PROVE  /\ \A k \in Leave \ (raced' \cup {l}) : leave[k] # NULL =>
                             Apart(leave[l], leave[k])
                      /\ Filed(leave[l], certificate')
    BY <1>2 DEF RequestsApart
  <2>1. raced \subseteq raced'
    BY <1>2
  <2>2. Filed(leave[l], certificate)
        /\ \A k \in Leave \ (raced' \cup {l}) : leave[k] # NULL => Apart(leave[l], leave[k])
    BY <2>1 DEF LeaveInv, RequestsApart
  <2>3. leave[l].cert \notin q.removed
    BY <1>1, <1>2, <1>3, <1>4 DEF RequestSound, Fresh, Requests
  <2>4. RowSound(leave[l])
    BY DEF LeaveInv, LeaveTyped
  <2>5. ASSUME LeaveType[leave[l].type].requires_doctor_cert
        PROVE  certificate'[leave[l].cert] # NULL
    <3>1. leave[l].cert \in Certificate /\ certificate[leave[l].cert] # NULL
      BY <2>2, <2>4, <2>5 DEF RowSound, Filed
    <3> QED
      BY <1>2, <1>4, <2>3, <3>1, StaffAssumption
  <2> QED
    BY <2>2, <2>5 DEF Filed
<1> QED
  BY <1>5, <1>6, <1>7 DEF LeaveInv

\* The calendar changes: the days used need no longer be those of the requests.
LEMMA HolidayKept ==
    ASSUME LeaveInv, steady' = FALSE, UNCHANGED <<leave, balance, certificate, uploaded, raced>>
    PROVE  LeaveInv'
<1>1. \A t \in Type : Balances(t)' = Balances(t)
  BY DEF Balances, Accrued
<1> QED
  BY <1>1 DEF LeaveInv, LeaveTyped, BalancesSound, BalanceSound, RequestsApart

LEMMA LeaveUnchanged == ASSUME LeaveInv, UNCHANGED <<holidays, leaveVars>>
                        PROVE  LeaveInv'
<1>1. \A t \in Type : Balances(t)' = Balances(t)
  BY DEF Balances, Accrued, leaveVars
<1> QED
  BY <1>1 DEF LeaveInv, LeaveTyped, BalancesSound, BalanceSound, RequestsApart, leaveVars

---------------------------------------------------------------------------
\* The steps of attendance.

\* The split of a shift's hours.
HoursSplit == Nat \X Nat \X Nat \X Nat

LEMMA SplitType == ASSUME NEW d \in Day, NEW elapsed \in Hours
                   PROVE  Split(d, elapsed) \in HoursSplit
BY AttendanceAssumption DEF Split, calculate_overtime, HoursSplit

LEMMA RecordColumns ==
    ASSUME NEW record \in AttendanceRecord
    PROVE  /\ record # NULL
           /\ [record EXCEPT !.clock_in = TRUE] \in AttendanceRecord
           /\ \A hours \in HoursSplit :
                  [record EXCEPT !.clock_out = TRUE, !.hours = hours] \in AttendanceRecord
BY AttendanceAssumption DEF AttendanceRecord, HoursSplit

LEMMA OvertimeColumns ==
    ASSUME NEW o \in OvertimeRequest
    PROVE  /\ o # NULL
           /\ o.date \in Day
           /\ o.linked \in BOOLEAN
           /\ o.status \in {"SUBMITTED", "APPROVED", "REJECTED"}
BY AttendanceAssumption DEF OvertimeRequest

\* A record opens on one day, which is excused unless no other shift was open.
LEMMA ShiftOpened ==
    ASSUME ShiftsSound, NEW d \in Day,
           \A c \in Day \ {d} : attendance'[c] = attendance[c],
           unchecked \subseteq unchecked',
           \/ d \in unchecked'
           \/ OpenDays = {}
           \/ ~ OpenAt(d)'
    PROVE  ShiftsSound'
<1>1. OpenDays' \subseteq OpenDays \cup {d}
  BY DEF OpenDays, OpenAt
<1>2. IsFiniteSet(OpenDays \cup {d})
  BY FS_AddElement DEF ShiftsSound
<1>3. IsFiniteSet(OpenDays')
  <2>1. PICK S, T : S = OpenDays \cup {d} /\ T = OpenDays'
    OBVIOUS
  <2>2. IsFiniteSet(S) /\ T \in SUBSET S
    BY <1>1, <1>2, <2>1
  <2>3. IsFiniteSet(T)
    BY <2>2, FS_Subset
  <2> QED
    BY <2>1, <2>3
<1>4. ASSUME NEW b \in OpenDays' \ unchecked', NEW c \in OpenDays' \ unchecked'
      PROVE  b = c
  <2>1. b \in (OpenDays \cup {d}) \ unchecked /\ c \in (OpenDays \cup {d}) \ unchecked
    BY <1>1
  <2>2. CASE d \in unchecked'
    BY <1>4, <2>1, <2>2 DEF ShiftsSound
  <2>3. CASE OpenDays = {}
    BY <2>1, <2>3
  <2>4. CASE ~ OpenAt(d)'
    <3>1. d \notin OpenDays'
      BY <2>4 DEF OpenDays
    <3> QED
      BY <1>4, <2>1, <3>1 DEF ShiftsSound
  <2> QED
    BY <2>2, <2>3, <2>4
<1> QED
  BY <1>3, <1>4 DEF ShiftsSound

\* The requests of a day are linked in the step that inserts its record.
LEMMA RecordLinked ==
    ASSUME AttendanceTyped, OvertimeSound, NEW d \in Day,
           \A c \in Day \ {d} : attendance'[c] = attendance[c],
           attendance'[d] # NULL,
           overtime' = Linked(d)
    PROVE  OvertimeSound' /\ overtime' \in [Overtime -> OvertimeRequest \cup {NULL}]
<1>1. overtime \in [Overtime -> OvertimeRequest \cup {NULL}]
  BY DEF AttendanceTyped
<1>2. ASSUME NEW o \in Overtime, overtime[o] # NULL
      PROVE  /\ overtime'[o] \in OvertimeRequest
             /\ overtime'[o].date = overtime[o].date
             /\ overtime'[o].status = overtime[o].status
             /\ overtime'[o].linked = (overtime[o].date = d \/ overtime[o].linked)
  <2>1. overtime[o] \in OvertimeRequest
    BY <1>1, <1>2
  <2>2. CASE overtime[o].date = d
    <3>1. overtime'[o] = [overtime[o] EXCEPT !.linked = TRUE]
      BY <1>2, <2>2 DEF Linked
    <3> QED
      BY <2>1, <2>2, <3>1 DEF OvertimeRequest
  <2>3. CASE overtime[o].date # d
    <3>1. overtime'[o] = overtime[o]
      BY <1>2, <2>3 DEF Linked
    <3>2. overtime[o].linked = (overtime[o].date = d \/ overtime[o].linked)
      BY <2>1, <2>3, OvertimeColumns
    <3> QED
      BY <2>1, <3>1, <3>2
  <2> QED
    BY <2>2, <2>3
<1>3. \A o \in Overtime : overtime'[o] # NULL => overtime[o] # NULL
  BY DEF Linked
<1>4. overtime' \in [Overtime -> OvertimeRequest \cup {NULL}]
  <2>1. \A o \in Overtime : overtime'[o] \in OvertimeRequest \cup {NULL}
    BY <1>2, <1>3
  <2>2. overtime' = [o \in Overtime |-> overtime'[o]]
    BY DEF Linked
  <2> QED
    BY <2>1, <2>2
<1>5. ASSUME NEW o \in Overtime, overtime'[o] # NULL
      PROVE  /\ overtime'[o].linked <=> attendance'[overtime'[o].date] # NULL
             /\ \A p \in Overtime \ {o} :
                    overtime'[p] # NULL /\ overtime'[p].date = overtime'[o].date
                        => "REJECTED" \in {overtime'[o].status, overtime'[p].status}
  <2>1. overtime[o] # NULL /\ overtime[o] \in OvertimeRequest
    BY <1>1, <1>3, <1>5
  <2>2. overtime[o].linked <=> attendance[overtime[o].date] # NULL
    BY <2>1 DEF OvertimeSound
  <2>3. overtime'[o].linked <=> attendance'[overtime'[o].date] # NULL
    <3>1. CASE overtime[o].date = d
      BY <1>2, <2>1, <3>1
    <3>2. CASE overtime[o].date # d
      <4>1. overtime[o].date \in Day \ {d}
        BY <2>1, <3>2, OvertimeColumns
      <4> QED
        BY <1>2, <2>1, <2>2, <3>2, <4>1
    <3> QED
      BY <3>1, <3>2
  <2>4. ASSUME NEW p \in Overtime \ {o}, overtime'[p] # NULL,
               overtime'[p].date = overtime'[o].date
        PROVE  "REJECTED" \in {overtime'[o].status, overtime'[p].status}
    <3>1. overtime[p] # NULL
      BY <1>3, <2>4
    <3>2. overtime[p].date = overtime[o].date
      BY <1>2, <2>1, <2>4, <3>1
    <3>3. "REJECTED" \in {overtime[o].status, overtime[p].status}
      BY <2>1, <3>1, <3>2 DEF OvertimeSound
    <3> QED
      BY <1>2, <2>1, <3>1, <3>3
  <2> QED
    BY <2>3, <2>4
<1> QED
  BY <1>4, <1>5 DEF OvertimeSound

LEMMA CommitClockInKept ==
    ASSUME AttendanceInv, NEW w \in Worker, RequestSound(request[w]), CommitClockIn(w)
    PROVE  /\ AttendanceInv'
           /\ \A d \in Day : attendance[d] # NULL => attendance'[d] # NULL
<1>1. PICK q : q = request[w]
  OBVIOUS
<1>2. /\ q.op = "clock_in"
      /\ attendance' = [attendance EXCEPT ![q.date] =
             IF q.found THEN [@ EXCEPT !.clock_in = TRUE]
             ELSE [clock_in |-> TRUE, clock_out |-> FALSE, hours |-> NULL]]
      /\ overtime' = Linked(q.date)
      /\ unchecked' = IF q.late THEN unchecked \cup {q.date} ELSE unchecked
  BY <1>1 DEF CommitClockIn
<1>3. q \in ClockRecord /\ q # Idle /\ (q.found => attendance[q.date] # NULL)
  BY <1>1, <1>2, Handlers DEF RequestSound
<1>4. q.date \in Day /\ q.late \in BOOLEAN /\ q.found \in BOOLEAN
  BY <1>3 DEF ClockRecord
<1>5. attendance \in [Day -> AttendanceRecord \cup {NULL}]
  BY DEF AttendanceInv, AttendanceTyped
<1>6. attendance'[q.date] \in AttendanceRecord
  <2>1. CASE q.found
    <3>1. attendance[q.date] \in AttendanceRecord
      BY <1>3, <1>4, <1>5, <2>1
    <3>2. attendance'[q.date] = [attendance[q.date] EXCEPT !.clock_in = TRUE]
      BY <1>2, <1>4, <1>5, <2>1
    <3> QED
      BY <3>1, <3>2, RecordColumns
  <2>2. CASE ~ q.found
    <3>1. attendance'[q.date] = [clock_in |-> TRUE, clock_out |-> FALSE, hours |-> NULL]
      BY <1>2, <1>4, <1>5, <2>2
    <3> QED
      BY <3>1 DEF AttendanceRecord
  <2> QED
    BY <2>1, <2>2
<1>7. \A c \in Day \ {q.date} : attendance'[c] = attendance[c]
  BY <1>2, <1>5
<1>8. attendance'[q.date] # NULL
  BY <1>6, RecordColumns
<1>9. OvertimeSound' /\ overtime' \in [Overtime -> OvertimeRequest \cup {NULL}]
  BY <1>2, <1>4, <1>7, <1>8, RecordLinked DEF AttendanceInv
<1>10. AttendanceTyped'
  <2>1. attendance' = [c \in Day |-> attendance'[c]]
    BY <1>2, <1>5
  <2>2. \A c \in Day : attendance'[c] \in AttendanceRecord \cup {NULL}
    BY <1>5, <1>6, <1>7
  <2>3. attendance' \in [Day -> AttendanceRecord \cup {NULL}]
    BY <2>1, <2>2
  <2> QED
    BY <1>9, <2>3 DEF AttendanceTyped
<1>11. ShiftsSound'
  <2>1. unchecked \subseteq unchecked' /\ (q.late => q.date \in unchecked')
    BY <1>2
  <2>2. q.late \/ OpenDays = {}
    BY <1>1, <1>2, <1>3 DEF RequestSound, Fresh
  <2> QED
    BY <1>4, <1>7, <2>1, <2>2, ShiftOpened DEF AttendanceInv
<1> QED
  BY <1>7, <1>8, <1>9, <1>10, <1>11 DEF AttendanceInv

LEMMA CreateManualKept ==
    ASSUME AttendanceInv, NEW d \in Day, CreateManual(d)
    PROVE  /\ AttendanceInv'
           /\ \A c \in Day : attendance[c] # NULL => attendance'[c] # NULL
<1>1. PICK body \in AttendanceManualCreate :
          attendance' = [attendance EXCEPT ![d] =
              [clock_in |-> body.clock_in, clock_out |-> body.clock_out,
               hours |-> IF body.clock_in /\ body.clock_out THEN Split(d, body.elapsed)
                         ELSE NULL]]
  BY DEF CreateManual
<1>2. overtime' = Linked(d) /\ unchecked' = IF OpenAt(d)' THEN unchecked \cup {d} ELSE unchecked
  BY DEF CreateManual
<1>3. attendance \in [Day -> AttendanceRecord \cup {NULL}]
  BY DEF AttendanceInv, AttendanceTyped
<1>4. attendance'[d] \in AttendanceRecord
  <2>1. body.clock_in \in BOOLEAN /\ body.clock_out \in BOOLEAN /\ body.elapsed \in Hours
    BY DEF AttendanceManualCreate
  <2>2. Split(d, body.elapsed) \in HoursSplit
    BY <2>1, SplitType
  <2> QED
    BY <1>1, <1>3, <2>1, <2>2 DEF AttendanceRecord, HoursSplit
<1>5. \A c \in Day \ {d} : attendance'[c] = attendance[c]
  BY <1>1, <1>3
<1>6. attendance'[d] # NULL
  BY <1>4, RecordColumns
<1>7. OvertimeSound' /\ overtime' \in [Overtime -> OvertimeRequest \cup {NULL}]
  BY <1>2, <1>5, <1>6, RecordLinked DEF AttendanceInv
<1>8. AttendanceTyped'
  <2>1. attendance' = [c \in Day |-> attendance'[c]]
    BY <1>1, <1>3
  <2>2. \A c \in Day : attendance'[c] \in AttendanceRecord \cup {NULL}
    BY <1>3, <1>4, <1>5
  <2>3. attendance' \in [Day -> AttendanceRecord \cup {NULL}]
    BY <2>1, <2>2
  <2> QED
    BY <1>7, <2>3 DEF AttendanceTyped
<1>9. ShiftsSound'
  <2>1. unchecked \subseteq unchecked' /\ (OpenAt(d)' => d \in unchecked')
    BY <1>2
  <2> QED
    BY <1>5, <2>1, ShiftOpened DEF AttendanceInv
<1> QED
  BY <1>5, <1>6, <1>7, <1>8, <1>9 DEF AttendanceInv

LEMMA ClockOutKept ==
    ASSUME AttendanceInv, ClockOut
    PROVE  /\ AttendanceInv'
           /\ \A d \in Day : attendance[d] # NULL => attendance'[d] # NULL
           /\ OpenDays' \subseteq OpenDays
<1>1. PICK d : d = Max(OpenDays)
  OBVIOUS
<1>2. PICK elapsed \in Hours :
          attendance' = [attendance EXCEPT ![d].clock_out = TRUE, ![d].hours = Split(d, elapsed)]
  BY <1>1 DEF ClockOut
<1>3. OpenDays # {} /\ UNCHANGED <<overtime, unchecked>>
  BY DEF ClockOut
<1>4. d \in Day /\ OpenAt(d)
  <2>1. OpenDays \in SUBSET Nat /\ IsFiniteSet(OpenDays)
    BY CalendarAssumption DEF OpenDays, AttendanceInv, ShiftsSound
  <2>2. d \in OpenDays
    BY <1>1, <1>3, <2>1, MaxMember
  <2> QED
    BY <2>2 DEF OpenDays
<1>5. attendance \in [Day -> AttendanceRecord \cup {NULL}] /\ attendance[d] \in AttendanceRecord
  BY <1>4 DEF AttendanceInv, AttendanceTyped, OpenAt
<1>6. attendance'[d] = [attendance[d] EXCEPT !.clock_out = TRUE, !.hours = Split(d, elapsed)]
  BY <1>2, <1>4, <1>5
<1>7. attendance'[d] \in AttendanceRecord
  <2>1. PICK hours \in HoursSplit : hours = Split(d, elapsed)
    BY <1>4, SplitType
  <2>2. attendance'[d] = [attendance[d] EXCEPT !.clock_out = TRUE, !.hours = hours]
    BY <1>6, <2>1
  <2> QED
    BY <1>5, <2>2, RecordColumns
<1>8. \A c \in Day \ {d} : attendance'[c] = attendance[c]
  BY <1>2, <1>4, <1>5
<1>9. attendance'[d] # NULL
  BY <1>7, RecordColumns
<1>10. ~ OpenAt(d)'
  <2>1. attendance'[d].clock_out = TRUE
    BY <1>5, <1>6 DEF AttendanceRecord
  <2> QED
    BY <2>1 DEF OpenAt
<1>11. AttendanceTyped'
  <2>1. attendance' = [c \in Day |-> attendance'[c]]
    BY <1>2, <1>5
  <2>2. \A c \in Day : attendance'[c] \in AttendanceRecord \cup {NULL}
    BY <1>5, <1>7, <1>8
  <2>3. attendance' \in [Day -> AttendanceRecord \cup {NULL}]
    BY <2>1, <2>2
  <2> QED
    BY <1>3, <2>3 DEF AttendanceInv, AttendanceTyped
<1>12. ShiftsSound'
  BY <1>3, <1>4, <1>8, <1>10, ShiftOpened DEF AttendanceInv
<1>13. \A c \in Day : attendance'[c] # NULL <=> attendance[c] # NULL
  BY <1>4, <1>8, <1>9 DEF OpenAt
<1>14. OvertimeSound'
  <2> SUFFICES ASSUME NEW o \in Overtime, overtime[o] # NULL
               PROVE  overtime[o].linked <=> attendance'[overtime[o].date] # NULL
    BY <1>3 DEF AttendanceInv, OvertimeSound
  <2>1. overtime[o].date \in Day
    BY OvertimeColumns DEF AttendanceInv, AttendanceTyped
  <2> QED
    BY <1>13, <2>1 DEF AttendanceInv, OvertimeSound
<1>15. OpenDays' \subseteq OpenDays
  BY <1>8, <1>10 DEF OpenDays, OpenAt
<1> QED
  BY <1>11, <1>12, <1>13, <1>14, <1>15 DEF AttendanceInv

\* A day gets a request when all it has are rejected.
LEMMA SubmitOvertimeKept ==
    ASSUME AttendanceInv, NEW d \in Day, SubmitOvertime(d)
    PROVE  AttendanceInv'
<1> DEFINE free == {o \in Overtime : overtime[o] = NULL}
           new == [date |-> d, status |-> "SUBMITTED", linked |-> attendance[d] # NULL]
<1>1. PICK n : n = Min(free)
  OBVIOUS
<1>2. /\ \A o \in Overtime \ free : overtime[o].date = d => overtime[o].status = "REJECTED"
      /\ free # {}
      /\ overtime' = [overtime EXCEPT ![n] = new]
      /\ UNCHANGED <<attendance, unchecked>>
  BY <1>1 DEF SubmitOvertime
<1>3. n \in Overtime /\ overtime[n] = NULL
  <2>1. free \in SUBSET Nat
    BY DEF Overtime
  <2>2. Min(free) \in free
    <3> HIDE DEF free
    <3> QED
      BY <1>2, <2>1, MinMember
  <2> QED
    BY <1>1, <2>2
<1>4. overtime \in [Overtime -> OvertimeRequest \cup {NULL}]
  BY DEF AttendanceInv, AttendanceTyped
<1>5. new \in OvertimeRequest
  BY DEF OvertimeRequest
<1>6. overtime'[n] = new /\ \A o \in Overtime \ {n} : overtime'[o] = overtime[o]
  BY <1>2, <1>3, <1>4
<1>7. new.date = d /\ new.status = "SUBMITTED" /\ (new.linked <=> attendance[d] # NULL)
  OBVIOUS
<1>8. \A o \in Overtime : overtime[o] # NULL /\ overtime[o].date = d
          => overtime[o].status = "REJECTED"
  BY <1>2
<1> HIDE DEF new, free
<1>9. overtime' \in [Overtime -> OvertimeRequest \cup {NULL}]
  BY <1>2, <1>3, <1>4, <1>5
<1>10. AttendanceTyped'
  BY <1>2, <1>9 DEF AttendanceInv, AttendanceTyped
<1>11. ShiftsSound'
  BY <1>2 DEF AttendanceInv, ShiftsSound, OpenDays, OpenAt
<1>12. OvertimeSound'
  <2> SUFFICES ASSUME NEW o \in Overtime, overtime'[o] # NULL
               PROVE  /\ overtime'[o].linked <=> attendance[overtime'[o].date] # NULL
                      /\ \A p \in Overtime \ {o} :
                             overtime'[p] # NULL /\ overtime'[p].date = overtime'[o].date
                                 => "REJECTED" \in {overtime'[o].status, overtime'[p].status}
    BY <1>2 DEF OvertimeSound
  <2>1. CASE o = n
    <3>1. \A p \in Overtime \ {o} : overtime'[p] = overtime[p]
      BY <1>6, <2>1
    <3> QED
      BY <1>6, <1>7, <1>8, <2>1, <3>1
  <2>2. CASE o # n
    <3>1. overtime'[o] = overtime[o]
      BY <1>6, <2>2
    <3>2. overtime[o].linked <=> attendance[overtime[o].date] # NULL
      BY <3>1 DEF AttendanceInv, OvertimeSound
    <3>3. ASSUME NEW p \in Overtime \ {o}, overtime'[p] # NULL,
                 overtime'[p].date = overtime'[o].date
          PROVE  "REJECTED" \in {overtime'[o].status, overtime'[p].status}
      <4>1. CASE p = n
        BY <1>6, <1>7, <1>8, <3>1, <3>3, <4>1
      <4>2. CASE p # n
        <5>1. overtime'[p] = overtime[p]
          BY <1>6, <4>2
        <5> QED
          BY <3>1, <3>3, <5>1 DEF AttendanceInv, OvertimeSound
      <4> QED
        BY <4>1, <4>2
    <3> QED
      BY <3>1, <3>2, <3>3
  <2> QED
    BY <2>1, <2>2
<1> QED
  BY <1>10, <1>11, <1>12 DEF AttendanceInv

LEMMA DecideOvertimeKept ==
    ASSUME AttendanceInv, NEW o \in Overtime, DecideOvertime(o)
    PROVE  AttendanceInv'
<1> DEFINE approved == [overtime[o] EXCEPT
                           !.status = "APPROVED",
                           !.linked = @ \/ attendance[overtime[o].date] # NULL]
           rejected == [overtime[o] EXCEPT !.status = "REJECTED"]
<1>1. overtime \in [Overtime -> OvertimeRequest \cup {NULL}]
  BY DEF AttendanceInv, AttendanceTyped
<1>2. PICK new : new \in {approved, rejected} /\ overtime' = [overtime EXCEPT ![o] = new]
  BY <1>1 DEF DecideOvertime
<1>3. overtime[o] # NULL /\ overtime[o].status = "SUBMITTED" /\ UNCHANGED <<attendance, unchecked>>
  BY DEF DecideOvertime
<1>4. overtime[o] \in OvertimeRequest
  BY <1>1, <1>3
<1>5. overtime[o].linked <=> attendance[overtime[o].date] # NULL
  BY <1>3 DEF AttendanceInv, OvertimeSound
<1>6. /\ new \in OvertimeRequest
      /\ new.date = overtime[o].date
      /\ new.linked <=> attendance[overtime[o].date] # NULL
  <2>1. CASE new = approved
    <3>1. new \in OvertimeRequest /\ new.date = overtime[o].date
      BY <1>4, <2>1 DEF OvertimeRequest
    <3>2. new.linked = (overtime[o].linked \/ attendance[overtime[o].date] # NULL)
      BY <1>4, <2>1 DEF OvertimeRequest
    <3> QED
      BY <1>5, <3>1, <3>2
  <2>2. CASE new = rejected
    <3>1. new \in OvertimeRequest /\ new.date = overtime[o].date /\ new.linked = overtime[o].linked
      BY <1>4, <2>2 DEF OvertimeRequest
    <3> QED
      BY <1>5, <3>1
  <2> QED
    BY <1>2, <2>1, <2>2
<1> HIDE DEF approved, rejected
<1>7. overtime'[o] = new /\ \A p \in Overtime \ {o} : overtime'[p] = overtime[p]
  BY <1>1, <1>2
<1>8. \A p \in Overtime \ {o} : overtime[p] # NULL /\ overtime[p].date = overtime[o].date
          => overtime[p].status = "REJECTED"
  <2> SUFFICES ASSUME NEW p \in Overtime \ {o}, overtime[p] # NULL,
                      overtime[p].date = overtime[o].date
               PROVE  overtime[p].status = "REJECTED"
    OBVIOUS
  <2>1. "REJECTED" \in {overtime[o].status, overtime[p].status}
    BY <1>3 DEF AttendanceInv, OvertimeSound
  <2> QED
    BY <1>3, <2>1
<1>9. overtime' \in [Overtime -> OvertimeRequest \cup {NULL}]
  BY <1>1, <1>2, <1>6
<1>10. AttendanceTyped'
  BY <1>3, <1>9 DEF AttendanceInv, AttendanceTyped
<1>11. ShiftsSound'
  BY <1>3 DEF AttendanceInv, ShiftsSound, OpenDays, OpenAt
<1>12. OvertimeSound'
  <2> SUFFICES ASSUME NEW p \in Overtime, overtime'[p] # NULL
               PROVE  /\ overtime'[p].linked <=> attendance[overtime'[p].date] # NULL
                      /\ \A r \in Overtime \ {p} :
                             overtime'[r] # NULL /\ overtime'[r].date = overtime'[p].date
                                 => "REJECTED" \in {overtime'[p].status, overtime'[r].status}
    BY <1>3 DEF OvertimeSound
  <2>1. CASE p = o
    <3>1. \A r \in Overtime \ {o} : overtime'[r] = overtime[r]
      BY <1>7
    <3> QED
      BY <1>6, <1>7, <1>8, <2>1, <3>1
  <2>2. CASE p # o
    <3>1. overtime'[p] = overtime[p]
      BY <1>7, <2>2
    <3>2. overtime[p].linked <=> attendance[overtime[p].date] # NULL
      BY <3>1 DEF AttendanceInv, OvertimeSound
    <3>3. ASSUME NEW r \in Overtime \ {p}, overtime'[r] # NULL,
                 overtime'[r].date = overtime'[p].date
          PROVE  "REJECTED" \in {overtime'[p].status, overtime'[r].status}
      <4>1. CASE r = o
        BY <1>6, <1>7, <1>8, <2>2, <3>1, <3>3, <4>1
      <4>2. CASE r # o
        <5>1. overtime'[r] = overtime[r]
          BY <1>7, <4>2
        <5> QED
          BY <3>1, <3>3, <5>1 DEF AttendanceInv, OvertimeSound
      <4> QED
        BY <4>1, <4>2
    <3> QED
      BY <3>1, <3>2, <3>3
  <2> QED
    BY <2>1, <2>2
<1> QED
  BY <1>10, <1>11, <1>12 DEF AttendanceInv

LEMMA AttendanceUnchanged ==
    ASSUME AttendanceInv, UNCHANGED <<attendance, overtime, unchecked>>
    PROVE  AttendanceInv' /\ OpenDays' = OpenDays
BY DEF AttendanceInv, AttendanceTyped, ShiftsSound, OvertimeSound, OpenDays, OpenAt

---------------------------------------------------------------------------
\* The requests under way.

\* What other handlers leave alone for a request that goes on unnoticed.
Mild ==
    /\ holidays' = holidays \/ steady' = FALSE
    /\ steady' => steady
    /\ \A d \in Day : attendance[d] # NULL => attendance'[d] # NULL

Calm ==
    /\ Mild
    /\ OpenDays' \subseteq OpenDays
    /\ certificate' = certificate
    /\ \A l \in Leave : leave'[l] # NULL =>
           /\ leave[l] # NULL
           /\ leave'[l] = leave[l] \/ Signed(leave[l], leave'[l])

\* What holds of a request however long it waits does so after any step.
LEMMA TypedKept == ASSUME Mild, NEW req, Typed(req)
                   PROVE  Typed(req)'
<1>1. CASE req = Idle
  BY <1>1 DEF Typed
<1>2. CASE req \in SubmitRecord
  <2>1. req.op = "submit"
    BY <1>2 DEF SubmitRecord
  <2>2. RowSound(req.row) /\ req.row.status # "REJECTED"
        /\ (steady => req.allocations = leave_days_by_year(Span(req.row)))
    BY <2>1, Handlers
  <2>3. steady' => req.allocations = leave_days_by_year(Span(req.row))'
    BY <2>2 DEF Mild, leave_days_by_year, leave_duration
  <2> QED
    BY <1>2, <2>2, <2>3 DEF Typed
<1>3. CASE req \in FilesRecord
  BY <1>3 DEF Typed
<1>4. CASE req \in ClockRecord /\ (req.found => attendance[req.date] # NULL)
  BY <1>4 DEF Typed, Mild, ClockRecord
<1> QED
  BY <1>1, <1>2, <1>3, <1>4 DEF Typed

\* A step that commits nothing the request read.
LEMMA WaitingKept == ASSUME Calm, NEW req, RequestSound(req)
                     PROVE  RequestSound(req)'
<1>1. Typed(req) /\ Typed(req)'
  BY TypedKept DEF Calm, RequestSound
<1>2. ASSUME req # Idle, ~ req.late
      PROVE  Fresh(req)'
  <2>1. Fresh(req)
    BY <1>2 DEF RequestSound
  <2>2. ASSUME req.op = "submit"
        PROVE  /\ \A l \in Leave : leave'[l] # NULL => Apart(req.row, leave'[l])
               /\ Filed(req.row, certificate')
    <3>1. Filed(req.row, certificate) /\ certificate' = certificate
      BY <2>1, <2>2 DEF Fresh, Calm
    <3>2. ASSUME NEW l \in Leave, leave'[l] # NULL
          PROVE  Apart(req.row, leave'[l])
      <4>1. /\ leave[l] # NULL
            /\ leave'[l] = leave[l] \/ Signed(leave[l], leave'[l])
        BY <3>2 DEF Calm
      <4>2. Apart(req.row, leave[l])
        BY <2>1, <2>2, <4>1 DEF Fresh
      <4>3. PICK row, old, new : row = req.row /\ old = leave[l] /\ new = leave'[l]
        OBVIOUS
      <4>4. Apart(row, old) /\ (new = old \/ Signed(old, new))
        BY <4>1, <4>2, <4>3
      <4>5. Apart(row, new)
        BY <4>4, ApartSigned
      <4> QED
        BY <4>3, <4>5
    <3> QED
      BY <3>1, <3>2
  <2>3. ASSUME req.op = "files", NEW l \in Leave, leave'[l] # NULL
        PROVE  leave'[l].cert \notin req.removed
    <3>1. /\ leave[l] # NULL
          /\ leave'[l] = leave[l] \/ Signed(leave[l], leave'[l])
      BY <2>3 DEF Calm
    <3>2. leave[l].cert \notin req.removed
      BY <2>1, <2>3, <3>1 DEF Fresh
    <3> QED
      BY <3>1, <3>2 DEF Signed
  <2>4. ASSUME req.op = "clock_in"
        PROVE  OpenDays' = {}
    BY <2>1, <2>4 DEF Fresh, Calm
  <2> QED
    BY <2>2, <2>3, <2>4 DEF Fresh
<1> QED
  BY <1>1, <1>2 DEF RequestSound

\* A step that commits: every request under way is late from then on.
LEMMA OvertakenKept ==
    ASSUME Mild, NEW req, Typed(req), req # Idle
    PROVE  RequestSound([req EXCEPT !.late = TRUE])'
<1> DEFINE late == [req EXCEPT !.late = TRUE]
<1>1. Typed(req)'
  BY TypedKept
<1>2. CASE req \in SubmitRecord
  <2>1. late \in SubmitRecord /\ late.late = TRUE /\ late.row = req.row
        /\ late.allocations = req.allocations /\ req.op = "submit"
    BY <1>2 DEF SubmitRecord
  <2>2. RowSound(req.row) /\ req.row.status # "REJECTED"
        /\ (steady => req.allocations = leave_days_by_year(Span(req.row)))
    BY <2>1, Handlers
  <2>3. steady' => req.allocations = leave_days_by_year(Span(req.row))'
    BY <2>2 DEF Mild, leave_days_by_year, leave_duration
  <2> HIDE DEF late
  <2>4. RequestSound(late)'
    BY <2>1, <2>2, <2>3 DEF RequestSound, Typed
  <2> QED
    BY <2>4 DEF late
<1>3. CASE req \in FilesRecord
  <2>1. late \in FilesRecord /\ late.late = TRUE
    BY <1>3 DEF FilesRecord
  <2> HIDE DEF late
  <2>2. RequestSound(late)'
    BY <2>1 DEF RequestSound, Typed
  <2> QED
    BY <2>2 DEF late
<1>4. CASE req \in ClockRecord /\ (req.found => attendance[req.date] # NULL)
  <2>1. late \in ClockRecord /\ late.late = TRUE /\ late.found = req.found
        /\ late.date = req.date /\ req.date \in Day
    BY <1>4 DEF ClockRecord
  <2> HIDE DEF late
  <2>2. RequestSound(late)'
    BY <1>4, <2>1 DEF RequestSound, Typed, Mild
  <2> QED
    BY <2>2 DEF late
<1> QED
  BY <1>2, <1>3, <1>4 DEF Typed

Requested == DOMAIN request = Worker /\ RequestsSound

LEMMA IdleSound == RequestSound(Idle)
BY DEF RequestSound, Typed

LEMMA AllWaiting == ASSUME Requested, Calm, UNCHANGED request
                    PROVE  Requested'
<1> SUFFICES ASSUME NEW v \in Worker
             PROVE  RequestSound(request[v])'
  BY DEF Requested, RequestsSound
<1>1. PICK q : q = request[v]
  OBVIOUS
<1>2. RequestSound(q)
  BY <1>1 DEF Requested, RequestsSound
<1>3. RequestSound(q)'
  BY <1>2, WaitingKept
<1> QED
  BY <1>1, <1>3

\* One worker starts or ends a handler, and the others wait.
LEMMA Replacement ==
    ASSUME Requested, Calm, NEW w \in Worker, NEW handler, RequestSound(handler),
           request' = [request EXCEPT ![w] = handler]
    PROVE  Requested'
<1>1. ASSUME NEW v \in Worker
      PROVE  RequestSound(request[v])'
  <2>1. PICK q : q = request'[v]
    OBVIOUS
  <2>2. RequestSound(q)
    <3>1. CASE v = w
      BY <2>1, <3>1 DEF Requested
    <3>2. CASE v # w
      BY <2>1, <3>2 DEF Requested, RequestsSound
    <3> QED
      BY <3>1, <3>2
  <2>3. RequestSound(q)'
    BY <2>2, WaitingKept
  <2> QED
    BY <2>1, <2>3
<1> QED
  BY <1>1 DEF Requested, RequestsSound

\* One worker commits, and the others are overtaken.
LEMMA AllOvertaken ==
    ASSUME Requested, Mild, NEW requests,
           \A v \in Worker : requests[v] \in {request[v], Idle},
           request' = Overtaken(requests)
    PROVE  Requested'
<1>1. ASSUME NEW v \in Worker
      PROVE  RequestSound(request[v])'
  <2>1. PICK q : q = requests[v]
    OBVIOUS
  <2>2. request'[v] = IF q = Idle THEN Idle ELSE [q EXCEPT !.late = TRUE]
    BY <2>1 DEF Overtaken
  <2>3. CASE q = Idle
    <3>1. RequestSound(Idle)'
      BY DEF RequestSound, Typed
    <3> QED
      BY <2>2, <2>3, <3>1
  <2>4. CASE q # Idle
    <3>1. Typed(q)
      BY <2>1, <2>4 DEF Requested, RequestsSound, RequestSound
    <3>2. RequestSound([q EXCEPT !.late = TRUE])'
      BY <2>4, <3>1, OvertakenKept
    <3> QED
      BY <2>2, <2>4, <3>2
  <2> QED
    BY <2>3, <2>4
<1> QED
  BY <1>1 DEF Requested, RequestsSound, Overtaken

LEMMA FinishedOrNot == ASSUME Requested, NEW w \in Worker
                       PROVE  \A v \in Worker : Finished(w)[v] \in {request[v], Idle}
BY DEF Requested, Finished

\* Nothing but a request changes.
LEMMA CalmUnchanged ==
    ASSUME UNCHANGED <<holidays, leaveVars, attendanceVars>>
    PROVE  Calm
BY DEF Calm, Mild, leaveVars, attendanceVars, OpenDays, OpenAt

\* A submission's handler holds a row that its checks admit.
LEMMA SubmitHeld ==
    ASSUME LeaveInv, NEW user \in User, NEW body \in LeaveRequestCreate, NEW row,
           row = [type |-> body.type, first |-> body.dates[1], last |-> body.dates[2],
                  days |-> leave_duration(body.dates[1]..body.dates[2]),
                  status |-> IF Chain(body.type) = <<>> THEN "APPROVED" ELSE "SUBMITTED",
                  step |-> 0, cert |-> body.cert],
           MaySubmit(user, row)
    PROVE  RequestSound([op |-> "submit", row |-> row, created |-> Created(row),
                         allocations |-> leave_days_by_year(body.dates[1]..body.dates[2]),
                         late |-> FALSE])
<1>1. /\ body.type \in Type
      /\ body.dates \in Dates
      /\ body.cert \in uploaded \cup {NULL}
      /\ LeaveType[body.type].requires_doctor_cert <=> body.cert # NULL
  BY DEF LeaveRequestCreate
<1>2. uploaded \subseteq Certificate
  BY DEF LeaveInv, LeaveTyped
<1>3. body.dates[1] \in Day /\ body.dates[2] \in Day /\ body.dates[1]..body.dates[2] \subseteq Day
  BY <1>1, LeaveAssumption
<1>4. leave_duration(body.dates[1]..body.dates[2]) \in Nat
  <2>1. body.dates[1] \in Int /\ body.dates[2] \in Int
    BY <1>3, CalendarAssumption
  <2>2. IsFiniteSet(body.dates[1]..body.dates[2])
    BY <2>1, FS_Interval
  <2>3. IsFiniteSet((body.dates[1]..body.dates[2]) \ (Weekend \cup holidays))
    BY <2>2, FS_Difference
  <2> QED
    BY <2>3, FS_CardinalityType DEF leave_duration
<1>5. row \in LeaveRequest
  <2>1. 0 \in 0..Len(_LEAVE_APPROVAL_CHAIN)
    BY DEF _LEAVE_APPROVAL_CHAIN
  <2>2. body.cert \in Certificate \cup {NULL}
    BY <1>1, <1>2
  <2>3. (IF Chain(body.type) = <<>> THEN "APPROVED" ELSE "SUBMITTED")
            \in {"SUBMITTED", "APPROVED", "REJECTED"}
    OBVIOUS
  <2>4. PICK days \in Nat : days = leave_duration(body.dates[1]..body.dates[2])
    BY <1>4
  <2>5. PICK status \in {"SUBMITTED", "APPROVED", "REJECTED"} :
            status = IF Chain(body.type) = <<>> THEN "APPROVED" ELSE "SUBMITTED"
    BY <2>3
  <2>6. PICK type \in Type, first \in Day, last \in Day, cert \in Certificate \cup {NULL} :
            /\ type = body.type
            /\ first = body.dates[1]
            /\ last = body.dates[2]
            /\ cert = body.cert
    BY <1>1, <1>3, <2>2
  <2>7. row = [type |-> type, first |-> first, last |-> last, days |-> days,
               status |-> status, step |-> 0, cert |-> cert]
    BY <2>4, <2>5, <2>6
  <2>8. PICK steps : steps = 0..Len(_LEAVE_APPROVAL_CHAIN)
    OBVIOUS
  <2>9. row \in [type : Type, first : Day, last : Day, days : Nat,
                 status : {"SUBMITTED", "APPROVED", "REJECTED"}, step : steps,
                 cert : Certificate \cup {NULL}]
    BY <2>1, <2>7, <2>8
  <2> QED
    BY Zenon, <2>8, <2>9 DEF LeaveRequest
<1>6. /\ row.type = body.type
      /\ row.first = body.dates[1] /\ row.last = body.dates[2]
      /\ row.status = (IF Chain(body.type) = <<>> THEN "APPROVED" ELSE "SUBMITTED")
      /\ row.step = 0
      /\ row.cert = body.cert
  OBVIOUS
<1>7. Span(row) = body.dates[1]..body.dates[2]
  BY <1>6 DEF Span
<1>8. RowSound(row) /\ row.status # "REJECTED"
  <2>1. row.status = "SUBMITTED" => row.step < Len(Chain(row.type))
    <3>1. Chain(body.type) # <<>> => Len(Chain(body.type)) = 2
      BY DEF Chain, _LEAVE_APPROVAL_CHAIN
    <3>2. row.status = "SUBMITTED" => Chain(body.type) # <<>>
      BY <1>6
    <3> QED
      BY <1>6, <3>1, <3>2
  <2>2. LeaveType[row.type].requires_doctor_cert => row.cert \in Certificate
    BY <1>1, <1>2, <1>6
  <2>3. row.status # "REJECTED"
    BY <1>6
  <2> QED
    BY <1>3, <1>5, <1>7, <2>1, <2>2, <2>3 DEF RowSound
<1>9. leave_days_by_year(Span(row)) \in [Year -> Nat]
  BY <1>8, DaysByYear
<1>10. Created(row) \in SUBSET Year
  BY DEF Created, Needed
<1>11. \A l \in Leave : leave[l] # NULL => Apart(row, leave[l])
  BY <1>6 DEF MaySubmit, Requests, Attached, Apart
<1>12. Filed(row, certificate)
  BY StaffAssumption DEF MaySubmit, Filed
<1> DEFINE handler(created, days) ==
               [op |-> "submit", row |-> row, created |-> created, allocations |-> days,
                late |-> FALSE]
<1>13. PICK days \in [Year -> Nat] : days = leave_days_by_year(Span(row))
  BY <1>9
<1>14. PICK created \in SUBSET Year : created = Created(row)
  BY <1>10
<1>15. /\ handler(created, days) \in SubmitRecord
       /\ handler(created, days).op = "submit"
       /\ handler(created, days).row = row
       /\ handler(created, days).allocations = days
  BY <1>5 DEF SubmitRecord
<1> HIDE DEF handler
<1>16. Typed(handler(created, days))
  BY <1>8, <1>13, <1>15 DEF Typed
<1>17. Fresh(handler(created, days))
  BY <1>11, <1>12, <1>15 DEF Fresh
<1>18. RequestSound(handler(created, days))
  BY <1>16, <1>17 DEF RequestSound
<1> QED
  BY <1>7, <1>13, <1>14, <1>18 DEF handler

LEMMA FilesHeld ==
    ASSUME LeaveInv, NEW files \in SUBSET Certificate, NEW name \in Certificate \cup {NULL},
           NEW user \in User, \A c \in files : ~ Attached(c)
    PROVE  RequestSound([op |-> "files", removed |-> files, added |-> name, owner |-> user,
                         late |-> FALSE])
<1> DEFINE handler == [op |-> "files", removed |-> files, added |-> name, owner |-> user,
                       late |-> FALSE]
<1>1. handler \in FilesRecord /\ handler.op = "files" /\ handler.removed = files
  BY DEF FilesRecord
<1> HIDE DEF handler
<1>2. \A l \in Leave : leave[l] # NULL => leave[l].cert \notin files
  BY DEF Attached, Requests
<1>3. RequestSound(handler)
  BY <1>1, <1>2 DEF RequestSound, Typed, Fresh
<1> QED
  BY <1>3 DEF handler

LEMMA ClockHeld ==
    ASSUME NEW d \in Day, OpenDays = {}
    PROVE  RequestSound([op |-> "clock_in", date |-> d, late |-> FALSE,
                         found |-> attendance[d] # NULL])
<1> DEFINE handler == [op |-> "clock_in", date |-> d, late |-> FALSE,
                       found |-> attendance[d] # NULL]
<1>1. /\ handler \in ClockRecord /\ handler.op = "clock_in"
      /\ handler.found => attendance[handler.date] # NULL
  BY DEF ClockRecord
<1> HIDE DEF handler
<1>2. RequestSound(handler)
  BY <1>1 DEF RequestSound, Typed, Fresh
<1> QED
  BY <1>2 DEF handler

---------------------------------------------------------------------------
\* The steps of the specification.

\* A handler starts: nothing changes but the request of its worker.
LEMMA StartKept ==
    ASSUME IInv, NEW w \in Worker, NEW handler, RequestSound(handler), Start(w, handler),
           UNCHANGED attendanceVars
    PROVE  IInv'
<1>1. Calm /\ LeaveInv' /\ AttendanceInv'
  BY CalmUnchanged, LeaveUnchanged, AttendanceUnchanged DEF Start, IInv, attendanceVars
<1>2. request' = [request EXCEPT ![w] = handler]
  BY DEF Start
<1>3. Requested'
  BY <1>1, <1>2, Replacement DEF IInv, Requested
<1> QED
  BY <1>1, <1>3 DEF IInv, Requested

LEMMA LeaveKept == ASSUME IInv, LeaveNext, UNCHANGED attendanceVars
                   PROVE  IInv'
<1>1. /\ LeaveInv /\ AttendanceInv /\ Requested
      /\ \A w \in Worker : RequestSound(request[w])
  BY DEF IInv, Requested, RequestsSound
<1>2. AttendanceInv' /\ OpenDays' = OpenDays
  BY <1>1, AttendanceUnchanged DEF attendanceVars
<1>3. ASSUME NEW w \in Worker, SubmitLeave(w)
      PROVE  IInv'
  <2>1. PICK user \in User, body \in LeaveRequestCreate :
            LET row == [type |-> body.type, first |-> body.dates[1], last |-> body.dates[2],
                        days |-> leave_duration(body.dates[1]..body.dates[2]),
                        status |-> IF Chain(body.type) = <<>> THEN "APPROVED" ELSE "SUBMITTED",
                        step |-> 0, cert |-> body.cert]
            IN  /\ MaySubmit(user, row)
                /\ Start(w, [op |-> "submit", row |-> row, created |-> Created(row),
                             allocations |-> leave_days_by_year(body.dates[1]..body.dates[2]),
                             late |-> FALSE])
    BY <1>3 DEF SubmitLeave
  <2>2. PICK row :
            row = [type |-> body.type, first |-> body.dates[1], last |-> body.dates[2],
                   days |-> leave_duration(body.dates[1]..body.dates[2]),
                   status |-> IF Chain(body.type) = <<>> THEN "APPROVED" ELSE "SUBMITTED",
                   step |-> 0, cert |-> body.cert]
    OBVIOUS
  <2>3. PICK handler :
            handler = [op |-> "submit", row |-> row, created |-> Created(row),
                       allocations |-> leave_days_by_year(body.dates[1]..body.dates[2]),
                       late |-> FALSE]
    OBVIOUS
  <2>4. MaySubmit(user, row) /\ Start(w, handler)
    BY <2>1, <2>2, <2>3
  <2>5. RequestSound(handler)
    BY <1>1, <2>2, <2>3, <2>4, SubmitHeld
  <2> QED
    BY <2>4, <2>5, StartKept
<1>4. ASSUME NEW w \in Worker, CommitLeave(w)
      PROVE  IInv'
  <2>1. LeaveInv'
    BY <1>1, <1>4, CommitLeaveKept
  <2>2. Mild
    BY <1>4 DEF Mild, CommitLeave, attendanceVars
  <2>3. request' = Overtaken(Finished(w))
    BY <1>4 DEF CommitLeave
  <2>4. Requested'
    BY <1>1, <2>2, <2>3, FinishedOrNot, AllOvertaken
  <2> QED
    BY <1>2, <2>1, <2>4 DEF IInv, Requested
<1>5. ASSUME NEW w \in Worker, NEW files \in SUBSET uploaded,
             NEW name \in Certificate \cup {NULL}, NEW user \in User,
             RemoveFiles(w, files, name, user)
      PROVE  IInv'
  <2>1. PICK handler : handler = [op |-> "files", removed |-> files, added |-> name,
                                  owner |-> user, late |-> FALSE]
    OBVIOUS
  <2>2. (\A c \in files : ~ Attached(c)) /\ Start(w, handler)
    BY <1>5, <2>1 DEF RemoveFiles
  <2>3. files \in SUBSET Certificate
    BY <1>1 DEF LeaveInv, LeaveTyped
  <2>4. RequestSound(handler)
    BY <1>1, <2>1, <2>2, <2>3, FilesHeld
  <2> QED
    BY <2>2, <2>4, StartKept
<1>6. ASSUME NEW w \in Worker, UploadCertificate(w)
      PROVE  IInv'
  <2>1. PICK user \in User, c \in Certificate \ uploaded, old \in SUBSET uploaded :
            RemoveFiles(w, old, c, user)
    BY <1>6 DEF UploadCertificate
  <2> QED
    BY <1>5, <2>1
<1>7. ASSUME NEW w \in Worker, DiscardCertificate(w)
      PROVE  IInv'
  <2>1. PICK user \in User, c \in uploaded : RemoveFiles(w, {c}, NULL, user)
    BY <1>7 DEF DiscardCertificate
  <2>2. {c} \in SUBSET uploaded /\ NULL \in Certificate \cup {NULL}
    OBVIOUS
  <2> QED
    BY <1>5, <2>1, <2>2
<1>8. ASSUME NEW w \in Worker, WriteFiles(w)
      PROVE  IInv'
  <2>1. LeaveInv'
    BY <1>1, <1>8, WriteFilesKept
  <2>2. Mild
    BY <1>8 DEF Mild, WriteFiles, attendanceVars
  <2>3. request' = Overtaken(Finished(w))
    BY <1>8 DEF WriteFiles
  <2>4. Requested'
    BY <1>1, <2>2, <2>3, FinishedOrNot, AllOvertaken
  <2> QED
    BY <1>2, <2>1, <2>4 DEF IInv, Requested
<1>9. ASSUME NEW l \in Requests, ApproveLeave(l) \/ RejectLeave(l)
      PROVE  IInv'
  <2>1. LeaveInv' /\ Signed(leave[l], leave'[l])
    BY <1>1, <1>9, ApproveKept, RejectKept
  <2>2. /\ l \in Leave /\ leave[l] # NULL
        /\ \A k \in Leave \ {l} : leave'[k] = leave[k]
    BY <1>1, <1>9 DEF LeaveInv, LeaveTyped, ApproveLeave, RejectLeave, Requests
  <2>3. UNCHANGED <<holidays, request, certificate, steady, attendance>>
    BY <1>9 DEF ApproveLeave, RejectLeave, attendanceVars
  <2>4. Calm
    BY <1>2, <2>1, <2>2, <2>3 DEF Calm, Mild
  <2>5. Requested'
    BY <1>1, <2>3, <2>4, AllWaiting
  <2> QED
    BY <1>2, <2>1, <2>5 DEF IInv, Requested
<1>10. ASSUME NEW y \in Year, SeedBalances(y)
       PROVE  IInv'
  <2>1. LeaveInv'
    BY <1>1, <1>10, SeedKept
  <2>2. Calm /\ UNCHANGED request
    BY <1>2, <1>10 DEF Calm, Mild, SeedBalances, attendanceVars
  <2>3. Requested'
    BY <1>1, <2>2, AllWaiting
  <2> QED
    BY <1>2, <2>1, <2>3 DEF IInv, Requested
<1> QED
  BY <1>3, <1>4, <1>6, <1>7, <1>8, <1>9, <1>10 DEF LeaveNext

LEMMA AttendanceKept == ASSUME IInv, AttendanceNext, UNCHANGED leaveVars
                        PROVE  IInv'
<1>1. /\ LeaveInv /\ AttendanceInv /\ Requested
      /\ \A w \in Worker : RequestSound(request[w])
  BY DEF IInv, Requested, RequestsSound
<1>2. ASSUME UNCHANGED holidays
      PROVE  LeaveInv'
  BY <1>1, <1>2, LeaveUnchanged
<1>3. ASSUME NEW w \in Worker, ClockIn(w)
      PROVE  IInv'
  <2>1. PICK user \in User, d \in Day, place \in {"site", "elsewhere"} :
            /\ MayClockIn(d, place)
            /\ request' = [request EXCEPT ![w] = [op |-> "clock_in", date |-> d, late |-> FALSE,
                                                  found |-> attendance[d] # NULL]]
            /\ UNCHANGED <<holidays, attendanceVars>>
    BY <1>3 DEF ClockIn
  <2>2. PICK handler : handler = [op |-> "clock_in", date |-> d, late |-> FALSE,
                                  found |-> attendance[d] # NULL]
    OBVIOUS
  <2>3. RequestSound(handler)
    BY <2>1, <2>2, ClockHeld DEF MayClockIn
  <2>4. Calm /\ AttendanceInv' /\ LeaveInv'
    BY <1>1, <1>2, <2>1, CalmUnchanged, AttendanceUnchanged DEF attendanceVars
  <2>5. Requested'
    BY <1>1, <2>1, <2>2, <2>3, <2>4, Replacement
  <2> QED
    BY <2>4, <2>5 DEF IInv, Requested
<1>4. ASSUME NEW w \in Worker, CommitClockIn(w)
      PROVE  IInv'
  <2>1. AttendanceInv' /\ \A d \in Day : attendance[d] # NULL => attendance'[d] # NULL
    BY <1>1, <1>4, CommitClockInKept
  <2>2. Mild /\ UNCHANGED holidays
    BY <1>4, <2>1 DEF Mild, CommitClockIn, leaveVars
  <2>3. request' = Overtaken(Finished(w))
    BY <1>4 DEF CommitClockIn
  <2>4. Requested'
    BY <1>1, <2>2, <2>3, FinishedOrNot, AllOvertaken
  <2> QED
    BY <1>2, <2>1, <2>2, <2>4 DEF IInv, Requested
<1>5. ASSUME NEW d \in Day, CreateManual(d)
      PROVE  IInv'
  <2>1. AttendanceInv' /\ \A c \in Day : attendance[c] # NULL => attendance'[c] # NULL
    BY <1>1, <1>5, CreateManualKept
  <2>2. Mild /\ UNCHANGED holidays
    BY <1>5, <2>1 DEF Mild, CreateManual, leaveVars
  <2>3. request' = Overtaken(request)
    BY <1>5 DEF CreateManual
  <2>4. Requested'
    BY <1>1, <2>2, <2>3, AllOvertaken
  <2> QED
    BY <1>2, <2>1, <2>2, <2>4 DEF IInv, Requested
<1>6. ASSUME Calm, AttendanceInv', UNCHANGED <<holidays, request>>
      PROVE  IInv'
  <2>1. Requested'
    BY <1>1, <1>6, AllWaiting
  <2> QED
    BY <1>2, <1>6, <2>1 DEF IInv, Requested
<1>7. ASSUME NEW d \in Day, SubmitOvertime(d)
      PROVE  IInv'
  <2>1. AttendanceInv'
    BY <1>1, <1>7, SubmitOvertimeKept
  <2>2. UNCHANGED <<holidays, request, attendance>>
    BY <1>7 DEF SubmitOvertime
  <2>3. Calm
    BY <2>2 DEF Calm, Mild, leaveVars, OpenDays, OpenAt
  <2> QED
    BY <1>6, <2>1, <2>2, <2>3
<1>8. ASSUME NEW o \in Overtime, DecideOvertime(o)
      PROVE  IInv'
  <2>1. AttendanceInv'
    BY <1>1, <1>8, DecideOvertimeKept
  <2>2. UNCHANGED <<holidays, request, attendance>>
    BY <1>8 DEF DecideOvertime
  <2>3. Calm
    BY <2>2 DEF Calm, Mild, leaveVars, OpenDays, OpenAt
  <2> QED
    BY <1>6, <2>1, <2>2, <2>3
<1>9. ASSUME ClockOut
      PROVE  IInv'
  <2>1. /\ AttendanceInv'
        /\ \A d \in Day : attendance[d] # NULL => attendance'[d] # NULL
        /\ OpenDays' \subseteq OpenDays
    BY <1>1, <1>9, ClockOutKept
  <2>2. UNCHANGED <<holidays, request>>
    BY <1>9 DEF ClockOut
  <2>3. Calm
    BY <2>1, <2>2 DEF Calm, Mild, leaveVars
  <2> QED
    BY <1>6, <2>1, <2>2, <2>3
<1>10. ASSUME ChangeLocation
       PROVE  IInv'
  <2>1. UNCHANGED <<holidays, request, attendance, overtime, unchecked>>
    BY <1>10 DEF ChangeLocation
  <2>2. AttendanceInv' /\ Calm
    BY <1>1, <2>1, AttendanceUnchanged DEF Calm, Mild, leaveVars
  <2> QED
    BY <1>6, <2>1, <2>2
<1> QED
  BY <1>3, <1>4, <1>5, <1>7, <1>8, <1>9, <1>10 DEF AttendanceNext

LEMMA CommonKept == ASSUME IInv, Common
                    PROVE  IInv'
<1>1. LeaveInv /\ AttendanceInv /\ Requested
  BY DEF IInv, Requested
<1>2. ASSUME NEW d \in Day, ChangeHoliday(d), steady' = FALSE,
             UNCHANGED <<leave, balance, certificate, uploaded, raced, attendanceVars>>
      PROVE  IInv'
  <2>1. LeaveInv' /\ AttendanceInv' /\ OpenDays' = OpenDays
    BY <1>1, <1>2, HolidayKept, AttendanceUnchanged DEF attendanceVars
  <2>2. Calm /\ UNCHANGED request
    BY <1>2, <2>1 DEF Calm, Mild, ChangeHoliday, attendanceVars
  <2>3. Requested'
    BY <1>1, <2>2, AllWaiting
  <2> QED
    BY <2>1, <2>3 DEF IInv, Requested
<1>3. ASSUME NEW w \in Worker, Rollback(w), UNCHANGED <<leaveVars, attendanceVars>>
      PROVE  IInv'
  <2>1. UNCHANGED holidays /\ request' = [request EXCEPT ![w] = Idle]
    BY <1>3 DEF Rollback, Finished
  <2>2. Calm /\ LeaveInv' /\ AttendanceInv'
    BY <1>1, <1>3, <2>1, CalmUnchanged, LeaveUnchanged, AttendanceUnchanged DEF attendanceVars
  <2>3. Requested'
    BY <1>1, <2>1, <2>2, IdleSound, Replacement
  <2> QED
    BY <2>2, <2>3 DEF IInv, Requested
<1> QED
  BY <1>2, <1>3 DEF Common

LEMMA Kept == IInv /\ [Next]_vars => IInv'
<1> SUFFICES ASSUME IInv, [Next]_vars
             PROVE  IInv'
  OBVIOUS
<1>1. LeaveInv /\ AttendanceInv /\ Requested
  BY DEF IInv, Requested
<1>2. ASSUME UNCHANGED <<holidays, request, leaveVars, attendanceVars>>
      PROVE  IInv'
  <2>1. Calm /\ LeaveInv' /\ AttendanceInv'
    BY <1>1, <1>2, CalmUnchanged, LeaveUnchanged, AttendanceUnchanged DEF attendanceVars
  <2>2. Requested'
    BY <1>1, <1>2, <2>1, AllWaiting
  <2> QED
    BY <2>1, <2>2 DEF IInv, Requested
<1>3. CASE LeaveNext /\ UNCHANGED attendanceVars
  BY <1>3, LeaveKept
<1>4. CASE AttendanceNext /\ UNCHANGED leaveVars
  BY <1>4, AttendanceKept
<1>5. CASE Common
  BY <1>5, CommonKept
<1>6. CASE ChangeEmployment
  BY <1>2, <1>6 DEF ChangeEmployment
<1>7. CASE UNCHANGED vars
  BY <1>2, <1>7 DEF vars
<1> QED
  BY <1>3, <1>4, <1>5, <1>6, <1>7 DEF Next

LEMMA Begun == Init => IInv
<1> SUFFICES ASSUME Init
             PROVE  IInv
  OBVIOUS
<1>1. /\ leave = [l \in Leave |-> NULL]
      /\ balance = [t \in Type |-> [y \in Year |-> NULL]]
      /\ certificate = [c \in Certificate |-> NULL]
      /\ uploaded = {}
      /\ steady = TRUE
      /\ attendance = [d \in Day |-> NULL]
      /\ overtime = [o \in Overtime |-> NULL]
      /\ request = [w \in Worker |-> Idle]
  BY DEF Init, LeaveInit, AttendanceInit
<1>2. LeaveTyped
  BY <1>1 DEF LeaveTyped
<1>3. BalancesSound
  <2> SUFFICES ASSUME NEW t \in Type, NEW y \in Year
               PROVE  BalanceSound(t, y)
    BY DEF BalancesSound
  <2>1. Balances(t)[y] = [accrued |-> Accrued(t), used |-> 0] /\ Balances(t)[y].accrued \in Nat
    BY <1>1, <1>2, BalancesTyped DEF Balances
  <2>2. Taken(leave, t, y, holidays) = {}
    BY <1>1 DEF Taken
  <2>3. Cardinality(Taken(leave, t, y, holidays)) = 0
    BY <2>2, FS_EmptySet
  <2> QED
    BY <2>1, <2>3 DEF BalanceSound
<1>4. RequestsApart
  BY <1>1 DEF RequestsApart
<1>5. AttendanceTyped /\ OvertimeSound
  BY <1>1 DEF AttendanceTyped, OvertimeSound
<1>6. OpenDays = {}
  BY <1>1 DEF OpenDays, OpenAt
<1>7. ShiftsSound
  BY <1>6, FS_EmptySet DEF ShiftsSound
<1>8. Requested
  BY <1>1, IdleSound DEF Requested, RequestsSound
<1> QED
  BY <1>2, <1>3, <1>4, <1>5, <1>7, <1>8 DEF IInv, LeaveInv, AttendanceInv, Requested

---------------------------------------------------------------------------
\* The theorems.

\* The inductive invariant holds of every reachable state.
THEOREM Inductive == Spec => []IInv
<1>1. Init => IInv
  BY Begun
<1>2. IInv /\ [Next]_vars => IInv'
  BY Kept
<1> QED
  BY <1>1, <1>2, PTL DEF Spec

\* No balance is overdrawn, and as long as the calendar stays the days used are those of
\* the approved requests (check_or_deduct_leave_balances).
THEOREM BalancesReconcileHolds == Spec => []BalancesReconcile
<1>1. IInv => BalancesReconcile
  <2> SUFFICES ASSUME LeaveTyped, BalancesSound
               PROVE  BalancesReconcile
    BY DEF IInv, LeaveInv
  <2>1. LeaveTypeOK
    BY DEF LeaveTypeOK, LeaveTyped, RowSound, Requests
  <2>2. ASSUME NEW t \in Type, NEW y \in Year, balance[t][y] # NULL
        PROVE  LET approved == {l \in Requests :
                                    leave[l].type = t /\ leave[l].status = "APPROVED"}
                   taken == {ld \in approved \X (Day \ (Weekend \cup holidays)) :
                                 YearOf[ld[2]] = y /\ ld[2] \in Span(leave[ld[1]])}
               IN  /\ balance[t][y].used <= balance[t][y].accrued
                   /\ steady /\ ~ Unlimited(t) => balance[t][y].used = Cardinality(taken)
    <3> DEFINE approved == {l \in Requests : leave[l].type = t /\ leave[l].status = "APPROVED"}
               taken == {ld \in approved \X (Day \ (Weekend \cup holidays)) :
                             YearOf[ld[2]] = y /\ ld[2] \in Span(leave[ld[1]])}
    <3>1. Balances(t)[y] = balance[t][y]
      BY <2>2, BalancesTyped
    <3>2. taken = Taken(leave, t, y, holidays)
      BY DEF Taken, Counted, Requests
    <3>3. BalanceSound(t, y)
      BY DEF BalancesSound
    <3> HIDE DEF taken
    <3>4. /\ balance[t][y].used <= balance[t][y].accrued
          /\ steady /\ ~ Unlimited(t) => balance[t][y].used = Cardinality(taken)
      BY <3>1, <3>2, <3>3 DEF BalanceSound
    <3> QED
      BY <3>4 DEF taken
  <2> QED
    BY <2>1, <2>2 DEF BalancesReconcile
<1> QED
  BY <1>1, Inductive, PTL

\* Requests that wait or are approved share no day and no certificate, and their files are
\* on disk, but for those that overlapping handlers got at.
THEOREM SubmissionsApartHolds == Spec => []SubmissionsApart
<1>1. IInv => SubmissionsApart
  BY DEF IInv, LeaveInv, RequestsApart, SubmissionsApart, Requests, Apart, Filed
<1> QED
  BY <1>1, Inductive, PTL

\* A clock-in opens no second shift, unless another session did while it awaited the selfie.
THEOREM OneOpenShiftHolds == Spec => []OneOpenShift
<1>1. IInv => OneOpenShift
  <2> SUFFICES ASSUME AttendanceTyped, ShiftsSound
               PROVE  OneOpenShift
    BY DEF IInv, AttendanceInv
  <2>1. \A d \in Day : attendance[d] = NULL \/ attendance[d] \in AttendanceRecord
    BY DEF AttendanceTyped
  <2>2. PICK S : S = OpenDays \ unchecked
    OBVIOUS
  <2>3. \A c, d \in S : c = d
    BY <2>2 DEF ShiftsSound
  <2>4. Cardinality(S) <= 1
    <3>1. CASE S = {}
      BY <3>1, FS_EmptySet
    <3>2. CASE S # {}
      <4>1. PICK d : S = {d}
        BY <2>3, <3>2
      <4> QED
        BY <4>1, FS_Singleton
    <3> QED
      BY <3>1, <3>2
  <2> QED
    BY <2>1, <2>2, <2>4 DEF OneOpenShift
<1> QED
  BY <1>1, Inductive, PTL

\* An overtime request is linked to the record of its day as soon as that exists, and a day
\* has at most one request that is not rejected.
THEOREM OvertimeLinkedHolds == Spec => []OvertimeLinked
<1>1. IInv => OvertimeLinked
  BY DEF IInv, AttendanceInv, AttendanceTyped, OvertimeSound, OvertimeLinked
<1> QED
  BY <1>1, Inductive, PTL

---------------------------------------------------------------------------
\* One handler at a time: while one is at work, the next step is its commit or rollback.
Serially == \A w \in Worker : request[w] # Idle => request'[w] = Idle

NobodyLate == raced = {} /\ \A w \in Worker : request[w] # Idle => ~ request[w].late

\* Who was idle is still idle when others are overtaken.
LEMMA OvertakenIdle ==
    ASSUME NEW requests, NEW w \in Worker, requests[w] = Idle
    PROVE  Overtaken(requests)[w] = Idle
BY DEF Overtaken

LEMMA NobodyLateKept ==
    ASSUME DOMAIN request = Worker, NobodyLate, [Next]_vars, [Serially]_vars
    PROVE  NobodyLate'
<1>1. CASE UNCHANGED vars
  BY <1>1 DEF vars, leaveVars, NobodyLate
<1> SUFFICES ASSUME Next, Serially
             PROVE  NobodyLate'
  BY <1>1
<1>2. ASSUME NEW w \in Worker, NEW req, ~ req.late, request' = [request EXCEPT ![w] = req],
             raced' = raced
      PROVE  NobodyLate'
  <2>1. request'[w] = req /\ \A v \in Worker : v # w => request'[v] = request[v]
    BY <1>2
  <2> QED
    BY <1>2, <2>1 DEF NobodyLate
<1>3. ASSUME raced' = raced, \A v \in Worker : request[v] = Idle => request'[v] = Idle
      PROVE  NobodyLate'
  BY <1>3 DEF Serially, NobodyLate
<1>4. CASE LeaveNext
  <2>1. CASE \E w \in Worker : SubmitLeave(w)
    <3>1. PICK w \in Worker : \E req : ~ req.late /\ Start(w, req)
      BY <2>1, Zenon DEF SubmitLeave
    <3> QED
      BY <1>2, <3>1 DEF Start, leaveVars
  <2>2. CASE \E w \in Worker : UploadCertificate(w) \/ DiscardCertificate(w)
    <3>1. PICK w \in Worker : \E req : ~ req.late /\ Start(w, req)
      BY <2>2, Zenon DEF UploadCertificate, DiscardCertificate, RemoveFiles
    <3> QED
      BY <1>2, <3>1 DEF Start, leaveVars
  <2>3. CASE \E w \in Worker : CommitLeave(w) \/ WriteFiles(w)
    <3>1. PICK w \in Worker : CommitLeave(w) \/ WriteFiles(w)
      BY <2>3
    <3>2. request[w] # Idle /\ request' = Overtaken(Finished(w))
      BY <3>1 DEF CommitLeave, WriteFiles, Idle
    <3>3. ~ request[w].late
      BY <3>2 DEF NobodyLate
    <3>4. raced' = raced
      BY <3>1, <3>3 DEF CommitLeave, WriteFiles
    <3>5. \A v \in Worker : request[v] = Idle => Finished(w)[v] = Idle
      BY DEF Finished
    <3>6. \A v \in Worker : request[v] = Idle => request'[v] = Idle
      BY <3>2, <3>5, OvertakenIdle
    <3> QED
      BY <1>3, <3>4, <3>6
  <2>4. CASE \/ \E l \in Requests : ApproveLeave(l) \/ RejectLeave(l)
             \/ \E y \in Year : SeedBalances(y)
    <3>1. UNCHANGED <<request, raced>>
      BY <2>4 DEF ApproveLeave, RejectLeave, SeedBalances
    <3> QED
      BY <1>3, <3>1
  <2> QED
    BY <1>4, <2>1, <2>2, <2>3, <2>4 DEF LeaveNext
<1>5. CASE AttendanceNext /\ UNCHANGED leaveVars
  <2>1. raced' = raced
    BY <1>5 DEF leaveVars
  <2>2. CASE \E w \in Worker : ClockIn(w)
    <3>1. PICK w \in Worker : \E req : ~ req.late /\ request' = [request EXCEPT ![w] = req]
      BY <2>2, Zenon DEF ClockIn
    <3> QED
      BY <1>2, <2>1, <3>1
  <2>3. CASE \E w \in Worker : CommitClockIn(w)
    <3>1. PICK w \in Worker : request' = Overtaken(Finished(w))
      BY <2>3 DEF CommitClockIn
    <3>2. \A v \in Worker : request[v] = Idle => Finished(w)[v] = Idle
      BY DEF Finished
    <3>3. \A v \in Worker : request[v] = Idle => request'[v] = Idle
      BY <3>1, <3>2, OvertakenIdle
    <3> QED
      BY <1>3, <2>1, <3>3
  <2>4. CASE \E d \in Day : CreateManual(d)
    <3>1. request' = Overtaken(request)
      BY <2>4 DEF CreateManual
    <3>2. \A v \in Worker : request[v] = Idle => request'[v] = Idle
      BY <3>1, OvertakenIdle
    <3> QED
      BY <1>3, <2>1, <3>2
  <2>5. CASE \/ \E d \in Day : SubmitOvertime(d)
             \/ \E o \in Overtime : DecideOvertime(o)
             \/ ClockOut
             \/ ChangeLocation
    <3>1. request' = request
      BY <2>5 DEF SubmitOvertime, DecideOvertime, ClockOut, ChangeLocation
    <3> QED
      BY <1>3, <2>1, <3>1
  <2> QED
    BY <1>5, <2>2, <2>3, <2>4, <2>5 DEF AttendanceNext
<1>6. CASE Common \/ ChangeEmployment
  <2>1. raced' = raced
    BY <1>6 DEF Common, ChangeEmployment, leaveVars
  <2>2. \A v \in Worker : request[v] = Idle => request'[v] = Idle
    BY <1>6 DEF Common, ChangeEmployment, ChangeHoliday, Rollback, Finished
  <2> QED
    BY <1>3, <2>1, <2>2
<1> QED
  BY <1>4, <1>5, <1>6 DEF Next

\* SubmissionsApart without its exception.
AllApart ==
    \A l \in Leave : leave[l] # NULL =>
        /\ \A k \in Leave \ {l} : leave[k] # NULL => Apart(leave[l], leave[k])
        /\ Filed(leave[l], certificate)

\* The exception of SubmissionsApart is the overlap of handlers and nothing else: one at a
\* time, no two leaves overlap, and no certificate is lost or shared
\* (submit_leave_request, discard_leave_doctor_certificate).
THEOREM SerialLeavesApart == Spec /\ [][Serially]_vars => []AllApart
<1>1. Init => NobodyLate
  BY DEF Init, LeaveInit, NobodyLate
<1>2. IInv => DOMAIN request = Worker
  BY DEF IInv
<1>3. IInv /\ NobodyLate /\ [Next]_vars /\ [Serially]_vars => NobodyLate'
  BY <1>2, NobodyLateKept
<1>4. IInv /\ NobodyLate => AllApart
  BY DEF IInv, LeaveInv, NobodyLate, RequestsApart, AllApart
<1> QED
  BY <1>1, <1>3, <1>4, Inductive, PTL DEF Spec
===============================================================================
