------------------------------- MODULE PayrollTax -------------------------------
(***************************************************************************)
(* The arithmetic of payroll: PPh 21 (app/hris_tax.py), BPJS               *)
(* (app/hris_bpjs.py) and overtime (app/hris_payroll_service.py), in whole *)
(* rupiah.  Rates are in hundredths of a percent.                          *)
(***************************************************************************)
EXTENDS Integers, Sequences, FiniteSets, Functions

Larger(a, b) == IF a > b THEN a ELSE b
Smaller(a, b) == IF a < b THEN a ELSE b

\* amount * rate, rounded half up; split so that no product leaves 32 bits.
Share(amount, rate) ==
    (amount \div 10000) * rate + (((amount % 10000) * rate + 5000) \div 10000)

\* n / d, rounded half to even.
HalfEven(n, d) ==
    LET quotient == n \div d
        twice == 2 * (n % d)
    IN  IF twice > d \/ (twice = d /\ quotient % 2 = 1) THEN quotient + 1 ELSE quotient

PTKP ==
    [status \in {"TK/0", "TK/1", "TK/2", "TK/3", "K/0", "K/1", "K/2", "K/3"} |->
        CASE status = "TK/0" -> 54000000
          [] status \in {"TK/1", "K/0"} -> 58500000
          [] status \in {"TK/2", "K/1"} -> 63000000
          [] status \in {"TK/3", "K/2"} -> 67500000
          [] status = "K/3" -> 72000000]

ter_category(status) ==
    CASE status \in {"TK/0", "TK/1", "K/0"} -> "A"
      [] status \in {"TK/2", "TK/3", "K/1", "K/2"} -> "B"
      [] status = "K/3" -> "C"

\* Inclusive upper bounds in thousands; above the last the rate is the last one.
TerUpper ==
    [A |-> <<5400, 5650, 5950, 6300, 6750, 7500, 8550, 9650, 10050, 10350, 10700, 11050,
             11600, 12500, 13750, 15100, 16950, 19750, 24150, 26450, 28000, 30050, 32400,
             35400, 39100, 43850, 47800, 51400, 56300, 62200, 68600, 77500, 89000, 103000,
             125000, 157000, 206000, 337000, 454000, 550000, 695000, 910000, 1400000>>,
     B |-> <<6200, 6500, 6850, 7300, 9200, 10750, 11250, 11600, 12600, 13600, 14950, 16400,
             18450, 21850, 26000, 27700, 29350, 31450, 33950, 37100, 41100, 45800, 49500,
             53800, 58500, 64000, 71000, 80000, 93000, 109000, 129000, 163000, 211000,
             374000, 459000, 555000, 704000, 957000, 1405000>>,
     C |-> <<6600, 6950, 7350, 7800, 8850, 9800, 10950, 11200, 12050, 12950, 14150, 15550,
             17050, 19500, 22700, 26600, 28100, 30100, 32600, 35400, 38900, 43000, 47400,
             51200, 55800, 60400, 66700, 74500, 83200, 95600, 110000, 134000, 169000,
             221000, 390000, 463000, 561000, 709000, 965000, 1419000>>]

\* Every table ends with the full percents up to 34.
TerRate ==
    [A |-> <<0, 25, 50, 75, 100, 125, 150, 175, 200, 225, 250, 300, 350, 400>>
               \o [i \in 1..30 |-> 400 + 100 * i],
     B |-> <<0, 25, 50, 75, 100, 150, 200, 250, 300>> \o [i \in 1..31 |-> 300 + 100 * i],
     C |-> <<0, 25, 50, 75, 100, 125, 150, 175, 200>> \o [i \in 1..32 |-> 200 + 100 * i]]

ASSUME TerAssumption ==
    \A c \in {"A", "B", "C"} : /\ TerRate[c] \in Seq(Nat) /\ TerUpper[c] \in Seq(Nat)
                               /\ Len(TerRate[c]) = Len(TerUpper[c]) + 1
                               /\ \A i \in 2..Len(TerUpper[c]) : TerUpper[c][i - 1] < TerUpper[c][i]

ter_rate(gross, status) ==
    LET c == ter_category(status)
        passed == {i \in DOMAIN TerUpper[c] : gross > TerUpper[c][i] * 1000}
    IN  TerRate[c][Cardinality(passed) + 1]

calculate_pph21_ter(gross, status) == Share(Larger(0, gross), ter_rate(gross, status))

\* Article 17: where the layers of the taxable income begin, in thousands, and their percents.
Bracket == << <<0, 5>>, <<60000, 15>>, <<250000, 25>>, <<500000, 30>>, <<5000000, 35>> >>

_annual_tax(pkp) ==
    LET income == Larger(0, pkp) \div 1000
        end(i) == IF i = Len(Bracket) THEN income ELSE Smaller(income, Bracket[i + 1][1])
        layer(i) == Larger(0, end(i) - Bracket[i][1])
    IN  SumFunction([i \in DOMAIN Bracket |-> layer(i) * Bracket[i][2] * 10])

\* Five percent of the gross is the job expense, at most six million.
calculate_pph21_annual(gross, status, contributions) ==
    LET job_expense == Smaller((Larger(0, gross) + 19) \div 20, 6000000)
    IN  _annual_tax(Larger(0, gross) - job_expense - Larger(0, contributions) - PTKP[status])

\* Negative when more was withheld than is due.
calculate_pph21_final_period(gross, prior, status, contributions) ==
    calculate_pph21_annual(gross, status, contributions) - prior

\* Mutant.
FewRounds == 2

Rounds == 100

\* The allowance a with tax[a] = a, from zero in at most Rounds rounds.
Settled(tax) ==
    LET round[left \in 0..Rounds] ==
            [allowance \in Nat |->
                LET next == Larger(0, tax[allowance])
                IN  IF left = 0 \/ next = allowance THEN allowance ELSE round[left - 1][next]]
    IN  round[Rounds][0]

calculate_pph21_gross_up(gross, status) ==
    LET allowance == Settled([a \in Nat |-> calculate_pph21_ter(gross + a, status)])
    IN  <<allowance, allowance>>

calculate_pph21_final_gross_up(gross, prior, status, contributions) ==
    LET tax == [a \in Nat |->
                   calculate_pph21_final_period(gross + a, prior, status, contributions)]
        allowance == Settled(tax)
    IN  <<allowance, tax[allowance]>>

JP_SALARY_CEILING == 10547400
KES_SALARY_CEILING == 12000000

\* The contributions of the employee; those of the employer change nothing else.
calculate_bpjs(gross) ==
    LET wage == Larger(0, gross)
    IN  [jht_employee |-> Share(wage, 200),
         jp_employee |-> Share(Smaller(wage, JP_SALARY_CEILING), 100),
         kes_employee |-> Share(Smaller(wage, KES_SALARY_CEILING), 100)]

\* Hours are paid up to the approved ones, weekdays first.
cap_overtime_hours(weekday, weekend, holiday, approved) ==
    LET paid1 == Smaller(weekday, approved)
        paid2 == Smaller(weekend, approved - paid1)
    IN  <<paid1, paid2, Smaller(holiday, approved - paid1 - paid2)>>

\* In half hours' pay: 1.5 for the first weekday hour and 2 after it, 2 for eight
\* weekend or holiday hours and 3 after them.
calculate_overtime_pay(basic, hours) ==
    LET weekday == 3 * Smaller(hours[1], 1) + 4 * Larger(0, hours[1] - 1)
        free(h) == 4 * Smaller(h, 8) + 6 * Larger(0, h - 8)
    IN  HalfEven(basic * (weekday + free(hours[2]) + free(hours[3])), 2 * 173)

calculate_net_pay(gross, allowance, bpjs, tax, thr) ==
    Larger(0, gross + allowance + thr - bpjs - tax)
================================================================================
