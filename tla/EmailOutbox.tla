------------------------------ MODULE EmailOutbox ------------------------------
(***************************************************************************)
(* The email outbox (app/notify.py): handlers commit rows together with    *)
(* what they report; one worker per server process polls the table, locks  *)
(* a batch with SKIP LOCKED, hands every row to the SMTP server and        *)
(* records all the outcomes in one commit at the end of the batch.         *)
(*                                                                         *)
(* Between a send and that commit the process may die, and the server may  *)
(* accept a message whose acknowledgement is lost.                         *)
(***************************************************************************)
EXTENDS Naturals, FiniteSets

CONSTANTS
    NoRow,         \* what is in the place of a row that is not there
    Process,       \* server processes, each with its outbox worker
    Mail,          \* ids of outbox rows, in the order of created_at, id
    Limit,         \* rows of one batch (20)
    MaxAttempts,   \* attempts before a row is given up (5)
    MaxRollbacks   \* bound: batches that are lost

ASSUME MailAssumption == Mail \subseteq Nat
ASSUME LimitAssumption == Limit \in Nat \ {0} /\ MaxAttempts \in Nat \ {0}
ASSUME RollbackAssumption == MaxRollbacks \in Nat

Row == [status : {"pending", "sent", "failed"}, attempts : 0 .. MaxAttempts]

ASSUME NoRowAssumption == NoRow \notin Row

VARIABLES
    outbox,        \* [Mail -> the committed row, NoRow before it is queued]
    batch,         \* [Process -> rows it has locked]
    todo,          \* [Process -> rows of its batch it has not tried yet]
    session,       \* [Process -> the rows of its batch as its session has them]
    accepted,      \* [Mail -> times the SMTP server accepted it]
    doubt,         \* [Mail -> acceptances the table was never told of]
    rollbacks      \* batches lost so far

outboxVars == <<outbox, batch, todo, session, accepted, doubt, rollbacks>>

Closed == [m \in Mail |-> NoRow]

OutboxInit ==
    /\ outbox = [m \in Mail |-> NoRow]
    /\ batch = [w \in Process |-> {}]
    /\ todo = [w \in Process |-> {}]
    /\ session = [w \in Process |-> Closed]
    /\ accepted = [m \in Mail |-> 0]
    /\ doubt = [m \in Mail |-> 0]
    /\ rollbacks = 0

\* push, at the commit of the handler that called it.
Push(m) ==
    /\ outbox[m] = NoRow
    /\ outbox' = [outbox EXCEPT ![m] = [status |-> "pending", attempts |-> 0]]
    /\ UNCHANGED <<batch, todo, session, accepted, doubt, rollbacks>>

\* The WHERE clause.
Due(m) ==
    /\ outbox[m] # NoRow
    /\ outbox[m].status = "pending" /\ outbox[m].attempts < MaxAttempts

LockedRows == UNION {batch[w] : w \in Process}

\* Mutant: rows other workers hold are not skipped.
FirstDue ==
    LET free == {m \in Mail : Due(m)}
    IN  {m \in free : Cardinality({k \in free : k < m}) < Limit}

\* FOR UPDATE SKIP LOCKED LIMIT: the first rows that are due and not locked.
NextBatch ==
    LET free == {m \in Mail : Due(m)} \ LockedRows
    IN  {m \in free : Cardinality({k \in free : k < m}) < Limit}

Fetch(w) ==
    /\ batch[w] = {}
    /\ NextBatch # {}
    /\ batch' = [batch EXCEPT ![w] = NextBatch]
    /\ todo' = [todo EXCEPT ![w] = NextBatch]
    /\ session' = [session EXCEPT ![w] =
                       [m \in Mail |-> IF m \in NextBatch THEN outbox[m] ELSE NoRow]]
    /\ UNCHANGED <<outbox, accepted, doubt, rollbacks>>

\* Mutant: one attempt too late, and the row is not due any more.
GivenUpLate(attempts) ==
    [status |-> IF attempts > MaxAttempts THEN "failed" ELSE "pending", attempts |-> attempts]

\* The row after a delivery that failed, as far as send_email can tell.
Retried(attempts) ==
    [status |-> IF attempts >= MaxAttempts THEN "failed" ELSE "pending",
     attempts |-> attempts]

\* One pass of the loop over rows: attempts += 1, then the outcome of send_email.
Try(w, m, row) ==
    /\ m \in todo[w] /\ \A k \in todo[w] : m <= k
    /\ todo' = [todo EXCEPT ![w] = @ \ {m}]
    /\ session' = [session EXCEPT ![w][m] = row]
    /\ UNCHANGED <<outbox, batch, rollbacks>>

Attempts(w, m) == session[w][m].attempts + 1

Delivered(w) ==
    \E m \in todo[w] :
        /\ Try(w, m, [status |-> "sent", attempts |-> Attempts(w, m)])
        /\ accepted' = [accepted EXCEPT ![m] = @ + 1]
        /\ UNCHANGED doubt

\* The server refuses the message or cannot be reached.
Refused(w) ==
    \E m \in todo[w] :
        /\ Try(w, m, Retried(Attempts(w, m)))
        /\ UNCHANGED <<accepted, doubt>>

\* The server accepts the message, and the answer to DATA or QUIT is lost.
Unconfirmed(w) ==
    \E m \in todo[w] :
        /\ Try(w, m, Retried(Attempts(w, m)))
        /\ accepted' = [accepted EXCEPT ![m] = @ + 1]
        /\ doubt' = [doubt EXCEPT ![m] = @ + 1]

Send(w) == Delivered(w) \/ Refused(w) \/ Unconfirmed(w)

\* The commit at the end of the batch; the locks go with it.
CommitBatch(w) ==
    /\ batch[w] # {} /\ todo[w] = {}
    /\ outbox' = [m \in Mail |-> IF m \in batch[w] THEN session[w][m] ELSE outbox[m]]
    /\ batch' = [batch EXCEPT ![w] = {}]
    /\ session' = [session EXCEPT ![w] = Closed]
    /\ UNCHANGED <<todo, accepted, doubt, rollbacks>>

\* The process dies or loses its connection: rows and attempts are as before the
\* batch, the messages that left it are not called back.
Rollback(w) ==
    /\ batch[w] # {} /\ rollbacks < MaxRollbacks
    /\ doubt' = [m \in Mail |->
                    IF m \in batch[w] \ todo[w] /\ session[w][m].status = "sent"
                    THEN doubt[m] + 1 ELSE doubt[m]]
    /\ batch' = [batch EXCEPT ![w] = {}]
    /\ todo' = [todo EXCEPT ![w] = {}]
    /\ session' = [session EXCEPT ![w] = Closed]
    /\ rollbacks' = rollbacks + 1
    /\ UNCHANGED <<outbox, accepted>>

OutboxNext ==
    \/ \E m \in Mail : Push(m)
    \/ \E w \in Process : Fetch(w) \/ Send(w) \/ CommitBatch(w) \/ Rollback(w)

\* run_email_outbox_worker polls for as long as its process runs, and a process that
\* ends is started again; nothing obliges anybody to queue a message.
Fairness ==
    \A w \in Process :
        WF_outboxVars(Fetch(w)) /\ WF_outboxVars(Send(w)) /\ WF_outboxVars(CommitBatch(w))

OutboxSpec == OutboxInit /\ [][OutboxNext]_outboxVars /\ Fairness
---------------------------------------------------------------------------
\* The type invariant: in particular no row is ever tried more than MaxAttempts times.
OutboxTypeOK ==
    /\ outbox \in [Mail -> Row \cup {NoRow}]
    /\ batch \in [Process -> SUBSET Mail] /\ todo \in [Process -> SUBSET Mail]
    /\ session \in [Process -> [Mail -> Row \cup {NoRow}]]
    /\ accepted \in [Mail -> Nat] /\ doubt \in [Mail -> Nat]
    /\ rollbacks \in 0 .. MaxRollbacks

\* A message goes out twice only if an acknowledgement or a commit was lost: workers
\* that poll the same table never send the same row (with_for_update(skip_locked)).
NoNeedlessDuplicate == \A m \in Mail : accepted[m] <= 1 + doubt[m]

\* What the table says of a message is true: one not queued yet never left, one marked
\* sent reached the server, and one marked failed was tried MaxAttempts times without
\* an acceptance anybody was told of.
OutcomeTrue ==
    \A m \in Mail :
        /\ outbox[m] = NoRow => accepted[m] = 0
        /\ outbox[m] # NoRow =>
               /\ outbox[m].status = "sent" => accepted[m] >= 1
               /\ outbox[m].status = "failed" =>
                      outbox[m].attempts = MaxAttempts /\ accepted[m] = doubt[m]

\* The table and the mail that left agree, types included: no needless duplicate, and
\* no row that says of its message what did not happen.
DeliveriesAgree == OutboxTypeOK /\ NoNeedlessDuplicate /\ OutcomeTrue

\* Every committed row is settled: no queued message waits for ever behind others, at
\* its last attempt, or in a batch that was lost.
EventuallySettled ==
    \A m \in Mail : outbox[m] # NoRow ~> outbox[m] # NoRow /\ outbox[m].status # "pending"
================================================================================
