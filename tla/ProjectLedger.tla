----------------------------- MODULE ProjectLedger -----------------------------
(***************************************************************************)
(* Projects, the receivables that set their revenue ceiling and the stock  *)
(* issued to them (app/routers/projects.py, receivables.py, inventory.py). *)
(* Handlers that change or delete loaded rows are split into the load with *)
(* its checks and the commit; another session may commit in between.       *)
(***************************************************************************)
EXTENDS Receivables, Inventory, FiniteSets

CONSTANTS
    Receivable,    \* ids of account_receivables
    Item,          \* ids of inventory_items
    ReferringTable,\* the other tables with a foreign key to projects
    MaxAudit, MaxStock   \* bounds: audit records written, quantity on hand

ASSUME ReferringAssumption ==
    ReferringTable \subseteq {"project_documents", "expenses", "petty_cash_reports",
                             "legal_documents", "operational_records"}

VARIABLES
    project,       \* [ProjectCode -> row or NULL]
    receivable,    \* [Receivable -> row or NULL]
    item,          \* [Item -> row or NULL]
    movements,     \* [Item -> the committed movements, oldest first]
    references,    \* <<table, project>>: project_id values of the other tables
    request,       \* [Worker -> the handler it runs]
    created,       \* receivable ids handed out so far
    deleted,       \* projects that are gone; their ids are never handed out again
    overlapped,    \* auxiliary: rows some commit changed after another session loaded them
    audited        \* number of audit records

tables ==
    <<project, receivable, item, movements, references, created, deleted, overlapped, audited>>
vars == <<tables, request>>

Init ==
    /\ project = [p \in ProjectCode |-> NULL]
    /\ receivable = [r \in Receivable |-> NULL]
    /\ item = [i \in Item |-> NULL]
    /\ movements = [i \in Item |-> <<>>]
    /\ references = {}
    /\ request = [w \in Worker |-> Idle]
    /\ created = {}
    /\ deleted = {}
    /\ overlapped = {}
    /\ audited = 0

WriteAudit(n) == audited' = audited + n /\ audited + n <= MaxAudit

---------------------------------------------------------------------------
\* Projects: creation, edit and import, each handler in one step.

\* The unique constraint on the code decides between concurrent insertions.
CreateProject(p) ==
    /\ Staff(ProjectRoles) # {}
    /\ project[p] = NULL /\ p \notin deleted
    /\ \E row \in Project : project' = [project EXCEPT ![p] = row]
    /\ WriteAudit(1)
    /\ UNCHANGED <<receivable, item, movements, references, request, created, deleted, overlapped>>

UpdateProject(p) ==
    /\ Staff(ProjectRoles) # {}
    /\ project[p] # NULL
    /\ \E row \in Project : project' = [project EXCEPT ![p] = row]
    /\ WriteAudit(1)
    /\ UNCHANGED <<receivable, item, movements, references, request, created, deleted, overlapped>>

\* Codes in use are skipped; a row the database refuses spoils the session, and
\* nothing of the file is committed.
ImportProjects(codes) ==
    LET new == {p \in codes \ deleted : project[p] = NULL}
    IN  /\ Staff(ProjectRoles) # {}
        /\ new # {}
        /\ \E rows \in [new -> {row \in Project : ~ row.is_archived}] :
               project' = [p \in ProjectCode |-> IF p \in new THEN rows[p] ELSE project[p]]
        /\ WriteAudit(Cardinality(new))
        /\ UNCHANGED <<receivable, item, movements, references, request, created, deleted, overlapped>>

\* A handler of another router stores a row that names the project.
Refer(table, p) ==
    /\ project[p] # NULL
    /\ <<table, p>> \notin references
    /\ references' = references \cup {<<table, p>>}
    /\ WriteAudit(1)
    /\ UNCHANGED <<project, receivable, item, movements, request, created, deleted, overlapped>>

---------------------------------------------------------------------------
\* delete_project: load and check, then delete what was loaded.

\* Every invoice of the archived project goes with it, whatever its status; documents
\* and petty cash reports are loaded too.
DeleteProject(w) ==
    /\ request[w] = Idle
    /\ Staff({"SUPER_ADMIN", "MD"}) # {}
    /\ \E p \in ProjectCode :
           /\ project[p] # NULL /\ project[p].is_archived
           /\ request' = [request EXCEPT ![w] =
                  [op |-> "delete_project", project |-> p,
                   invoices |-> {r \in Receivable : receivable[r] # NULL /\ receivable[r].project = p},
                   rows |-> {ref \in references : ref[2] = p
                                /\ ref[1] \in {"project_documents", "petty_cash_reports"}}]]
    /\ UNCHANGED tables


\* The UPDATE of inventory_txns sets project_id to NULL.
Unlinked(txns, p) ==
    [k \in DOMAIN txns |-> IF txns[k].project = p THEN [txns[k] EXCEPT !.project = NULL]
                           ELSE txns[k]]

\* Expenses go, or lose their project when they were stored after the load (SQLAlchemy
\* nullifies what Project.expenses still holds); legal documents lose it by an UPDATE.
\* Nothing touches operational_records.
Cleared(req) ==
    {ref \in references : ref[2] = req.project
        /\ (ref[1] \in {"expenses", "legal_documents"} \/ ref \in req.rows)}

\* The loaded invoices are deleted by their ids and is_archived is not looked at again.  A
\* row that still names the project makes PostgreSQL refuse the deletion.
CommitDeletion(w) ==
    LET req == request[w]
    IN  /\ req.op = "delete_project"
        /\ receivable' = [r \in Receivable |-> IF r \in req.invoices THEN NULL ELSE receivable[r]]
        /\ movements' = [i \in Item |-> Unlinked(movements[i], req.project)]
        /\ references' = references \ Cleared(req)
        /\ \A r \in Receivable : receivable'[r] # NULL => receivable'[r].project # req.project
        /\ \A i \in Item : \A k \in DOMAIN movements'[i] : movements'[i][k].project # req.project
        /\ \A ref \in references' : ref[2] # req.project
        /\ project' = [project EXCEPT ![req.project] = NULL]
        /\ deleted' = deleted \cup {req.project}
        /\ WriteAudit(1)
        /\ request' = [request EXCEPT ![w] = Idle]
        /\ UNCHANGED <<item, created, overlapped>>

---------------------------------------------------------------------------
\* Receivables and stock: load and check, then commit.

\* NULL stands for the row an insertion did not load and a deletion leaves.
Handle(w, op, id, read, new, txn) ==
    /\ request[w] = Idle
    /\ request' = [request EXCEPT ![w] =
           [op |-> op, id |-> id, read |-> read, new |-> new, txn |-> txn]]
    /\ UNCHANGED tables

CreateReceivable(w) ==
    /\ Staff(CreateRoles) # {}
    /\ \E r \in Receivable \ created, p \in ProjectCode,
          amount \in Invoiced, payment \in Payments \cup {NULL} :
           /\ \A other \in Worker : request[other].op = "insert" => request[other].id # r
           /\ Accepts(project[p])
           /\ PaidAmount(payment) <= amount
           /\ Handle(w, "insert", r, NULL, Invoice(p, amount, payment), NULL)

UpdateReceivable(w) ==
    /\ Staff(CreateRoles) # {}
    /\ \E r \in Receivable :
           /\ receivable[r] # NULL
           /\ \E p \in ProjectCode, amount \in Invoiced, payment \in Payments \cup {NULL} :
                  /\ p # receivable[r].project => Accepts(project[p])
                  /\ MayEdit(receivable[r], p, amount, payment)
                  /\ Handle(w, "update", r, receivable[r],
                            Edited(receivable[r], p, amount, payment), NULL)

ConfirmReceivable(w) ==
    \E r \in Receivable, actor \in Staff(ConfirmRoles) :
        /\ receivable[r] # NULL
        /\ receivable[r].status = "draft"
        /\ Handle(w, "update", r, receivable[r], Confirmed(receivable[r], actor), NULL)

DeleteReceivable(w) ==
    /\ Staff(ConfirmRoles) # {}
    /\ \E r \in Receivable :
           /\ receivable[r] # NULL
           /\ receivable[r].status = "draft"
           /\ Handle(w, "delete", r, receivable[r], NULL, NULL)

RecordTransaction(w) ==
    /\ Staff(WriteRoles) # {}
    /\ \E i \in Item, kind \in {"in", "out", "adjustment"}, quantity \in Quantities,
          p \in ProjectCode \cup {NULL} :
           LET txn == [txn_type |-> kind, quantity |-> quantity, project |-> p]
           IN  /\ item[i] # NULL
               /\ p # NULL => Accepts(project[p])
               /\ MayMove(item[i], txn)
               /\ Apply(item[i].qty_on_hand, txn) <= MaxStock
               /\ Handle(w, "move", i, item[i],
                         [item[i] EXCEPT !.qty_on_hand = Apply(@, txn)], txn)

\* update_item with is_active, and delete_item; the other columns matter to nobody.
UpdateItem(w) ==
    /\ Staff(WriteRoles) # {}
    /\ \E i \in Item, is_active \in BOOLEAN :
           /\ item[i] # NULL
           /\ is_active \/ MayDeactivate(item[i])
           /\ Handle(w, "activate", i, item[i], [item[i] EXCEPT !.is_active = is_active], NULL)

CreateItem(i) ==
    /\ Staff(WriteRoles) # {}
    /\ item[i] = NULL
    /\ \E quantity \in Quantities \cup {0} :
           /\ quantity <= MaxStock
           /\ item' = [item EXCEPT ![i] = [qty_on_hand |-> quantity, is_active |-> TRUE]]
           /\ movements' = [movements EXCEPT ![i] =
                  <<[txn_type |-> "opening", quantity |-> quantity, project |-> NULL]>>]
    /\ WriteAudit(1)
    /\ UNCHANGED <<project, receivable, references, request, created, deleted, overlapped>>

Overlap(current, read, id) ==
    overlapped' = IF current # read THEN overlapped \cup {id} ELSE overlapped

\* project_id is a foreign key: the INSERT or UPDATE needs the project still there.
CommitReceivable(w) ==
    LET req == request[w]
        current == receivable[req.id]
    IN  /\ req.op \in {"insert", "update", "delete"}
        /\ ~ Misses(current, req.read, req.new)
        /\ receivable' = [receivable EXCEPT ![req.id] = Written(current, req.read, req.new)]
        /\ receivable'[req.id] # NULL => project[receivable'[req.id].project] # NULL
        /\ created' = created \cup {req.id}
        /\ Overlap(current, req.read, req.id)
        /\ WriteAudit(1)
        /\ request' = [request EXCEPT ![w] = Idle]
        /\ UNCHANGED <<project, item, movements, references, deleted>>

CommitItem(w) ==
    LET req == request[w]
    IN  /\ req.op \in {"move", "activate"}
        /\ item' = [item EXCEPT ![req.id] = Merged(@, req.read, req.new)]
        /\ \/ /\ req.op = "move"
              /\ req.txn.project # NULL => project[req.txn.project] # NULL
              /\ movements' = [movements EXCEPT ![req.id] = Append(@, req.txn)]
           \/ req.op = "activate" /\ UNCHANGED movements
        /\ Overlap(item[req.id], req.read, req.id)
        /\ WriteAudit(1)
        /\ request' = [request EXCEPT ![w] = Idle]
        /\ UNCHANGED <<project, receivable, references, created, deleted>>

\* A refused commit, a lost connection, a crash of the process: nothing is written.
Rollback(w) ==
    /\ request[w] # Idle
    /\ request' = [request EXCEPT ![w] = Idle]
    /\ UNCHANGED tables

Next ==
    \/ \E p \in ProjectCode :
           \/ CreateProject(p) \/ UpdateProject(p)
           \/ \E table \in ReferringTable : Refer(table, p)
    \/ \E codes \in SUBSET ProjectCode : ImportProjects(codes)
    \/ \E i \in Item : CreateItem(i)
    \/ \E w \in Worker :
           \/ CreateReceivable(w) \/ UpdateReceivable(w) \/ ConfirmReceivable(w)
           \/ DeleteReceivable(w) \/ RecordTransaction(w) \/ UpdateItem(w)
           \/ DeleteProject(w) \/ CommitDeletion(w)
           \/ CommitReceivable(w) \/ CommitItem(w) \/ Rollback(w)

Spec == Init /\ [][Next]_vars

---------------------------------------------------------------------------
\* The tables hold rows of their types.
TypeOK ==
    /\ \A p \in ProjectCode : project[p] = NULL \/ project[p] \in Project
    /\ \A r \in Receivable : receivable[r] = NULL \/ receivable[r] \in AccountReceivable
    /\ \A i \in Item : /\ item[i] = NULL \/ item[i] \in InventoryItem
                       /\ \A k \in DOMAIN movements[i] : movements[i][k] \in InventoryTxn
    /\ references \subseteq ReferringTable \X ProjectCode

\* Once revenue is recognised, the amount and the project of the receivable stay: only an
\* edit or a deletion that loaded it as a draft, and the deletion of a project that loaded
\* it as an invoice of its own, archived, project take it out of the ceiling
\* (update_receivable, delete_receivable, delete_project).
CeilingFrozen ==
    [][\A r \in Receivable :
          LET now == receivable[r]
              next == receivable'[r]
          IN  now # NULL /\ now.status = "confirmed"
              /\ (next = NULL \/ next.project # now.project \/ next.amount # now.amount
                  \/ next.status # "confirmed")
              => \E w \in Worker :
                     /\ request'[w] = Idle
                     /\ \/ /\ request[w].op = "delete_project"
                           /\ r \in request[w].invoices
                        \/ /\ request[w].op \in {"update", "delete"}
                           /\ request[w].id = r
                           /\ request[w].read.status = "draft"]_vars

\* Rows have their types and, unless two sessions wrote the same invoice at once, the
\* summary's outstanding total is what was invoiced less what was paid (no payment exceeds
\* its invoice), the stored remainder is what the list shows, and a confirmed row says who
\* confirmed it.
PaymentsAddUp ==
    LET sound == {r \in Receivable \ overlapped : receivable[r] # NULL}
        summary == receivables_summary([r \in sound |-> receivable[r]])
    IN  /\ TypeOK
        /\ summary.total_outstanding = summary.total_invoiced - summary.total_paid
        /\ \A r \in sound :
               /\ receivable[r].remaining_amount = Outstanding(receivable[r])
               /\ receivable[r].confirmed_by # NULL <=> receivable[r].status = "confirmed"

\* What the recorded movements add up to since the last count.
Recorded(txns) ==
    LET counts == {k \in DOMAIN txns : txns[k].txn_type \in {"opening", "adjustment"}}
        last == CHOOSE k \in counts : \A other \in counts : other <= k
        Total[k \in 0..Len(txns)] ==
            IF k <= last THEN txns[last].quantity
            ELSE IF txns[k].txn_type = "in" THEN Total[k - 1] + txns[k].quantity
            ELSE Total[k - 1] - txns[k].quantity
    IN  Total[Len(txns)]

\* Unless two sessions wrote the item at once, the stock on hand is what its
\* movements add up to, and an inactive item has none (_apply_txn, delete_item).
StockMatchesMovements ==
    \A i \in Item \ overlapped :
        item[i] # NULL =>
            /\ item[i].qty_on_hand = Recorded(movements[i])
            /\ item[i].is_active \/ item[i].qty_on_hand = 0

================================================================================
