--------------------------- MODULE OperationalRecords ---------------------------
(***************************************************************************)
(* An operational record (app/routers/operations.py) with the rows of a    *)
(* Client Purchase Order and its attached files.  app/operational_modules  *)
(* holds the one state machine of all modules.  No handler locks a row;    *)
(* the files lie on disk, outside any transaction.                         *)
(***************************************************************************)
EXTENDS Legal, Sequences, SequencesExt

CONSTANTS
    approver_roles,  \* of the record's module
    Amount,
    LineSequence,    \* sequence numbers of lines
    File,            \* names of stored files
    MaxHistory       \* bound: entries of workflow_history

ASSUME OperationsAssumption ==
    /\ approver_roles # {}
    /\ Amount \subseteq Nat \ {0}
    /\ NULL \notin File

VARIABLES
    record,        \* the row, or NULL
    lines,         \* [LineSequence -> line_total, or NULL]
    attachment,    \* files that operational_attachments names
    disk,          \* files in the upload directory
    created,       \* the record has been created; its id does not come again
    orphaned,      \* auxiliary: files that lost their row, or never got one
    overlapped     \* auxiliary: two handlers that change the record overlapped

recordVars == <<record, lines, attachment, disk, created, orphaned, overlapped>>

STATUS_TRANSITIONS ==
    [draft |-> [submit |-> "submitted", cancel |-> "cancelled"],
     submitted |-> [review |-> "in_review", approve |-> "approved", reject |-> "rejected",
                    cancel |-> "cancelled"],
     in_review |-> [approve |-> "approved", reject |-> "rejected", cancel |-> "cancelled"],
     approved |-> [activate |-> "active", complete |-> "completed", close |-> "closed"],
     active |-> [complete |-> "completed", close |-> "closed"],
     rejected |-> [reopen |-> "draft", cancel |-> "cancelled"],
     completed |-> [close |-> "closed", reopen |-> "active"],
     cancelled |-> [reopen |-> "draft"],
     closed |-> <<>>]

EDITABLE_STATUSES == {"draft", "rejected"}
DELETABLE_STATUSES == {"draft", "rejected", "cancelled"}
APPROVER_ACTIONS == {"review", "approve", "reject", "activate", "complete", "close"}

\* Columns.  amount stands for the locked ones and the details a Client PO derives from it;
\* client_po tells whether the record is of that type.  Columns that are never locked are
\* left out.
OperationalRecord ==
    [client_po : BOOLEAN, amount : Amount, status : DOMAIN STATUS_TRANSITIONS,
     approved_by : User \cup {NULL}, closed : BOOLEAN,
     workflow_history : Seq([action : {"create"} \cup UNION {DOMAIN STATUS_TRANSITIONS[s] :
                                                            s \in DOMAIN STATUS_TRANSITIONS},
                             from : {"none"} \cup DOMAIN STATUS_TRANSITIONS,
                             to : DOMAIN STATUS_TRANSITIONS])]

ASSUME RecordAssumption == NULL \notin OperationalRecord

\* The creator and the owner are left out: one of them, or an approver, is always there.
_approvers == {u \in User : RoleOf[u] \in approver_roles \cup {"SUPER_ADMIN"}}

NoLines == [s \in LineSequence |-> NULL]
Drawn(rows) == {s \in LineSequence : rows[s] # NULL}
LineTotal(rows) == SumFunctionOnSet(rows, Drawn(rows))

\* One rupiah, the unit of Amount.
_MONEY_TOLERANCE == 1
_within_money_tolerance(left, right) ==
    left <= right + _MONEY_TOLERANCE /\ right <= left + _MONEY_TOLERANCE

\* _validate_client_po: the lines, if there are any, add up to the amount.
AddsUp(row, rows) ==
    row.client_po /\ Drawn(rows) # {} => _within_money_tolerance(LineTotal(rows), row.amount)

\* The lines a payload may bring, numbered from one.
Boq ==
    {rows \in [LineSequence -> Amount \cup {NULL}] :
        \A s, t \in LineSequence : t < s /\ rows[t] = NULL => rows[s] = NULL}

HandleRecord(w, op, new, rows, files) ==
    /\ request[w] = Idle
    /\ request' = [request EXCEPT ![w] =
           [op |-> op, read |-> record, new |-> new, readLines |-> lines, newLines |-> rows,
            files |-> files]]
    /\ UNCHANGED <<recordVars, legalVars, audited>>

---------------------------------------------------------------------------
\* create_record.
CreateRecord(rows) ==
    /\ ~ created
    /\ \E client_po \in BOOLEAN, amount \in Amount :
           /\ record' = [client_po |-> client_po, amount |-> amount, status |-> "draft",
                         approved_by |-> NULL, closed |-> FALSE,
                         workflow_history |->
                             <<[action |-> "create", from |-> "none", to |-> "draft"]>>]
           /\ lines' = rows
           /\ ~ client_po => rows = NoLines
           /\ AddsUp(record', rows)
    /\ created' = TRUE
    /\ UNCHANGED <<attachment, disk, orphaned, overlapped, request, audited, legalVars>>

\* Mutant: the lines of a Client PO are not locked.
LockedColumns(new, rows, given) ==
    record.status \notin EDITABLE_STATUSES
        => new.client_po = record.client_po /\ new.amount = record.amount

\* After the submission the locked columns and the lines stay.
Locked(new, rows, given) ==
    record.status \notin EDITABLE_STATUSES
        => /\ new.client_po = record.client_po
           /\ new.amount = record.amount
           /\ ~ given

\* Mutant: an amount without lines is not checked against the lines there are.
CheckedGiven(new, rows, given) == given => AddsUp(new, rows)

\* The lines of the payload are checked, or those of the record.
Checked(new, rows, given) == AddsUp(new, IF given THEN rows ELSE lines)

\* update_record, with new lines or without.  Lines of another type of record go.
UpdateRecord(w) ==
    /\ record # NULL
    /\ audited < MaxAudit
    /\ \E client_po \in BOOLEAN, amount \in Amount, given \in BOOLEAN, rows \in Boq :
           LET new == [record EXCEPT !.client_po = client_po, !.amount = amount]
               kept == IF given THEN rows ELSE lines
           IN  /\ Locked(new, rows, given)
               /\ given => client_po
               /\ ~ given => rows = NoLines
               /\ Checked(new, rows, given)
               /\ HandleRecord(w, "update_record", new, IF client_po THEN kept ELSE NoLines, {})

\* Mutant: the entry is made after the status is set.
EntryAfter(action, to) == [action |-> action, from |-> to, to |-> to]

\* The entry of workflow_history.
Entry(action, to) == [action |-> action, from |-> record.status, to |-> to]

\* transition_record.  next_status knows the actions of every status; a Client PO needs
\* its lines to be submitted.
TransitionRecord(w) ==
    /\ record # NULL
    /\ Len(record.workflow_history) < MaxHistory
    /\ \E action \in DOMAIN STATUS_TRANSITIONS[record.status] :
           LET to == STATUS_TRANSITIONS[record.status][action]
               moved == [record EXCEPT !.status = to,
                                       !.workflow_history = Append(@, Entry(action, to)),
                                       !.closed = to = "closed"]
           IN  /\ action \in APPROVER_ACTIONS => _approvers # {}
               /\ action = "submit" /\ record.client_po
                  => Drawn(lines) # {} /\ AddsUp(record, lines)
               /\ \/ /\ action # "approve"
                     /\ HandleRecord(w, "transition_record", moved, lines, {})
                  \/ /\ action = "approve"
                     /\ \E actor \in _approvers :
                            HandleRecord(w, "transition_record",
                                [moved EXCEPT !.approved_by = actor], lines, {})

\* delete_record: the paths of the files are loaded with the record.
DeleteRecord(w) ==
    /\ record # NULL
    /\ record.status \in DELETABLE_STATUSES
    /\ HandleRecord(w, "delete_record", NULL, NoLines, attachment)

\* The lines after a replacement; two rows may not have one sequence number.  A line
\* another session replaced by its like counts as the line itself.
Collides(req) ==
    /\ req.newLines # req.readLines
    /\ \E s \in Drawn(req.newLines) : lines[s] \notin {NULL, req.readLines[s]}
Replaced(req) ==
    IF req.newLines = req.readLines THEN lines
    ELSE [s \in LineSequence |->
             IF req.newLines[s] # NULL \/ lines[s] = req.readLines[s] THEN req.newLines[s]
             ELSE lines[s]]

\* The commit of a change of the record; the files of a deleted one are unlinked after it.
CommitRecord(w) ==
    LET req == request[w]
        deleted == req.op = "delete_record"
    IN  /\ req.op \in {"update_record", "transition_record", "delete_record"}
        /\ ~ Misses(record, req.read, req.new)
        /\ ~ deleted => ~ Collides(req) /\ (record = NULL => req.newLines = req.readLines)
        /\ record' = Written(record, req.read, req.new)
        /\ lines' = IF deleted THEN NoLines ELSE Replaced(req)
        /\ attachment' = IF deleted THEN {} ELSE attachment
        /\ orphaned' = IF deleted THEN orphaned \cup (attachment \ req.files) ELSE orphaned
        /\ overlapped' = (overlapped \/ record # req.read \/ lines # req.readLines)
        /\ request' = IF deleted THEN [request EXCEPT ![w].op = "unlink"] ELSE Finished(w)
        /\ IF req.op = "update_record" THEN WriteAudit ELSE UNCHANGED audited
        /\ UNCHANGED <<disk, created, legalVars>>

---------------------------------------------------------------------------
\* Attached files.

InHand(ops) == UNION {request[w].files : w \in {v \in Worker : request[v].op \in ops}}

FileOps == {"upload", "stored", "delete_attachment", "unlink", "delete_record"}

\* upload_operational_attachment checks the record and awaits the content.
Upload(w) ==
    /\ record # NULL
    /\ record.client_po
    /\ record.status \in EDITABLE_STATUSES
    /\ \E f \in File \ (disk \cup attachment \cup InHand(FileOps)) :
           HandleRecord(w, "upload", record, lines, {f})

StoreFile(w) ==
    /\ request[w].op = "upload"
    /\ disk' = disk \cup request[w].files
    /\ request' = [request EXCEPT ![w].op = "stored"]
    /\ UNCHANGED <<record, lines, attachment, created, orphaned, overlapped, audited, legalVars>>

\* Mutant: the row is inserted before the file is written.
AttachableEarly(op) == op \in {"upload", "stored"}

Attachable(op) == op = "stored"

\* The row refers to the record, which must still be there.
CommitAttachment(w) ==
    /\ Attachable(request[w].op)
    /\ record # NULL
    /\ attachment' = attachment \cup request[w].files
    /\ request' = Finished(w)
    /\ UNCHANGED <<record, lines, disk, created, orphaned, overlapped, audited, legalVars>>

\* delete_operational_attachment.
DeleteAttachment(w) ==
    /\ record # NULL
    /\ record.status \in EDITABLE_STATUSES
    /\ \E f \in attachment : HandleRecord(w, "delete_attachment", record, lines, {f})

CommitRemoval(w) ==
    /\ request[w].op = "delete_attachment"
    /\ attachment' = attachment \ request[w].files
    /\ request' = [request EXCEPT ![w].op = "unlink"]
    /\ UNCHANGED <<record, lines, disk, created, orphaned, overlapped, audited, legalVars>>

\* The files go after the commit of their rows' deletion, or after an upload's commit
\* failed.
Unlink(w) ==
    /\ request[w].op \in {"stored", "unlink"}
    /\ disk' = disk \ request[w].files
    /\ request' = Finished(w)
    /\ UNCHANGED <<record, lines, attachment, created, orphaned, overlapped, audited, legalVars>>

\* A handler ends with an exception, or its process with it: its transaction is rolled
\* back, its files stay.
Rollback(w) ==
    /\ request[w] # Idle
    /\ orphaned' = IF request[w].op \in {"stored", "unlink"}
                   THEN orphaned \cup request[w].files ELSE orphaned
    /\ request' = Finished(w)
    /\ UNCHANGED <<record, lines, attachment, disk, created, overlapped, audited, legalVars>>

RecordInit ==
    /\ record = NULL
    /\ lines = NoLines
    /\ attachment = {}
    /\ disk = {}
    /\ created = FALSE
    /\ orphaned = {}
    /\ overlapped = FALSE

\* Requests about the record, and requests about the files of one that is
\* ready for submission.
RecordNext ==
    \/ \E rows \in Boq : CreateRecord(rows)
    \/ \E w \in Worker : \/ UpdateRecord(w) \/ TransitionRecord(w) \/ DeleteRecord(w)
                         \/ CommitRecord(w) \/ Unlink(w)
FileNext ==
    \/ \E rows \in Boq : Drawn(rows) = LineSequence /\ CreateRecord(rows)
    \/ \E w \in Worker : \/ TransitionRecord(w) \/ DeleteRecord(w) \/ CommitRecord(w)
                         \/ Upload(w) \/ StoreFile(w) \/ CommitAttachment(w)
                         \/ DeleteAttachment(w) \/ CommitRemoval(w) \/ Unlink(w)

---------------------------------------------------------------------------
RecordTypeOK ==
    /\ record = NULL \/ record \in OperationalRecord
    /\ lines \in [LineSequence -> Amount \cup {NULL}]
    /\ attachment \cup disk \subseteq File

\* The history begins with the creation, every entry starts where the one before it ended
\* and follows the state machine, and the last one ends in the record's status: also when
\* transitions overlap, for a transition writes the status and the whole history.
HistoryExplainsStatus ==
    /\ RecordTypeOK
    /\ record # NULL =>
           LET history == record.workflow_history
           IN  /\ history[1].action = "create"
               /\ Last(history).to = record.status
               /\ \A i \in 2..Len(history) :
                      LET h == history[i]
                      IN  /\ h.from = history[i - 1].to
                          /\ h.action \in DOMAIN STATUS_TRANSITIONS[h.from]
                          /\ h.to = STATUS_TRANSITIONS[h.from][h.action]

\* A Client PO that was submitted has lines, and they add up to its amount or come within
\* one rupiah of it, unless two changes of it overlapped (_validate_client_po checks what
\* the handler loaded).
ClientPOAddsUp ==
    /\ record # NULL
    /\ record.client_po
    /\ ~ overlapped
    => /\ AddsUp(record, lines)
       /\ record.status \notin EDITABLE_STATUSES \cup {"cancelled"} => Drawn(lines) # {}

\* The locked columns, the lines and the files of a record change while it is draft or
\* rejected; later only by a handler that loaded it so, and a cancelled record may be
\* deleted.  Lines that two overlapping edits left with a record that is no Client PO
\* any more go with its next update, whatever its status.
SubmittedRecordKept ==
    [][/\ record # NULL
       /\ record.status \notin EDITABLE_STATUSES
       /\ \/ <<lines, attachment>>' # <<lines, attachment>>
          \/ record' = NULL
          \/ record'.amount # record.amount
          \/ record'.client_po # record.client_po
       => \E w \in Worker :
              /\ request'[w] # request[w]
              /\ request[w] # Idle
              /\ \/ request[w].read.status \in EDITABLE_STATUSES
                 \/ /\ request[w].op = "delete_record"
                    /\ request[w].read.status \in DELETABLE_STATUSES
                 \/ /\ request[w].op = "update_record"
                    /\ ~ request[w].read.client_po
                    /\ <<record, attachment>>' = <<record, attachment>>]_<<recordVars, request>>

\* Every attachment has its file, whatever crashes, and a file without an attachment is in
\* the hands of a handler, or was left by one that did not end, or by a deletion of the
\* record that overlapped its upload.
FilesAttached ==
    /\ attachment \subseteq disk
    /\ disk \ attachment \subseteq orphaned \cup InHand({"stored", "unlink"})
================================================================================
