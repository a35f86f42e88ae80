---------------------------- MODULE DocumentsProofs ----------------------------
(***************************************************************************)
(* Proofs about Documents, for any letters, types, records, lines, files   *)
(* and workers.                                                            *)
(***************************************************************************)
EXTENDS Documents, FiniteSetTheorems, TLAPS

USE DEF Creations

---------------------------------------------------------------------------
\* The inductive invariant, the part about letters.

LetterOps == Creations \cup {"update_document", "submit_document", "sign_document",
                           "reject_document", "delete_document"}

LetterRequest ==
    [op : LetterOps, document : Document, read : LegalDocument \cup {NULL},
     new : LegalDocument \cup {NULL}]

\* What a handler made of the letter it loaded.
LetterChange(req) ==
    /\ req \in LetterRequest
    /\ req.op \in Creations => req.read = NULL /\ req.new # NULL
    /\ req.op = "create_document" => req.new.doc_number.prefix = req.new.doc_type
    /\ req.op \notin Creations => req.read # NULL
    /\ req.op \in {"update_document", "delete_document"} =>
           req.read.status \in {"draft", "rejected"}
    /\ req.op = "submit_document" => req.read.status = "draft"
    /\ req.op \in {"sign_document", "reject_document"} =>
           /\ req.read.status = "submitted"
           /\ req.new # NULL
           /\ req.new.content = req.read.content
           /\ req.new.doc_number = req.read.doc_number
    /\ req.op = "delete_document" <=> req.new = NULL

\* The letters of a type that carry its prefix.
Counted(type) ==
    {d \in Filed : document[d].doc_type = type /\ document[d].doc_number.prefix = type}

\* While a type is not disturbed, its letters and no others carry its prefix, none of
\* their numbers exceeds how many they are, and a number in hand is at most the next one.
Numbered ==
    \A type \in DocType \ disturbed :
        /\ \A d \in Filed :
               /\ document[d].doc_type = type <=> document[d].doc_number.prefix = type
               /\ document[d].doc_type = type
                  => document[d].doc_number.count <= Cardinality(Counted(type))
        /\ \A w \in Worker :
               request[w].op = "create_document" /\ request[w].new.doc_type = type
               => request[w].new.doc_number.count <= Cardinality(Counted(type)) + 1

---------------------------------------------------------------------------
\* The part about the record.

RecordOps == {"update_record", "transition_record", "delete_record", "upload", "stored",
              "delete_attachment", "unlink"}

Rows == [LineSequence -> Amount \cup {NULL}]

RecordRequest ==
    [op : RecordOps, read : OperationalRecord, new : OperationalRecord \cup {NULL},
     readLines : Rows, newLines : Rows, files : SUBSET File]

\* What HistoryExplainsStatus says of the record, of any row.
Follows(h, before) ==
    /\ h.from = before.to
    /\ h.action \in DOMAIN STATUS_TRANSITIONS[h.from]
    /\ h.to = STATUS_TRANSITIONS[h.from][h.action]

Explained(row) ==
    LET history == row.workflow_history
    IN  /\ Len(history) > 0
        /\ history[1].action = "create"
        /\ history[Len(history)].to = row.status
        /\ \A i \in 2..Len(history) : Follows(history[i], history[i - 1])

\* What a handler made of the record it loaded.
RecordChange(req) ==
    /\ req \in RecordRequest
    /\ Explained(req.read)
    /\ req.op = "update_record" =>
           /\ req.new # NULL
           /\ req.new.status = req.read.status
           /\ req.new.workflow_history = req.read.workflow_history
           /\ req.read.status \notin EDITABLE_STATUSES =>
                  /\ req.new = req.read
                  /\ req.read.client_po => req.newLines = req.readLines
    /\ req.op = "transition_record" =>
           /\ req.new # NULL
           /\ Explained(req.new)
           /\ req.new.client_po = req.read.client_po
           /\ req.new.amount = req.read.amount
           /\ req.new.status # req.read.status
           /\ req.new.workflow_history # req.read.workflow_history
           /\ req.newLines = req.readLines
    /\ req.op = "delete_record" =>
           /\ req.read.status \in DELETABLE_STATUSES
           /\ req.new = NULL
    /\ req.op \in {"upload", "stored", "delete_attachment"} =>
           req.read.status \in EDITABLE_STATUSES

\* What ClientPOAddsUp says of the record, of any row with its lines.
ClientPO(row, rows) ==
    row.client_po =>
        /\ AddsUp(row, rows)
        /\ row.status \notin EDITABLE_STATUSES \cup {"cancelled"} => Drawn(rows) # {}

\* While no changes overlapped, what a handler is about to commit is a sound Client PO.
LinesSound ==
    ~ overlapped =>
        /\ record # NULL => ClientPO(record, lines)
        /\ \A w \in Worker :
               request[w].op \in {"update_record", "transition_record"}
               => ClientPO(request[w].new, request[w].newLines)

\* The file of an upload is in no other hands and has no row; the files to be unlinked
\* have none either.
FilesOf(w) == IF request[w].op \in FileOps THEN request[w].files ELSE {}

FilesApart ==
    \A w \in Worker :
        /\ request[w].op \in {"upload", "stored"} =>
               \A v \in Worker \ {w} : FilesOf(w) \cap FilesOf(v) = {}
        /\ request[w].op \in {"upload", "stored", "unlink"} => FilesOf(w) \cap attachment = {}
        /\ request[w].op = "stored" => FilesOf(w) \subseteq disk

---------------------------------------------------------------------------
TablesTyped ==
    /\ document \in [Document -> LegalDocument \cup {NULL}]
    /\ record \in OperationalRecord \cup {NULL}
    /\ record # NULL => created /\ Explained(record)
    /\ lines \in Rows
    /\ attachment \subseteq File
    /\ disk \subseteq File
    /\ overlapped \in BOOLEAN

RequestsTyped ==
    /\ request \in [Worker -> {Idle} \cup LetterRequest \cup RecordRequest]
    /\ \A w \in Worker : request[w] = Idle \/ LetterChange(request[w]) \/ RecordChange(request[w])

IInv ==
    /\ TablesTyped
    /\ RequestsTyped
    /\ Numbered
    /\ LinesSound
    /\ FilesApart
    /\ FilesAttached

---------------------------------------------------------------------------
\* The state machine of a record.

LEMMA Transitions ==
    ASSUME NEW s \in DOMAIN STATUS_TRANSITIONS, NEW a \in DOMAIN STATUS_TRANSITIONS[s]
    PROVE  LET to == STATUS_TRANSITIONS[s][a]
           IN  /\ to \in DOMAIN STATUS_TRANSITIONS
               /\ to # s
               /\ /\ s \in EDITABLE_STATUSES \cup {"cancelled"}
                  /\ to \notin EDITABLE_STATUSES \cup {"cancelled"}
                  => a = "submit"
<1> DEFINE Status == {"draft", "submitted", "in_review", "approved", "active", "rejected",
                      "completed", "cancelled", "closed"}
           Sound(t) == \A b \in DOMAIN STATUS_TRANSITIONS[t] :
               LET to == STATUS_TRANSITIONS[t][b]
               IN  /\ to \in Status
                   /\ to # t
                   /\ /\ t \in EDITABLE_STATUSES \cup {"cancelled"}
                      /\ to \notin EDITABLE_STATUSES \cup {"cancelled"}
                      => b = "submit"
<1>1. DOMAIN STATUS_TRANSITIONS = Status
  BY DEF STATUS_TRANSITIONS
<1>2. Sound("draft")
  <2>1. STATUS_TRANSITIONS["draft"] = [submit |-> "submitted", cancel |-> "cancelled"]
    BY DEF STATUS_TRANSITIONS
  <2> QED
    BY <2>1 DEF EDITABLE_STATUSES
<1>3. Sound("submitted")
  <2>1. STATUS_TRANSITIONS["submitted"] = [review |-> "in_review", approve |-> "approved",
                                        reject |-> "rejected", cancel |-> "cancelled"]
    BY DEF STATUS_TRANSITIONS
  <2> QED
    BY <2>1 DEF EDITABLE_STATUSES
<1>4. Sound("in_review")
  <2>1. STATUS_TRANSITIONS["in_review"] = [approve |-> "approved", reject |-> "rejected",
                                        cancel |-> "cancelled"]
    BY DEF STATUS_TRANSITIONS
  <2> QED
    BY <2>1 DEF EDITABLE_STATUSES
<1>5. Sound("approved")
  <2>1. STATUS_TRANSITIONS["approved"] = [activate |-> "active", complete |-> "completed",
                                       close |-> "closed"]
    BY DEF STATUS_TRANSITIONS
  <2> QED
    BY <2>1 DEF EDITABLE_STATUSES
<1>6. Sound("active")
  <2>1. STATUS_TRANSITIONS["active"] = [complete |-> "completed", close |-> "closed"]
    BY DEF STATUS_TRANSITIONS
  <2> QED
    BY <2>1 DEF EDITABLE_STATUSES
<1>7. Sound("rejected")
  <2>1. STATUS_TRANSITIONS["rejected"] = [reopen |-> "draft", cancel |-> "cancelled"]
    BY DEF STATUS_TRANSITIONS
  <2> QED
    BY <2>1 DEF EDITABLE_STATUSES
<1>8. Sound("completed")
  <2>1. STATUS_TRANSITIONS["completed"] = [close |-> "closed", reopen |-> "active"]
    BY DEF STATUS_TRANSITIONS
  <2> QED
    BY <2>1 DEF EDITABLE_STATUSES
<1>9. Sound("cancelled")
  <2>1. STATUS_TRANSITIONS["cancelled"] = [reopen |-> "draft"]
    BY DEF STATUS_TRANSITIONS
  <2> QED
    BY <2>1 DEF EDITABLE_STATUSES
<1>10. Sound("closed")
  <2>1. STATUS_TRANSITIONS["closed"] = <<>>
    BY DEF STATUS_TRANSITIONS
  <2> QED
    BY <2>1 DEF EDITABLE_STATUSES
<1>11. Sound(s)
  BY <1>1, <1>2, <1>3, <1>4, <1>5, <1>6, <1>7, <1>8, <1>9, <1>10
<1> QED
  BY <1>1, <1>11

LEMMA LegalStatus ==
    /\ EDITABLE_STATUSES \subseteq DELETABLE_STATUSES
    /\ {"draft", "rejected", "cancelled"} \subseteq DOMAIN STATUS_TRANSITIONS
BY DEF EDITABLE_STATUSES, DELETABLE_STATUSES, STATUS_TRANSITIONS

---------------------------------------------------------------------------
\* Requests.

LEMMA Ops ==
    /\ "idle" \notin LetterOps \cup RecordOps \cup FileOps
    /\ LetterOps \cap RecordOps = {}
    /\ LetterOps \cap FileOps = {}
    /\ FileOps \subseteq RecordOps
BY DEF LetterOps, RecordOps, FileOps

\* Which kind of request a worker runs shows in op.
LEMMA RequestKinds ==
    ASSUME RequestsTyped, NEW w \in Worker
    PROVE  /\ request[w] # Idle =>
                  \/ request[w].op \in LetterOps /\ LetterChange(request[w])
                  \/ request[w].op \in RecordOps /\ RecordChange(request[w])
           /\ request[w].op \in LetterOps => LetterChange(request[w])
           /\ request[w].op \in RecordOps => RecordChange(request[w])
           /\ request[w] = Idle <=> request[w].op = "idle"
           /\ FilesOf(w) \subseteq File
<1>1. request[w].op \in LetterOps => LetterChange(request[w])
  BY Ops DEF RequestsTyped, RecordChange, RecordRequest, Idle
<1>2. request[w].op \in RecordOps => RecordChange(request[w])
  BY Ops DEF RequestsTyped, LetterChange, LetterRequest, Idle
<1>3. request[w] # Idle => request[w].op \in LetterOps \cup RecordOps
  BY DEF RequestsTyped, LetterChange, LetterRequest, RecordChange, RecordRequest
<1>4. FilesOf(w) \subseteq File
  BY <1>2, Ops DEF FilesOf, RecordChange, RecordRequest
<1> QED
  BY <1>1, <1>2, <1>3, <1>4, Ops DEF Idle

\* What a load of a letter leaves in hand, and what a load of the record does.
LetterLoaded(w, req) ==
    /\ request[w] = Idle
    /\ LetterChange(req)
    /\ req.op = "create_document"
       => req.new.doc_number = _next_doc_number(req.new.doc_type)
    /\ request' = [request EXCEPT ![w] = req]
    /\ UNCHANGED <<legalVars, audited>>

RecordLoaded(w, req) ==
    /\ request[w] = Idle
    /\ req.op \in {"update_record", "transition_record", "delete_record", "upload",
                   "delete_attachment"}
    /\ RecordChange(req)
    /\ req.read = record
    /\ ~ overlapped /\ req.op \in {"update_record", "transition_record"}
       => ClientPO(req.new, req.newLines)
    /\ req.op = "upload" => req.files \cap (attachment \cup InHand(FileOps)) = {}
    /\ req.op \in {"delete_record", "delete_attachment"} => req.files \subseteq attachment
    /\ request' = [request EXCEPT ![w] = req]
    /\ UNCHANGED <<recordVars, legalVars, audited>>

LEMMA NextNumber ==
    ASSUME NEW type \in DocType
    PROVE  /\ _next_doc_number(type) \in DocNumber
           /\ _next_doc_number(type).prefix = type
           /\ _next_doc_number(type).count = Cardinality(Counted(type)) + 1
           /\ IsFiniteSet(Counted(type))
           /\ Cardinality(Counted(type)) \in Nat
<1>1. IsFiniteSet(Counted(type))
  BY FS_Subset, LegalAssumption DEF Counted, Filed
<1>2. Cardinality(Counted(type)) \in Nat
  BY <1>1, FS_CardinalityType
<1> QED
  BY <1>1, <1>2 DEF _next_doc_number, Counted, DocNumber

LEMMA LetterLoads ==
    ASSUME IInv, NEW w \in Worker, NEW d \in Document,
           \/ CreateDocument(w, d) \/ CreateNumbered(w, d)
           \/ /\ d \in Filed
              /\ \/ UpdateDocument(w, d) \/ SubmitDocument(w, d) \/ SignDocument(w, d)
                 \/ RejectDocument(w, d) \/ DeleteDocument(w, d)
    PROVE  \E req : LetterLoaded(w, req)
<1> DEFINE Req(op, new) == [op |-> op, document |-> d, read |-> document[d], new |-> new]
<1>0. ASSUME NEW op \in LetterOps, NEW new \in LegalDocument \cup {NULL},
             HandleDocument(w, op, d, new), LetterChange(Req(op, new)),
             op = "create_document" => new.doc_number = _next_doc_number(new.doc_type)
      PROVE  \E req : LetterLoaded(w, req)
  <2>1. LetterLoaded(w, Req(op, new))
    BY <1>0 DEF LetterLoaded, HandleDocument
  <2> QED
    BY <2>1
<1>1. document[d] \in LegalDocument \cup {NULL}
  BY DEF IInv, TablesTyped
<1>2. CASE CreateDocument(w, d)
  <2>1. PICK type \in DocType, content \in Content :
            HandleDocument(w, "create_document", d,
                NewLetter(_next_doc_number(type), type, content))
    BY <1>2 DEF CreateDocument
  <2> DEFINE new == NewLetter(_next_doc_number(type), type, content)
  <2>2. new \in LegalDocument
    BY NextNumber DEF LegalDocument, DocStatus, NewLetter
  <2>3. new.doc_number = _next_doc_number(type) /\ new.doc_type = type
    BY DEF NewLetter
  <2>4. new # NULL
    BY <2>2, LetterAssumption
  <2>5. document[d] = NULL
    BY <1>2 DEF CreateDocument
  <2> HIDE DEF new
  <2>6. LetterChange(Req("create_document", new))
    BY <2>2, <2>3, <2>4, <2>5, NextNumber DEF LetterChange, LetterRequest, LetterOps
  <2> QED
    BY <1>0, <2>1, <2>2, <2>3, <2>6 DEF new, LetterOps
<1>3. CASE CreateNumbered(w, d)
  <2>1. PICK type \in DocType, content \in Content, number \in GivenNumber :
            HandleDocument(w, "create_numbered", d, NewLetter(number, type, content))
    BY <1>3 DEF CreateNumbered
  <2> DEFINE new == NewLetter(number, type, content)
  <2>2. new \in LegalDocument
    <3>1. number \in DocNumber
      BY DEF GivenNumber, DocNumber
    <3> QED
      BY <3>1 DEF LegalDocument, DocStatus, NewLetter
  <2>3. new # NULL
    BY <2>2, LetterAssumption
  <2>4. document[d] = NULL
    BY <1>3 DEF CreateNumbered
  <2> HIDE DEF new
  <2>5. LetterChange(Req("create_numbered", new))
    BY <2>2, <2>3, <2>4 DEF LetterChange, LetterRequest, LetterOps
  <2> QED
    BY <1>0, <2>1, <2>2, <2>5 DEF new, LetterOps
<1>4. CASE d \in Filed
  <2>1. document[d] \in LegalDocument /\ document[d] # NULL
    BY <1>1, <1>4 DEF Filed
  <2>2. CASE UpdateDocument(w, d)
    <3>1. document[d].status \in {"draft", "rejected"}
      BY <2>2 DEF UpdateDocument, Editable
    <3>2. PICK new : /\ new \in LegalDocument
                     /\ HandleDocument(w, "update_document", d, new)
      <4>1. PICK type \in DocType, content \in Content, number \in GivenNumber :
                \/ HandleDocument(w, "update_document", d,
                       [document[d] EXCEPT !.doc_type = type, !.content = content,
                                           !.status = "draft"])
                \/ HandleDocument(w, "update_document", d,
                       [document[d] EXCEPT !.doc_number = number, !.status = "draft"])
        BY <2>2 DEF UpdateDocument
      <4>2. number \in DocNumber
        BY DEF GivenNumber, DocNumber
      <4> QED
        BY <2>1, <4>1, <4>2 DEF LegalDocument, DocStatus
    <3>3. LetterChange(Req("update_document", new))
      BY <2>1, <3>1, <3>2, LetterAssumption DEF LetterChange, LetterRequest, LetterOps
    <3> QED
      BY <1>0, <3>2, <3>3 DEF LetterOps
  <2>3. CASE SubmitDocument(w, d)
    <3> DEFINE new == [document[d] EXCEPT !.status = "submitted"]
    <3>1. new \in LegalDocument /\ new # NULL
      BY <2>1, LetterAssumption DEF LegalDocument, DocStatus
    <3> HIDE DEF new
    <3>2. LetterChange(Req("submit_document", new))
      BY <2>1, <2>3, <3>1 DEF LetterChange, LetterRequest, LetterOps, SubmitDocument
    <3> QED
      BY <1>0, <2>3, <3>1, <3>2 DEF LetterOps, SubmitDocument, new
  <2>4. CASE SignDocument(w, d)
    <3>1. PICK actor \in Staff(_SIGN_ROLES) :
              HandleDocument(w, "sign_document", d,
                  [document[d] EXCEPT !.status = "signed", !.signed_by = actor])
      BY <2>4 DEF SignDocument
    <3> DEFINE new == [document[d] EXCEPT !.status = "signed", !.signed_by = actor]
    <3>2. /\ new \in LegalDocument
          /\ new # NULL
          /\ new.content = document[d].content
          /\ new.doc_number = document[d].doc_number
      BY <2>1, LetterAssumption DEF LegalDocument, DocStatus, Staff
    <3> HIDE DEF new
    <3>3. LetterChange(Req("sign_document", new))
      BY <2>1, <2>4, <3>2 DEF LetterChange, LetterRequest, LetterOps, SignDocument
    <3> QED
      BY <1>0, <3>1, <3>2, <3>3 DEF LetterOps, new
  <2>5. CASE RejectDocument(w, d)
    <3> DEFINE new == [document[d] EXCEPT !.status = "rejected"]
    <3>1. /\ new \in LegalDocument
          /\ new # NULL
          /\ new.content = document[d].content
          /\ new.doc_number = document[d].doc_number
      BY <2>1, LetterAssumption DEF LegalDocument, DocStatus
    <3> HIDE DEF new
    <3>2. LetterChange(Req("reject_document", new))
      BY <2>1, <2>5, <3>1 DEF LetterChange, LetterRequest, LetterOps, RejectDocument
    <3> QED
      BY <1>0, <2>5, <3>1, <3>2 DEF LetterOps, RejectDocument, new
  <2>6. CASE DeleteDocument(w, d)
    <3>1. LetterChange(Req("delete_document", NULL))
      BY <2>1, <2>6 DEF LetterChange, LetterRequest, LetterOps, DeleteDocument, Editable
    <3> QED
      BY <1>0, <2>6, <3>1 DEF LetterOps, DeleteDocument
  <2> QED
    BY <1>2, <1>3, <2>2, <2>3, <2>4, <2>5, <2>6
<1> QED
  BY <1>2, <1>3, <1>4

---------------------------------------------------------------------------
\* The loads of the record.

LEMMA RecordLoads ==
    ASSUME IInv, NEW w \in Worker,
           \/ UpdateRecord(w) \/ TransitionRecord(w) \/ DeleteRecord(w)
           \/ Upload(w) \/ DeleteAttachment(w)
    PROVE  \E req : RecordLoaded(w, req)
<1> DEFINE Req(op, new, rows, files) ==
               [op |-> op, read |-> record, new |-> new, readLines |-> lines,
                newLines |-> rows, files |-> files]
<1>0. ASSUME NEW op, NEW new, NEW rows, NEW files,
             HandleRecord(w, op, new, rows, files), RecordChange(Req(op, new, rows, files)),
             op \in {"update_record", "transition_record", "delete_record", "upload",
                     "delete_attachment"},
             ~ overlapped /\ op \in {"update_record", "transition_record"}
             => ClientPO(new, rows),
             op = "upload" => files \cap (attachment \cup InHand(FileOps)) = {},
             op \in {"delete_record", "delete_attachment"} => files \subseteq attachment
      PROVE  \E req : RecordLoaded(w, req)
  <2>1. RecordLoaded(w, Req(op, new, rows, files))
    BY <1>0 DEF RecordLoaded, HandleRecord
  <2> QED
    BY <2>1
<1>1. /\ record # NULL
      /\ record \in OperationalRecord
      /\ Explained(record)
      /\ lines \in Rows
      /\ attachment \subseteq File
  BY DEF IInv, TablesTyped, UpdateRecord, TransitionRecord, DeleteRecord, Upload,
         DeleteAttachment
<1>2. NoLines \in Rows
  BY DEF NoLines, Rows
<1>3. CASE UpdateRecord(w)
  <2>1. PICK client_po \in BOOLEAN, amount \in Amount, given \in BOOLEAN, rows \in Boq :
            LET new == [record EXCEPT !.client_po = client_po, !.amount = amount]
                kept == IF given THEN rows ELSE lines
            IN  /\ Locked(new, rows, given)
                /\ given => client_po
                /\ Checked(new, rows, given)
                /\ HandleRecord(w, "update_record", new,
                                IF client_po THEN kept ELSE NoLines, {})
    BY <1>3 DEF UpdateRecord
  <2> DEFINE new == [record EXCEPT !.client_po = client_po, !.amount = amount]
             kept == IF given THEN rows ELSE lines
             after == IF client_po THEN kept ELSE NoLines
  <2>2. /\ new \in OperationalRecord
        /\ new.client_po = client_po
        /\ new.amount = amount
        /\ new.status = record.status
        /\ new.workflow_history = record.workflow_history
        /\ new.client_po = record.client_po /\ new.amount = record.amount => new = record
    BY <1>1 DEF OperationalRecord
  <2>3. new # NULL
    BY <2>2, RecordAssumption
  <2>4. after \in Rows
    BY <1>1, <1>2 DEF Rows, Boq
  <2> HIDE DEF new
  <2>5. /\ Locked(new, rows, given)
        /\ given => client_po
        /\ AddsUp(new, kept)
        /\ HandleRecord(w, "update_record", new, after, {})
    BY <2>1 DEF new, Checked
  <2>6. record.status \notin EDITABLE_STATUSES =>
            /\ new = record
            /\ record.client_po => after = lines
    BY <2>2, <2>5 DEF Locked
  <2> HIDE DEF after
  <2>7. RecordChange(Req("update_record", new, after, {}))
    BY <1>1, <2>2, <2>3, <2>4, <2>6 DEF RecordChange, RecordRequest, RecordOps
  <2>8. ~ overlapped => ClientPO(new, after)
    <3> SUFFICES ASSUME ~ overlapped, new.client_po
                 PROVE  /\ AddsUp(new, after)
                        /\ new.status \notin EDITABLE_STATUSES \cup {"cancelled"}
                           => Drawn(after) # {}
      BY DEF ClientPO
    <3>1. AddsUp(new, after)
      BY <2>2, <2>5 DEF after
    <3>2. ASSUME new.status \notin EDITABLE_STATUSES \cup {"cancelled"}
          PROVE  Drawn(after) # {}
      BY <1>1, <2>2, <2>6, <3>2 DEF IInv, LinesSound, ClientPO
    <3> QED
      BY <3>1, <3>2
  <2> QED
    BY <1>0, <2>5, <2>7, <2>8
<1>4. CASE TransitionRecord(w)
  <2>1. PICK action \in DOMAIN STATUS_TRANSITIONS[record.status] :
            LET to == STATUS_TRANSITIONS[record.status][action]
                moved == [record EXCEPT !.status = to,
                                        !.workflow_history = Append(@, Entry(action, to)),
                                        !.closed = to = "closed"]
            IN  /\ action = "submit" /\ record.client_po
                   => Drawn(lines) # {} /\ AddsUp(record, lines)
                /\ \/ HandleRecord(w, "transition_record", moved, lines, {})
                   \/ \E actor \in _approvers :
                          HandleRecord(w, "transition_record",
                              [moved EXCEPT !.approved_by = actor], lines, {})
    BY <1>4 DEF TransitionRecord
  <2> DEFINE to == STATUS_TRANSITIONS[record.status][action]
             history == record.workflow_history
             entry == Entry(action, to)
             moved == [record EXCEPT !.status = to,
                                     !.workflow_history = Append(@, entry),
                                     !.closed = to = "closed"]
  <2>2. PICK new : /\ new = moved \/ \E actor \in _approvers :
                                         new = [moved EXCEPT !.approved_by = actor]
                   /\ HandleRecord(w, "transition_record", new, lines, {})
    BY <2>1
  <2>3. /\ record.status \in DOMAIN STATUS_TRANSITIONS
        /\ history \in Seq([action : {"create"} \cup UNION {DOMAIN STATUS_TRANSITIONS[s] :
                                          s \in DOMAIN STATUS_TRANSITIONS},
                            from : {"none"} \cup DOMAIN STATUS_TRANSITIONS,
                            to : DOMAIN STATUS_TRANSITIONS])
    BY <1>1 DEF OperationalRecord
  <2>4. /\ to \in DOMAIN STATUS_TRANSITIONS
        /\ to # record.status
        /\ record.status \in EDITABLE_STATUSES \cup {"cancelled"}
           /\ to \notin EDITABLE_STATUSES \cup {"cancelled"} => action = "submit"
    BY <2>3, Transitions
  <2>5. /\ entry.action = action
        /\ entry.from = record.status
        /\ entry.to = to
        /\ entry \in [action : {"create"} \cup UNION {DOMAIN STATUS_TRANSITIONS[s] :
                                   s \in DOMAIN STATUS_TRANSITIONS},
                      from : {"none"} \cup DOMAIN STATUS_TRANSITIONS,
                      to : DOMAIN STATUS_TRANSITIONS]
    BY <2>3, <2>4 DEF Entry
  <2> HIDE DEF to, entry
  <2>6. /\ new \in OperationalRecord
        /\ new.client_po = record.client_po
        /\ new.amount = record.amount
        /\ new.status = to
        /\ new.workflow_history = Append(history, entry)
    <3>1. Append(history, entry) \in
              Seq([action : {"create"} \cup UNION {DOMAIN STATUS_TRANSITIONS[s] :
                       s \in DOMAIN STATUS_TRANSITIONS},
                   from : {"none"} \cup DOMAIN STATUS_TRANSITIONS,
                   to : DOMAIN STATUS_TRANSITIONS])
      BY <2>3, <2>5
    <3>2. /\ moved \in OperationalRecord
          /\ moved.client_po = record.client_po
          /\ moved.amount = record.amount
          /\ moved.status = to
          /\ moved.workflow_history = Append(history, entry)
      BY <1>1, <2>4, <3>1 DEF OperationalRecord
    <3>3. _approvers \subseteq User
      BY DEF _approvers
    <3> HIDE DEF moved
    <3> QED
      BY <2>2, <3>2, <3>3 DEF OperationalRecord
  <2>7. new # NULL
    BY <2>6, RecordAssumption
  <2>8. Explained(new)
    <3> DEFINE h == Append(history, entry)
    <3>1. /\ Len(h) = Len(history) + 1
          /\ Len(history) \in Nat
          /\ h[Len(h)] = entry
          /\ \A i \in 1..Len(history) : h[i] = history[i]
      BY <2>3
    <3>2. /\ Len(history) > 0
          /\ history[1].action = "create"
          /\ history[Len(history)].to = record.status
          /\ \A i \in 2..Len(history) : Follows(history[i], history[i - 1])
      BY <1>1 DEF Explained
    <3> HIDE DEF h, history
    <3>3. Len(h) > 0 /\ h[1].action = "create" /\ h[Len(h)].to = to
      BY <2>5, <3>1, <3>2
    <3>4. ASSUME NEW i \in 2..Len(h)
          PROVE  Follows(h[i], h[i - 1])
      <4>1. CASE i = Len(h)
        <5>1. h[i] = entry /\ h[i - 1] = history[Len(history)]
          BY <3>1, <3>2, <4>1
        <5> QED
          BY <2>5, <3>2, <5>1 DEF Follows, to
      <4>2. CASE i # Len(h)
        <5>1. i \in 2..Len(history) /\ h[i] = history[i] /\ h[i - 1] = history[i - 1]
          BY <3>1, <3>4, <4>2
        <5> QED
          BY <3>2, <5>1
      <4> QED
        BY <4>1, <4>2
    <3> QED
      BY <2>6, <3>3, <3>4 DEF Explained, h, history
  <2>9. new.workflow_history # record.workflow_history
    BY <2>3, <2>6
  <2>10. RecordChange(Req("transition_record", new, lines, {}))
    BY <1>1, <2>4, <2>6, <2>7, <2>8, <2>9 DEF RecordChange, RecordRequest, RecordOps
  <2>11. ~ overlapped => ClientPO(new, lines)
    <3> SUFFICES ASSUME ~ overlapped, record.client_po
                 PROVE  /\ AddsUp(new, lines)
                        /\ to \notin EDITABLE_STATUSES \cup {"cancelled"} => Drawn(lines) # {}
      BY <2>6 DEF ClientPO
    <3>1. ClientPO(record, lines)
      BY <1>1 DEF IInv, LinesSound
    <3>2. action = "submit" => Drawn(lines) # {}
      BY <2>1
    <3>3. AddsUp(new, lines)
      BY <2>6, <3>1 DEF ClientPO, AddsUp
    <3> QED
      BY <2>4, <3>1, <3>2, <3>3 DEF ClientPO
  <2> QED
    BY <1>0, <2>2, <2>10, <2>11
<1>5. CASE DeleteRecord(w)
  <2>1. RecordChange(Req("delete_record", NULL, NoLines, attachment))
    BY <1>1, <1>2, <1>5 DEF RecordChange, RecordRequest, RecordOps, DeleteRecord
  <2> QED
    BY <1>0, <1>5, <2>1 DEF DeleteRecord
<1>6. CASE Upload(w)
  <2>1. PICK f \in File \ (disk \cup attachment \cup InHand(FileOps)) :
            HandleRecord(w, "upload", record, lines, {f})
    BY <1>6 DEF Upload
  <2>2. RecordChange(Req("upload", record, lines, {f}))
    BY <1>1, <1>6 DEF RecordChange, RecordRequest, RecordOps, Upload
  <2> QED
    BY <1>0, <2>1, <2>2
<1>7. CASE DeleteAttachment(w)
  <2>1. PICK f \in attachment : HandleRecord(w, "delete_attachment", record, lines, {f})
    BY <1>7 DEF DeleteAttachment
  <2>2. RecordChange(Req("delete_attachment", record, lines, {f}))
    BY <1>1, <1>7 DEF RecordChange, RecordRequest, RecordOps, DeleteAttachment
  <2> QED
    BY <1>0, <2>1, <2>2
<1> QED
  BY <1>3, <1>4, <1>5, <1>6, <1>7

---------------------------------------------------------------------------
\* The shapes of a step.  Only a commit of a letter changes the letters, and every other
\* step leaves one request changed.
RecordStep(w) ==
    \/ \E req : RecordLoaded(w, req)
    \/ CommitRecord(w) \/ StoreFile(w) \/ CommitAttachment(w)
    \/ CommitRemoval(w) \/ Unlink(w) \/ Rollback(w)

LEMMA Steps ==
    ASSUME IInv, Next
    PROVE  \/ /\ UNCHANGED recordVars
              /\ \E w \in Worker : CommitDocument(w) \/ \E req : LetterLoaded(w, req)
           \/ \E rows \in Boq : CreateRecord(rows)
           \/ \E w \in Worker : RecordStep(w)
<1>1. CASE LegalNext /\ UNCHANGED recordVars
  <2>1. CASE \E w \in Worker : CommitDocument(w)
    BY <1>1, <2>1
  <2>2. CASE \E w \in Worker, d \in Document : CreateDocument(w, d) \/ CreateNumbered(w, d)
    BY <1>1, <2>2, LetterLoads
  <2>3. CASE \E w \in Worker, d \in Filed :
                 \/ UpdateDocument(w, d) \/ SubmitDocument(w, d) \/ SignDocument(w, d)
                 \/ RejectDocument(w, d) \/ DeleteDocument(w, d)
    <3>1. Filed \subseteq Document
      BY DEF Filed
    <3> QED
      BY <1>1, <2>3, <3>1, LetterLoads
  <2> QED
    BY <1>1, <2>1, <2>2, <2>3 DEF LegalNext
<1>2. CASE RecordNext \/ FileNext
  <2>1. CASE \E rows \in Boq : CreateRecord(rows)
    BY <2>1
  <2>2. CASE \E w \in Worker : \/ UpdateRecord(w) \/ TransitionRecord(w) \/ DeleteRecord(w)
                               \/ Upload(w) \/ DeleteAttachment(w)
    BY <2>2, RecordLoads DEF RecordStep
  <2>3. CASE \E w \in Worker : \/ CommitRecord(w) \/ Unlink(w) \/ StoreFile(w)
                               \/ CommitAttachment(w) \/ CommitRemoval(w)
    BY <2>3 DEF RecordStep
  <2> QED
    BY <1>2, <2>1, <2>2, <2>3 DEF RecordNext, FileNext
<1>3. CASE \E w \in Worker : Rollback(w)
  BY <1>3 DEF RecordStep
<1> QED
  BY <1>1, <1>2, <1>3 DEF Next

\* A row written from a row in hand.
LEMMA LetterWritten ==
    ASSUME NEW req, LetterChange(req), NEW current \in LegalDocument \cup {NULL},
           ~ Misses(current, req.read, req.new),
           req.op \in Creations => current = NULL
    PROVE  LET row == Written(current, req.read, req.new)
           IN  /\ row \in LegalDocument \cup {NULL}
               /\ req.op \in Creations => row = req.new
               /\ req.op \notin Creations /\ current = NULL => row = NULL
               /\ req.op = "delete_document" => row = NULL
               /\ req.op \notin Creations \cup {"delete_document"} /\ current # NULL
                  => row # NULL
               /\ current # NULL /\ req.op \in {"sign_document", "reject_document"} =>
                      /\ row.content = current.content
                      /\ row.doc_number = current.doc_number
<1> DEFINE row == Written(current, req.read, req.new)
<1>1. CASE req.read = NULL \/ req.new = NULL
  BY <1>1, LetterAssumption DEF LetterChange, LetterRequest, LetterOps, Written
<1>2. CASE req.read # NULL /\ req.new # NULL /\ req.read = req.new
  BY <1>2, LetterAssumption DEF LetterChange, LetterRequest, LetterOps, Written
<1>3. CASE req.read # NULL /\ req.new # NULL /\ req.read # req.new
  <2>1. /\ row = Merged(current, req.read, req.new)
        /\ current \in LegalDocument
        /\ req.read \in LegalDocument
        /\ req.new \in LegalDocument
    BY <1>3 DEF Written, Misses, LetterChange, LetterRequest
  <2>2. row \in LegalDocument
    BY <2>1 DEF Merged, LegalDocument
  <2>3. req.op \in {"sign_document", "reject_document"} =>
            /\ row.content = current.content
            /\ row.doc_number = current.doc_number
    BY <1>3, <2>1 DEF Merged, LegalDocument, LetterChange
  <2> HIDE DEF row
  <2>4. req.op \notin Creations \cup {"delete_document"}
    BY <1>3, LetterAssumption DEF LetterChange
  <2>5. current # NULL /\ row # NULL
    BY <2>1, <2>2, LetterAssumption
  <2> QED
    BY <2>2, <2>3, <2>4, <2>5 DEF row
<1> QED
  BY <1>1, <1>2, <1>3

LEMMA RecordWritten ==
    ASSUME NEW req, RecordChange(req), NEW current \in OperationalRecord \cup {NULL},
           ~ Misses(current, req.read, req.new),
           req.op \in {"update_record", "transition_record", "delete_record"}
    PROVE  LET row == Written(current, req.read, req.new)
           IN  /\ row \in OperationalRecord \cup {NULL}
               /\ current = NULL => row = NULL
               /\ current = req.read => row = req.new
               /\ current # NULL /\ Explained(current) /\ row # NULL => Explained(row)
               /\ current # NULL /\ req.op # "delete_record" => row # NULL
               /\ current # NULL /\ req.op = "transition_record" =>
                      row.client_po = current.client_po /\ row.amount = current.amount
<1> DEFINE row == Written(current, req.read, req.new)
<1>1. CASE req.new = NULL
  BY <1>1, RecordAssumption DEF RecordChange, RecordRequest, Written
<1>2. CASE req.new # NULL /\ req.read = req.new
  BY <1>2, RecordAssumption DEF RecordChange, RecordRequest, Written
<1>3. CASE req.new # NULL /\ req.read # req.new
  <2>1. /\ row = Merged(current, req.read, req.new)
        /\ current \in OperationalRecord
        /\ req.read \in OperationalRecord
        /\ req.new \in OperationalRecord
    BY <1>3, RecordAssumption DEF Written, Misses, RecordChange, RecordRequest
  <2>2. row \in OperationalRecord
    BY <2>1 DEF Merged, OperationalRecord
  <2>3. current = req.read => row = req.new
    BY <2>1 DEF Merged, OperationalRecord
  <2>4. /\ req.op = "update_record"
           => row.status = current.status /\ row.workflow_history = current.workflow_history
        /\ req.op = "transition_record" =>
               /\ row.status = req.new.status
               /\ row.workflow_history = req.new.workflow_history
               /\ row.client_po = current.client_po
               /\ row.amount = current.amount
    BY <1>3, <2>1 DEF Merged, OperationalRecord, RecordChange
  <2> HIDE DEF row
  <2>5. Explained(current) => Explained(row)
    <3>1. CASE req.op = "update_record"
      BY <2>4, <3>1 DEF Explained
    <3>2. CASE req.op = "transition_record"
      <4>1. Explained(req.new)
        BY <3>2 DEF RecordChange
      <4> QED
        BY <2>4, <3>2, <4>1 DEF Explained
    <3> QED
      BY <1>3, <3>1, <3>2 DEF RecordChange
  <2>6. current # NULL /\ row # NULL
    BY <2>1, <2>2, RecordAssumption
  <2> QED
    BY <1>3, <2>2, <2>3, <2>4, <2>5, <2>6 DEF row
<1> QED
  BY <1>1, <1>2, <1>3

---------------------------------------------------------------------------
\* Types.

LEMMA RequestChanged ==
    ASSUME RequestsTyped, NEW w \in Worker, NEW req,
           req = Idle \/ LetterChange(req) \/ RecordChange(req),
           request' = [request EXCEPT ![w] = req]
    PROVE  /\ RequestsTyped'
           /\ request'[w] = req
           /\ \A v \in Worker \ {w} : request'[v] = request[v]
<1>1. req \in {Idle} \cup LetterRequest \cup RecordRequest
  BY DEF LetterChange, RecordChange
<1>2. /\ request'[w] = req
      /\ \A v \in Worker \ {w} : request'[v] = request[v]
      /\ request' \in [Worker -> {Idle} \cup LetterRequest \cup RecordRequest]
  BY <1>1 DEF RequestsTyped
<1>3. \A v \in Worker : request'[v] = Idle \/ LetterChange(request'[v])
                         \/ RecordChange(request'[v])
  BY <1>2 DEF RequestsTyped
<1> QED
  BY <1>2, <1>3 DEF RequestsTyped

\* A handler that goes on to its file.
LEMMA RequestGoesOn ==
    ASSUME RequestsTyped, NEW w \in Worker, NEW op,
           \/ request[w].op = "upload" /\ op = "stored"
           \/ request[w].op \in {"delete_record", "delete_attachment"} /\ op = "unlink",
           request' = [request EXCEPT ![w].op = op]
    PROVE  /\ RequestsTyped'
           /\ request'[w].op = op
           /\ request'[w].files = request[w].files
           /\ \A v \in Worker \ {w} : request'[v] = request[v]
<1> DEFINE req == [request[w] EXCEPT !.op = op]
<1>1. RecordChange(request[w])
  BY RequestKinds DEF RecordOps
<1>2. /\ req.op = op
      /\ req.files = request[w].files
      /\ req.read = request[w].read
      /\ req \in RecordRequest
  BY <1>1 DEF RecordChange, RecordRequest, RecordOps
<1>3. request' = [request EXCEPT ![w] = req]
  OBVIOUS
<1> HIDE DEF req
<1>4. RecordChange(req)
  BY <1>1, <1>2 DEF RecordChange
<1> QED
  BY <1>2, <1>3, <1>4, RequestChanged

LEMMA CommitRecordRequest ==
    ASSUME RequestsTyped, NEW w \in Worker, CommitRecord(w)
    PROVE  /\ RequestsTyped'
           /\ RecordChange(request[w])
           /\ request[w].op \in {"update_record", "transition_record", "delete_record"}
           /\ request[w].op = "delete_record" =>
                  /\ request'[w].op = "unlink"
                  /\ request'[w].files = request[w].files
           /\ request[w].op # "delete_record" => request'[w] = Idle
           /\ \A v \in Worker \ {w} : request'[v] = request[v]
<1>1. /\ request[w].op \in {"update_record", "transition_record", "delete_record"}
      /\ request' = IF request[w].op = "delete_record"
                    THEN [request EXCEPT ![w].op = "unlink"]
                    ELSE [request EXCEPT ![w] = Idle]
  BY DEF CommitRecord, Finished
<1>2. RecordChange(request[w])
  BY <1>1, RequestKinds DEF RecordOps
<1>3. CASE request[w].op = "delete_record"
  BY <1>1, <1>2, <1>3, RequestGoesOn
<1>4. CASE request[w].op # "delete_record"
  BY <1>1, <1>2, <1>4, RequestChanged
<1> QED
  BY <1>1, <1>2, <1>3, <1>4

LEMMA CommitDocumentRow ==
    ASSUME TablesTyped, RequestsTyped, NEW w \in Worker, CommitDocument(w)
    PROVE  LET req == request[w]
               d == req.document
               now == Written(document[d], req.read, req.new)
           IN  /\ LetterChange(req)
               /\ d \in Document
               /\ document' = [document EXCEPT ![d] = now]
               /\ document'[d] = now
               /\ \A o \in Document \ {d} : document'[o] = document[o]
               /\ document' \in [Document -> LegalDocument \cup {NULL}]
               /\ now \in LegalDocument \cup {NULL}
               /\ req.op \in Creations => document[d] = NULL /\ now = req.new
               /\ req.op \notin Creations /\ document[d] = NULL => now = NULL
               /\ req.op = "delete_document" => now = NULL
               /\ req.op \notin Creations \cup {"delete_document"} /\ document[d] # NULL
                  => now # NULL
               /\ document[d] # NULL /\ req.op \in {"sign_document", "reject_document"} =>
                      /\ now.content = document[d].content
                      /\ now.doc_number = document[d].doc_number
<1> DEFINE req == request[w]
           d == req.document
           now == Written(document[d], req.read, req.new)
<1>1. LetterChange(req)
  BY RequestKinds DEF CommitDocument, LetterOps
<1>2. d \in Document /\ document[d] \in LegalDocument \cup {NULL}
  BY <1>1 DEF LetterChange, LetterRequest, TablesTyped
<1>3. /\ ~ Misses(document[d], req.read, req.new)
      /\ req.op \in Creations => document[d] = NULL
      /\ document' = [document EXCEPT ![d] = now]
  BY DEF CommitDocument
<1> HIDE DEF req, d
<1>4. /\ now \in LegalDocument \cup {NULL}
      /\ req.op \in Creations => now = req.new
      /\ req.op \notin Creations /\ document[d] = NULL => now = NULL
      /\ req.op = "delete_document" => now = NULL
      /\ req.op \notin Creations \cup {"delete_document"} /\ document[d] # NULL
         => now # NULL
      /\ document[d] # NULL /\ req.op \in {"sign_document", "reject_document"} =>
             /\ now.content = document[d].content
             /\ now.doc_number = document[d].doc_number
  BY <1>1, <1>2, <1>3, LetterWritten
<1> HIDE DEF now
<1>5. /\ document'[d] = now
      /\ \A o \in Document \ {d} : document'[o] = document[o]
      /\ document' \in [Document -> LegalDocument \cup {NULL}]
  BY <1>2, <1>3, <1>4 DEF TablesTyped
<1> QED
  BY <1>1, <1>2, <1>3, <1>4, <1>5 DEF req, d, now

LEMMA RequestsKept ==
    ASSUME IInv, [Next]_vars
    PROVE  RequestsTyped'
<1> USE DEF IInv
<1>1. ASSUME NEW w \in Worker, NEW req, LetterLoaded(w, req) \/ RecordLoaded(w, req)
      PROVE  RequestsTyped'
  BY <1>1, RequestChanged DEF LetterLoaded, RecordLoaded
<1>2. ASSUME NEW w \in Worker,
             CommitDocument(w) \/ CommitAttachment(w) \/ Unlink(w) \/ Rollback(w)
      PROVE  RequestsTyped'
  BY <1>2, RequestChanged DEF CommitDocument, CommitAttachment, Unlink, Rollback, Finished
<1>3. ASSUME NEW w \in Worker, CommitRecord(w)
      PROVE  RequestsTyped'
  BY <1>3, CommitRecordRequest
<1>4. ASSUME NEW w \in Worker, StoreFile(w) \/ CommitRemoval(w)
      PROVE  RequestsTyped'
  <2>1. CASE StoreFile(w)
    BY <2>1, RequestGoesOn DEF StoreFile
  <2>2. CASE CommitRemoval(w)
    BY <2>2, RequestGoesOn DEF CommitRemoval
  <2> QED
    BY <1>4, <2>1, <2>2
<1>5. CASE UNCHANGED request
  BY <1>5 DEF RequestsTyped
<1>6. CASE \E rows \in Boq : CreateRecord(rows)
  BY <1>5, <1>6 DEF CreateRecord
<1>7. CASE UNCHANGED vars
  BY <1>5, <1>7 DEF vars
<1> HIDE DEF IInv
<1>8. CASE \E w \in Worker : RecordStep(w)
  BY <1>1, <1>2, <1>3, <1>4, <1>8 DEF RecordStep
<1> QED
  BY <1>1, <1>2, <1>6, <1>7, <1>8, Steps

LEMMA CreatedRow ==
    ASSUME NEW rows \in Boq, CreateRecord(rows)
    PROVE  /\ record' \in OperationalRecord
           /\ Explained(record')
           /\ record'.status = "draft"
           /\ AddsUp(record', rows)
           /\ lines' = rows
           /\ rows \in Rows
<1>1. PICK client_po \in BOOLEAN, amount \in Amount :
          record' = [client_po |-> client_po, amount |-> amount, status |-> "draft",
                     approved_by |-> NULL, closed |-> FALSE,
                     workflow_history |->
                         <<[action |-> "create", from |-> "none", to |-> "draft"]>>]
  BY DEF CreateRecord
<1> DEFINE entry == [action |-> "create", from |-> "none", to |-> "draft"]
           Entries == [action : {"create"} \cup UNION {DOMAIN STATUS_TRANSITIONS[s] :
                                    s \in DOMAIN STATUS_TRANSITIONS},
                       from : {"none"} \cup DOMAIN STATUS_TRANSITIONS,
                       to : DOMAIN STATUS_TRANSITIONS]
<1>2. entry \in Entries
  BY LegalStatus
<1>3. <<entry>> \in Seq(Entries)
  BY <1>2
<1>4. record' \in OperationalRecord
  BY <1>1, <1>3, LegalStatus DEF OperationalRecord
<1>5. Explained(record')
  BY <1>1 DEF Explained
<1>6. record'.status = "draft" /\ AddsUp(record', rows) /\ lines' = rows /\ rows \in Rows
  BY <1>1 DEF CreateRecord, Rows, Boq
<1> QED
  BY <1>4, <1>5, <1>6

LEMMA ReplacedRows ==
    ASSUME NEW req, RecordChange(req), lines \in Rows
    PROVE  /\ Replaced(req) \in Rows
           /\ lines = req.readLines => Replaced(req) = req.newLines
           /\ req.newLines = req.readLines => Replaced(req) = lines
BY DEF Replaced, Rows, RecordChange, RecordRequest

LEMMA TablesKept ==
    ASSUME IInv, [Next]_vars
    PROVE  TablesTyped'
<1> USE DEF IInv
<1>1. ASSUME NEW w \in Worker, CommitDocument(w), UNCHANGED recordVars
      PROVE  TablesTyped'
  <2>1. document' \in [Document -> LegalDocument \cup {NULL}]
    BY <1>1, CommitDocumentRow
  <2> QED
    BY <1>1, <2>1 DEF TablesTyped, recordVars
<1>2. CASE UNCHANGED <<recordVars, document>>
  BY <1>2 DEF TablesTyped, recordVars
<1>3. ASSUME NEW w \in Worker, NEW req, LetterLoaded(w, req), UNCHANGED recordVars
      PROVE  TablesTyped'
  BY <1>2, <1>3 DEF LetterLoaded, legalVars
<1>4. ASSUME NEW w \in Worker, NEW req, RecordLoaded(w, req)
      PROVE  TablesTyped'
  BY <1>2, <1>4 DEF RecordLoaded, legalVars
<1>5. ASSUME NEW rows \in Boq, CreateRecord(rows)
      PROVE  TablesTyped'
  <2>1. /\ record' \in OperationalRecord
        /\ Explained(record')
        /\ lines' \in Rows
    BY <1>5, CreatedRow
  <2> QED
    BY <1>5, <2>1 DEF TablesTyped, CreateRecord, legalVars
<1>6. ASSUME NEW w \in Worker, CommitRecord(w)
      PROVE  TablesTyped'
  <2> DEFINE req == request[w]
  <2>1. /\ RecordChange(req)
        /\ req.op \in {"update_record", "transition_record", "delete_record"}
    BY <1>6, CommitRecordRequest
  <2>2. /\ ~ Misses(record, req.read, req.new)
        /\ record' = Written(record, req.read, req.new)
    BY <1>6 DEF CommitRecord
  <2>3. /\ record' \in OperationalRecord \cup {NULL}
        /\ record' # NULL => record # NULL /\ Explained(record')
    BY <2>1, <2>2, RecordWritten DEF TablesTyped
  <2>4. lines' \in Rows
    <3>1. lines' = NoLines \/ lines' = Replaced(req)
      BY <1>6 DEF CommitRecord
    <3>2. NoLines \in Rows
      BY DEF NoLines, Rows
    <3>3. Replaced(req) \in Rows
      BY <2>1, ReplacedRows DEF TablesTyped
    <3> QED
      BY <3>1, <3>2, <3>3
  <2>5. /\ attachment' \subseteq attachment
        /\ UNCHANGED <<disk, created, legalVars>>
        /\ overlapped' \in BOOLEAN
    BY <1>6 DEF CommitRecord, TablesTyped
  <2> QED
    BY <2>3, <2>4, <2>5 DEF TablesTyped, legalVars
<1>7. ASSUME NEW w \in Worker,
             StoreFile(w) \/ CommitAttachment(w) \/ CommitRemoval(w) \/ Unlink(w)
             \/ Rollback(w)
      PROVE  TablesTyped'
  <2>1. /\ UNCHANGED <<record, lines, created, overlapped, legalVars>>
        /\ attachment' \in {attachment, attachment \cup request[w].files,
                            attachment \ request[w].files}
        /\ disk' \in {disk, disk \cup request[w].files, disk \ request[w].files}
        /\ StoreFile(w) \/ CommitAttachment(w) \/ CommitRemoval(w) \/ Unlink(w)
           => request[w].op \in FileOps
        /\ Rollback(w) => UNCHANGED <<attachment, disk>>
    BY <1>7 DEF StoreFile, CommitAttachment, Attachable, CommitRemoval, Unlink, Rollback,
                FileOps
  <2>2. request[w].op \in FileOps => request[w].files \subseteq File
    BY RequestKinds DEF FilesOf
  <2> QED
    BY <1>7, <2>1, <2>2 DEF TablesTyped, legalVars
<1>8. CASE UNCHANGED vars
  BY <1>2, <1>8 DEF vars, legalVars
<1> HIDE DEF IInv
<1>9. CASE \E w \in Worker : RecordStep(w)
  BY <1>4, <1>6, <1>7, <1>9 DEF RecordStep
<1> QED
  BY <1>1, <1>3, <1>5, <1>8, <1>9, Steps

---------------------------------------------------------------------------
\* What a step about the record leaves alone.

LEMMA RecordStepRequest ==
    ASSUME IInv, NEW w \in Worker, RecordStep(w)
    PROVE  /\ UNCHANGED legalVars
           /\ request'[w].op \notin LetterOps
           /\ \A v \in Worker \ {w} : request'[v] = request[v]
<1> USE DEF IInv
<1>1. ASSUME NEW req, RecordLoaded(w, req)
      PROVE  /\ UNCHANGED legalVars
             /\ request'[w].op \notin LetterOps
             /\ \A v \in Worker \ {w} : request'[v] = request[v]
  <2>1. request'[w] = req /\ \A v \in Worker \ {w} : request'[v] = request[v]
    BY <1>1, RequestChanged DEF RecordLoaded
  <2> QED
    BY <1>1, <2>1 DEF RecordLoaded, LetterOps
<1>2. CASE CommitAttachment(w) \/ Unlink(w) \/ Rollback(w)
  <2>1. request'[w] = Idle /\ \A v \in Worker \ {w} : request'[v] = request[v]
    BY <1>2, RequestChanged DEF CommitAttachment, Unlink, Rollback, Finished
  <2> QED
    BY <1>2, <2>1, Ops DEF CommitAttachment, Unlink, Rollback, Idle
<1>3. CASE CommitRecord(w)
  <2>1. UNCHANGED legalVars
    BY <1>3 DEF CommitRecord
  <2> QED
    BY <1>3, <2>1, CommitRecordRequest, Ops DEF Idle, LetterOps
<1>4. CASE StoreFile(w)
  BY <1>4, RequestGoesOn DEF StoreFile, LetterOps
<1>5. CASE CommitRemoval(w)
  BY <1>5, RequestGoesOn DEF CommitRemoval, LetterOps
<1> QED
  BY <1>1, <1>2, <1>3, <1>4, <1>5 DEF RecordStep

---------------------------------------------------------------------------
\* Numbers.

LEMMA NumbersStay ==
    ASSUME Numbered, UNCHANGED <<document, disturbed>>,
           \A w \in Worker : request'[w].op = "create_document" => request'[w] = request[w]
    PROVE  Numbered'
<1>1. Filed' = Filed /\ \A type \in DocType : Counted(type)' = Counted(type)
  BY DEF Counted, Filed
<1> QED
  BY <1>1 DEF Numbered

LEMMA NumberLoaded ==
    ASSUME IInv, NEW w \in Worker, NEW req, LetterLoaded(w, req)
    PROVE  Numbered'
<1>1. /\ request'[w] = req
      /\ \A v \in Worker \ {w} : request'[v] = request[v]
      /\ UNCHANGED <<document, disturbed>>
  BY RequestChanged DEF LetterLoaded, IInv, legalVars
<1>2. \A type \in DocType : Counted(type)' = Counted(type)
  BY <1>1 DEF Counted, Filed
<1>3. ASSUME NEW type \in DocType \ disturbed, req.op = "create_document",
             req.new.doc_type = type
      PROVE  req.new.doc_number.count <= Cardinality(Counted(type)) + 1
  <2>1. req.new.doc_number.count = Cardinality(Counted(type)) + 1
    BY <1>3, NextNumber DEF LetterLoaded
  <2>2. Cardinality(Counted(type)) \in Nat
    BY NextNumber
  <2> QED
    BY <2>1, <2>2
<1>4. ASSUME NEW type \in (DocType \ disturbed)'
      PROVE  /\ \A d \in Filed' :
                    /\ document'[d].doc_type = type <=> document'[d].doc_number.prefix = type
                    /\ document'[d].doc_type = type => document'[d].doc_number.count
                                                     <= Cardinality(Counted(type)')
             /\ \A v \in Worker :
                    request'[v].op = "create_document" /\ request'[v].new.doc_type = type
                    => request'[v].new.doc_number.count <= Cardinality(Counted(type)') + 1
  <2>1. type \in DocType \ disturbed
    BY <1>1
  <2>2. Counted(type)' = Counted(type) /\ Filed' = Filed
    BY <1>1, <1>2 DEF Filed
  <2> HIDE DEF Counted, Filed
  <2>3. \A d \in Filed :
            /\ document[d].doc_type = type <=> document[d].doc_number.prefix = type
            /\ document[d].doc_type = type
               => document[d].doc_number.count <= Cardinality(Counted(type))
    BY <2>1 DEF IInv, Numbered
  <2>4. ASSUME NEW v \in Worker, request'[v].op = "create_document",
               request'[v].new.doc_type = type
        PROVE  request'[v].new.doc_number.count <= Cardinality(Counted(type)) + 1
    <3>1. CASE v = w
      BY <1>1, <1>3, <2>1, <2>4, <3>1
    <3>2. CASE v # w
      BY <1>1, <2>1, <2>4, <3>2 DEF IInv, Numbered
    <3> QED
      BY <3>1, <3>2
  <2> QED
    BY <1>1, <2>2, <2>3, <2>4
<1> QED
  BY <1>4 DEF Numbered

\* A commit of a letter: the letters of an undisturbed type are those before it, but
\* for a new one, whose number follows.
LEMMA NumberCommitted ==
    ASSUME IInv, NEW w \in Worker, CommitDocument(w)
    PROVE  Numbered'
<1> DEFINE req == request[w]
           d == req.document
           row == document[d]
           now == Written(row, req.read, req.new)
<1>1. /\ LetterChange(req)
      /\ d \in Document
      /\ document'[d] = now
      /\ \A o \in Document \ {d} : document'[o] = document[o]
      /\ now \in LegalDocument \cup {NULL}
      /\ req.op \in Creations => row = NULL /\ now = req.new
      /\ req.op \notin Creations /\ row = NULL => now = NULL
      /\ req.op = "delete_document" => now = NULL
      /\ req.op \notin Creations \cup {"delete_document"} /\ row # NULL => now # NULL
  BY CommitDocumentRow DEF IInv
<1>2. disturbed' = disturbed \cup Disturbs(req.op, row, now)
  BY DEF CommitDocument
<1>3. request'[w] = Idle /\ \A v \in Worker \ {w} : request'[v] = request[v]
  BY RequestChanged DEF CommitDocument, Finished, IInv
<1>4. row \in LegalDocument \cup {NULL}
  BY <1>1 DEF IInv, TablesTyped
<1>5. /\ d \in Filed <=> row # NULL
      /\ d \in Filed' <=> now # NULL
      /\ \A o \in Document \ {d} : o \in Filed' <=> o \in Filed
      /\ Filed \subseteq Document
      /\ Filed' \subseteq Document
  BY <1>1 DEF Filed
<1>6. LetterChange(req) /\ req.op = "create_document" =>
          /\ req.new # NULL
          /\ req.new.doc_number.prefix = req.new.doc_type
          /\ req.new \in LegalDocument
  BY DEF LetterChange, LetterRequest
<1> HIDE DEF req, d, row, now
<1>7. ASSUME NEW type \in DocType, type \notin disturbed'
      PROVE  /\ \A o \in Filed' :
                    /\ document'[o].doc_type = type <=> document'[o].doc_number.prefix = type
                    /\ document'[o].doc_type = type => document'[o].doc_number.count
                                                     <= Cardinality(Counted(type)')
             /\ \A v \in Worker :
                    request'[v].op = "create_document" /\ request'[v].new.doc_type = type
                    => request'[v].new.doc_number.count <= Cardinality(Counted(type)') + 1
  <2>1. type \in DocType \ disturbed
    BY <1>2, <1>7
  <2>2. /\ \A o \in Filed :
               /\ document[o].doc_type = type <=> document[o].doc_number.prefix = type
               /\ document[o].doc_type = type
                  => document[o].doc_number.count <= Cardinality(Counted(type))
        /\ \A v \in Worker :
               request[v].op = "create_document" /\ request[v].new.doc_type = type
               => request[v].new.doc_number.count <= Cardinality(Counted(type)) + 1
    BY <2>1 DEF IInv, Numbered
  <2>3. /\ IsFiniteSet(Counted(type))
        /\ Cardinality(Counted(type)) \in Nat
    BY NextNumber
  <2>4. \A o \in Document \ {d} : o \in Counted(type)' <=> o \in Counted(type)
    BY <1>1, <1>5 DEF Counted
  <2>5. /\ d \in Counted(type) <=>
               d \in Filed /\ row.doc_type = type /\ row.doc_number.prefix = type
        /\ d \in Counted(type)' <=>
               d \in Filed' /\ now.doc_type = type /\ now.doc_number.prefix = type
        /\ Counted(type) \subseteq Document
        /\ Counted(type)' \subseteq Document
    BY <1>1, <1>5 DEF Counted, row
  <2>6. \A o \in Filed : document[o].doc_type = type => document[o].doc_number.count \in Nat
    BY DEF Filed, IInv, TablesTyped, LegalDocument, DocNumber
  <2>7. \A v \in Worker : request[v].op = "create_document"
                          => request[v].new.doc_number.count \in Nat
    BY RequestKinds DEF IInv, LetterOps, LetterChange, LetterRequest, LegalDocument, DocNumber
  <2>8. CASE req.op = "create_document" /\ now.doc_type = type
    <3>1. d \notin Counted(type) /\ Counted(type)' = Counted(type) \cup {d}
      BY <1>1, <1>5, <1>6, <2>4, <2>5, <2>8
    <3>2. Cardinality(Counted(type)') = Cardinality(Counted(type)) + 1
      BY <2>3, <3>1, FS_AddElement
    <3>3. now.doc_number.count <= Cardinality(Counted(type)) + 1
      BY <1>1, <2>2, <2>8 DEF req
    <3>4. now.doc_number.prefix = type
      BY <1>1, <1>6, <2>8
    <3>5. ASSUME NEW o \in Filed'
          PROVE  /\ document'[o].doc_type = type <=> document'[o].doc_number.prefix = type
                 /\ document'[o].doc_type = type => document'[o].doc_number.count
                                                  <= Cardinality(Counted(type)')
      <4>1. CASE o = d
        BY <1>1, <2>8, <3>2, <3>3, <3>4, <4>1
      <4>2. CASE o # d
        <5>1. o \in Filed /\ document'[o] = document[o]
          BY <1>1, <1>5, <3>5, <4>2
        <5> QED
          BY <2>2, <2>3, <2>6, <3>2, <5>1
      <4> QED
        BY <4>1, <4>2
    <3>6. ASSUME NEW v \in Worker, request'[v].op = "create_document",
                 request'[v].new.doc_type = type
          PROVE  request'[v].new.doc_number.count <= Cardinality(Counted(type)') + 1
      <4>1. request'[v] = request[v]
        BY <1>3, <3>6, Ops DEF Idle
      <4> QED
        BY <2>2, <2>3, <2>7, <3>2, <3>6, <4>1
    <3> QED
      BY <3>5, <3>6
  <2>9. CASE ~ (req.op = "create_document" /\ now.doc_type = type)
    <3>1. /\ d \in Counted(type)' <=> d \in Counted(type)
          /\ d \in Filed' =>
                 /\ now.doc_type = type <=> now.doc_number.prefix = type
                 /\ now.doc_type = type =>
                        d \in Filed /\ row.doc_type = type /\ now.doc_number = row.doc_number
      <4>0. CASE req.op = "create_numbered"
        <5>1. row = NULL /\ now.doc_type # type /\ now.doc_number.prefix # type
          BY <1>1, <1>2, <1>7, <4>0 DEF Disturbs
        <5> QED
          BY <1>5, <2>5, <5>1
      <4>1. CASE req.op = "create_document"
        BY <1>1, <1>5, <1>6, <2>5, <2>9, <4>1
      <4>2. CASE req.op = "delete_document"
        BY <1>1, <1>2, <1>5, <1>7, <2>5, <4>2 DEF Disturbs
      <4>3. CASE req.op \notin Creations \cup {"delete_document"} /\ row = NULL
        BY <1>1, <1>5, <2>5, <4>3
      <4>4. CASE req.op \notin Creations \cup {"delete_document"} /\ row # NULL
        <5>1. row.doc_type = type <=> row.doc_number.prefix = type
          BY <1>5, <2>2, <4>4 DEF row
        <5>2. CASE row.doc_type = now.doc_type /\ row.doc_number = now.doc_number
          BY <1>1, <1>5, <2>5, <4>4, <5>1, <5>2
        <5>3. CASE ~ (row.doc_type = now.doc_type /\ row.doc_number = now.doc_number)
          <6>1. row.doc_type # type /\ now.doc_type # type /\ now.doc_number.prefix # type
            BY <1>2, <1>7, <4>4, <5>3 DEF Disturbs
          <6> QED
            BY <2>5, <5>1, <6>1
        <5> QED
          BY <5>2, <5>3
      <4> QED
        BY <4>0, <4>1, <4>2, <4>3, <4>4
    <3>2. Counted(type)' = Counted(type)
      BY <1>1, <2>4, <2>5, <3>1
    <3>3. ASSUME NEW o \in Filed'
          PROVE  /\ document'[o].doc_type = type <=> document'[o].doc_number.prefix = type
                 /\ document'[o].doc_type = type => document'[o].doc_number.count
                                                  <= Cardinality(Counted(type)')
      <4>1. CASE o = d
        BY <1>1, <2>2, <3>1, <3>2, <3>3, <4>1 DEF row
      <4>2. CASE o # d
        <5>1. o \in Filed /\ document'[o] = document[o]
          BY <1>1, <1>5, <3>3, <4>2
        <5> QED
          BY <2>2, <3>2, <5>1
      <4> QED
        BY <4>1, <4>2
    <3>4. ASSUME NEW v \in Worker, request'[v].op = "create_document",
                 request'[v].new.doc_type = type
          PROVE  request'[v].new.doc_number.count <= Cardinality(Counted(type)') + 1
      <4>1. request'[v] = request[v]
        BY <1>3, <3>4, Ops DEF Idle
      <4> QED
        BY <2>2, <3>2, <3>4, <4>1
    <3> QED
      BY <3>3, <3>4
  <2> QED
    BY <2>8, <2>9
<1> QED
  BY <1>7 DEF Numbered

LEMMA NumberedKept ==
    ASSUME IInv, [Next]_vars
    PROVE  Numbered'
<1>1. ASSUME NEW w \in Worker, RecordStep(w)
      PROVE  Numbered'
  <2>1. UNCHANGED <<document, disturbed>>
    BY <1>1, RecordStepRequest DEF legalVars
  <2>2. \A v \in Worker : request'[v].op = "create_document" => request'[v] = request[v]
    BY <1>1, RecordStepRequest DEF LetterOps
  <2> QED
    BY <2>1, <2>2, NumbersStay DEF IInv
<1>2. CASE \E rows \in Boq : CreateRecord(rows)
  BY <1>2, NumbersStay DEF CreateRecord, legalVars, IInv
<1>3. CASE UNCHANGED vars
  BY <1>3, NumbersStay DEF vars, legalVars, IInv
<1> QED
  BY <1>1, <1>2, <1>3, Steps, NumberLoaded, NumberCommitted

---------------------------------------------------------------------------
\* Lines of a Client PO.

LEMMA LinesStay ==
    ASSUME LinesSound, UNCHANGED <<record, lines, overlapped>>,
           \A w \in Worker : request'[w].op \in {"update_record", "transition_record"}
                            => \/ request'[w] = request[w]
                               \/ ~ overlapped
                                  => ClientPO(request'[w].new, request'[w].newLines)
    PROVE  LinesSound'
BY DEF LinesSound, ClientPO

LEMMA LinesKept ==
    ASSUME IInv, [Next]_vars
    PROVE  LinesSound'
<1> USE DEF IInv
<1>1. ASSUME NEW w \in Worker, NEW req, RecordLoaded(w, req)
      PROVE  LinesSound'
  <2>1. request'[w] = req /\ \A v \in Worker \ {w} : request'[v] = request[v]
    BY <1>1, RequestChanged DEF RecordLoaded
  <2>2. UNCHANGED <<record, lines, overlapped>>
    BY <1>1 DEF RecordLoaded, recordVars
  <2>3. ~ overlapped /\ req.op \in {"update_record", "transition_record"}
        => ClientPO(req.new, req.newLines)
    BY <1>1 DEF RecordLoaded
  <2> QED
    BY <2>1, <2>2, <2>3, LinesStay
<1>2. ASSUME NEW w \in Worker, NEW req, LetterLoaded(w, req), UNCHANGED recordVars
      PROVE  LinesSound'
  <2>1. request'[w] = req /\ \A v \in Worker \ {w} : request'[v] = request[v]
    BY <1>2, RequestChanged DEF LetterLoaded
  <2>2. req.op \in LetterOps
    BY <1>2 DEF LetterLoaded, LetterChange, LetterRequest
  <2> QED
    BY <1>2, <2>1, <2>2, LinesStay DEF recordVars, LetterOps
<1>3. ASSUME NEW w \in Worker, UNCHANGED <<record, lines, overlapped>>,
             CommitDocument(w) \/ CommitAttachment(w) \/ Unlink(w) \/ Rollback(w)
      PROVE  LinesSound'
  <2>1. request'[w] = Idle /\ \A v \in Worker \ {w} : request'[v] = request[v]
    BY <1>3, RequestChanged
    DEF CommitDocument, CommitAttachment, Unlink, Rollback, Finished
  <2> QED
    BY <1>3, <2>1, LinesStay DEF Idle
<1>4. ASSUME NEW w \in Worker, StoreFile(w) \/ CommitRemoval(w)
      PROVE  LinesSound'
  <2>1. /\ request'[w].op \in {"stored", "unlink"}
        /\ \A v \in Worker \ {w} : request'[v] = request[v]
    BY <1>4, RequestGoesOn DEF StoreFile, CommitRemoval
  <2>2. UNCHANGED <<record, lines, overlapped>>
    BY <1>4 DEF StoreFile, CommitRemoval
  <2> QED
    BY <2>1, <2>2, LinesStay
<1>5. ASSUME NEW rows \in Boq, CreateRecord(rows)
      PROVE  LinesSound'
  <2>1. record'.status = "draft" /\ AddsUp(record', rows) /\ lines' = rows
    BY <1>5, CreatedRow
  <2>2. ClientPO(record', lines')
    BY <2>1 DEF ClientPO, EDITABLE_STATUSES
  <2>3. UNCHANGED <<request, overlapped>>
    BY <1>5 DEF CreateRecord
  <2> QED
    BY <2>2, <2>3 DEF LinesSound, ClientPO, AddsUp
<1>6. ASSUME NEW w \in Worker, CommitRecord(w)
      PROVE  LinesSound'
  <2> DEFINE req == request[w]
  <2>1. /\ RecordChange(req)
        /\ req.op \in {"update_record", "transition_record", "delete_record"}
        /\ request'[w].op \notin {"update_record", "transition_record"}
        /\ \A v \in Worker \ {w} : request'[v] = request[v]
    BY <1>6, CommitRecordRequest DEF Idle
  <2> SUFFICES ASSUME ~ overlapped'
               PROVE  /\ record' # NULL => ClientPO(record', lines')
                      /\ \A v \in Worker :
                             request'[v].op \in {"update_record", "transition_record"}
                             => ClientPO(request'[v].new, request'[v].newLines)
    BY DEF LinesSound, ClientPO, AddsUp
  <2>2. ~ overlapped /\ record = req.read /\ lines = req.readLines
    BY <1>6 DEF CommitRecord
  <2>3. /\ ~ Misses(record, req.read, req.new)
        /\ record' = Written(record, req.read, req.new)
    BY <1>6 DEF CommitRecord
  <2>4. record' = req.new
    BY <2>1, <2>2, <2>3, RecordWritten DEF TablesTyped
  <2>5. ASSUME record' # NULL
        PROVE  ClientPO(record', lines')
    <3>1. req.op \in {"update_record", "transition_record"}
      BY <2>1, <2>4, <2>5 DEF RecordChange
    <3>2. lines' = Replaced(req)
      BY <1>6, <3>1 DEF CommitRecord
    <3>3. lines' = req.newLines
      BY <2>1, <2>2, <3>2, ReplacedRows DEF TablesTyped
    <3> QED
      BY <2>2, <2>4, <3>1, <3>3 DEF LinesSound
  <2> QED
    BY <2>1, <2>2, <2>5 DEF LinesSound
<1>7. CASE UNCHANGED vars
  BY <1>7, LinesStay DEF vars, recordVars
<1> HIDE DEF IInv
<1>8. ASSUME NEW w \in Worker, RecordStep(w)
      PROVE  LinesSound'
  <2>1. CommitAttachment(w) \/ Unlink(w) \/ Rollback(w)
        => UNCHANGED <<record, lines, overlapped>>
    BY DEF CommitAttachment, Unlink, Rollback
  <2> QED
    BY <1>1, <1>3, <1>4, <1>6, <1>8, <2>1 DEF RecordStep
<1>9. ASSUME NEW w \in Worker, CommitDocument(w), UNCHANGED recordVars
      PROVE  LinesSound'
  BY <1>3, <1>9 DEF recordVars
<1> QED
  BY <1>2, <1>5, <1>7, <1>8, <1>9, Steps

---------------------------------------------------------------------------
\* Files.

\* The files in hand, worker by worker.
LEMMA Hands ==
    /\ \A f : f \in InHand({"stored", "unlink"}) <=>
              \E w \in Worker : request[w].op \in {"stored", "unlink"} /\ f \in FilesOf(w)
    /\ \A f : f \in InHand({"stored", "unlink"})' <=>
              \E w \in Worker : request'[w].op \in {"stored", "unlink"} /\ f \in FilesOf(w)'
    /\ \A w \in Worker : FilesOf(w) \subseteq InHand(FileOps)
BY DEF InHand, FilesOf, FileOps

\* A step that leaves the files alone, and in hand no upload that was not there before.
LEMMA FilesStay ==
    ASSUME FilesApart, FilesAttached, UNCHANGED <<attachment, disk>>, orphaned \subseteq orphaned',
           NEW w \in Worker,
           \A v \in Worker \ {w} : request'[v] = request[v],
           FilesOf(w)' \subseteq FilesOf(w) \/ FilesOf(w)' \subseteq attachment,
           request'[w].op \notin {"upload", "stored", "unlink"},
           request[w].op \in {"stored", "unlink"} => FilesOf(w) \subseteq orphaned'
    PROVE  FilesApart' /\ FilesAttached'
<1>1. \A v \in Worker \ {w} : FilesOf(v)' = FilesOf(v)
  BY DEF FilesOf
<1> HIDE DEF FilesOf
<1>2. FilesApart'
  BY <1>1 DEF FilesApart
<1>3. FilesAttached'
  BY <1>1, Hands DEF FilesAttached
<1> QED
  BY <1>2, <1>3

LEMMA FilesKept ==
    ASSUME IInv, [Next]_vars
    PROVE  FilesApart' /\ FilesAttached'
<1> USE DEF IInv
<1>1. ASSUME NEW w \in Worker, NEW req, LetterLoaded(w, req), UNCHANGED recordVars
      PROVE  FilesApart' /\ FilesAttached'
  <2>1. request'[w] = req /\ \A v \in Worker \ {w} : request'[v] = request[v]
    BY <1>1, RequestChanged DEF LetterLoaded
  <2>2. req.op \in LetterOps
    BY <1>1 DEF LetterLoaded, LetterChange, LetterRequest
  <2>3. FilesOf(w)' = {} /\ request'[w].op \notin FileOps
    BY <2>1, <2>2, Ops DEF FilesOf
  <2>4. request[w].op \notin {"stored", "unlink"}
    BY <1>1 DEF LetterLoaded, Idle
  <2> QED
    BY <1>1, <2>1, <2>3, <2>4, FilesStay DEF recordVars, FileOps
<1>2. ASSUME NEW w \in Worker, UNCHANGED <<attachment, disk>>, orphaned \subseteq orphaned',
             request'[w] = Idle, \A v \in Worker \ {w} : request'[v] = request[v],
             request[w].op \in {"stored", "unlink"} => request[w].files \subseteq orphaned'
      PROVE  FilesApart' /\ FilesAttached'
  <2>1. FilesOf(w)' = {} /\ request'[w].op \notin FileOps
    BY <1>2, Ops DEF FilesOf, Idle
  <2> QED
    BY <1>2, <2>1, FilesStay DEF FilesOf, FileOps
<1>3. ASSUME NEW w \in Worker, CommitDocument(w), UNCHANGED recordVars
      PROVE  FilesApart' /\ FilesAttached'
  <2>1. request'[w] = Idle /\ \A v \in Worker \ {w} : request'[v] = request[v]
    BY <1>3, RequestChanged DEF CommitDocument, Finished
  <2> QED
    BY <1>2, <1>3, <2>1 DEF CommitDocument, recordVars
<1>4. ASSUME NEW w \in Worker, Rollback(w)
      PROVE  FilesApart' /\ FilesAttached'
  <2>1. request'[w] = Idle /\ \A v \in Worker \ {w} : request'[v] = request[v]
    BY <1>4, RequestChanged DEF Rollback, Finished
  <2> QED
    BY <1>2, <1>4, <2>1 DEF Rollback
<1>5. ASSUME NEW w \in Worker, NEW req, RecordLoaded(w, req)
      PROVE  FilesApart' /\ FilesAttached'
  <2>1. request'[w] = req /\ \A v \in Worker \ {w} : request'[v] = request[v]
    BY <1>5, RequestChanged DEF RecordLoaded
  <2>2. /\ UNCHANGED <<attachment, disk, orphaned>>
        /\ request[w].op \notin FileOps
        /\ req.op \notin {"stored", "unlink"}
    BY <1>5, Ops DEF RecordLoaded, recordVars, Idle
  <2>3. CASE req.op # "upload"
    <3>1. FilesOf(w)' \subseteq attachment
      BY <1>5, <2>1, <2>3 DEF RecordLoaded, FilesOf, FileOps
    <3> QED
      BY <2>1, <2>2, <2>3, <3>1, FilesStay DEF FileOps
  <2>4. CASE req.op = "upload"
    <3>1. /\ FilesOf(w)' \cap attachment = {}
          /\ \A v \in Worker \ {w} : FilesOf(v)' = FilesOf(v) /\ FilesOf(w)' \cap FilesOf(v)' = {}
      BY <1>5, <2>1, <2>4, Hands DEF RecordLoaded, FilesOf, FileOps
    <3> HIDE DEF FilesOf
    <3>2. FilesApart'
      BY <2>1, <2>2, <2>4, <3>1 DEF FilesApart
    <3>3. FilesAttached'
      BY <2>1, <2>2, <3>1, Hands DEF FilesAttached, FileOps
    <3> QED
      BY <3>2, <3>3
  <2> QED
    BY <2>3, <2>4
<1>6. ASSUME NEW w \in Worker, StoreFile(w)
      PROVE  FilesApart' /\ FilesAttached'
  <2>1. /\ request[w].op = "upload"
        /\ request'[w].op = "stored"
        /\ request'[w].files = request[w].files
        /\ \A v \in Worker \ {w} : request'[v] = request[v]
    BY <1>6, RequestGoesOn DEF StoreFile
  <2>2. \A v \in Worker : FilesOf(v)' = FilesOf(v)
    BY <2>1 DEF FilesOf, FileOps
  <2>3. disk' = disk \cup FilesOf(w) /\ UNCHANGED <<attachment, orphaned>>
    BY <1>6, <2>1 DEF StoreFile, FilesOf, FileOps
  <2> HIDE DEF FilesOf
  <2>4. FilesApart'
    BY <2>1, <2>2, <2>3 DEF FilesApart
  <2>5. FilesAttached'
    BY <2>1, <2>2, <2>3, Hands DEF FilesAttached
  <2> QED
    BY <2>4, <2>5
<1>7. ASSUME NEW w \in Worker, CommitAttachment(w)
      PROVE  FilesApart' /\ FilesAttached'
  <2>1. /\ request[w].op = "stored"
        /\ request'[w] = Idle
        /\ \A v \in Worker \ {w} : request'[v] = request[v]
    BY <1>7, RequestChanged DEF CommitAttachment, Attachable, Finished
  <2>2. /\ FilesOf(w)' = {}
        /\ request'[w].op \notin FileOps
        /\ \A v \in Worker \ {w} : FilesOf(v)' = FilesOf(v)
    BY <2>1, Ops DEF FilesOf, Idle
  <2>3. attachment' = attachment \cup FilesOf(w) /\ UNCHANGED <<disk, orphaned>>
    BY <1>7, <2>1 DEF CommitAttachment, FilesOf, FileOps
  <2> HIDE DEF FilesOf
  <2>4. FilesOf(w) \subseteq disk /\ \A v \in Worker \ {w} : FilesOf(w) \cap FilesOf(v) = {}
    BY <2>1 DEF FilesApart
  <2>5. FilesApart'
    BY <2>1, <2>2, <2>3, <2>4 DEF FilesApart, FileOps
  <2>6. FilesAttached'
    BY <2>1, <2>2, <2>3, <2>4, Hands DEF FilesAttached
  <2> QED
    BY <2>5, <2>6
<1>8. ASSUME NEW w \in Worker, CommitRemoval(w)
      PROVE  FilesApart' /\ FilesAttached'
  <2>1. /\ request[w].op = "delete_attachment"
        /\ request'[w].op = "unlink"
        /\ request'[w].files = request[w].files
        /\ \A v \in Worker \ {w} : request'[v] = request[v]
    BY <1>8, RequestGoesOn DEF CommitRemoval
  <2>2. \A v \in Worker : FilesOf(v)' = FilesOf(v)
    BY <2>1 DEF FilesOf, FileOps
  <2>3. attachment' = attachment \ FilesOf(w) /\ UNCHANGED <<disk, orphaned>>
    BY <1>8, <2>1 DEF CommitRemoval, FilesOf, FileOps
  <2> HIDE DEF FilesOf
  <2>4. FilesApart'
    BY <2>1, <2>2, <2>3 DEF FilesApart
  <2>5. FilesAttached'
    BY <2>1, <2>2, <2>3, Hands DEF FilesAttached
  <2> QED
    BY <2>4, <2>5
<1>9. ASSUME NEW w \in Worker, Unlink(w)
      PROVE  FilesApart' /\ FilesAttached'
  <2>1. /\ request[w].op \in {"stored", "unlink"}
        /\ request'[w] = Idle
        /\ \A v \in Worker \ {w} : request'[v] = request[v]
    BY <1>9, RequestChanged DEF Unlink, Finished
  <2>2. /\ FilesOf(w)' = {}
        /\ request'[w].op \notin FileOps
        /\ \A v \in Worker \ {w} : FilesOf(v)' = FilesOf(v)
    BY <2>1, Ops DEF FilesOf, Idle
  <2>3. disk' = disk \ FilesOf(w) /\ UNCHANGED <<attachment, orphaned>>
    BY <1>9, <2>1 DEF Unlink, FilesOf, FileOps
  <2> HIDE DEF FilesOf
  <2>4. /\ FilesOf(w) \cap attachment = {}
        /\ \A v \in Worker \ {w} : request[v].op = "stored" => FilesOf(w) \cap FilesOf(v) = {}
    BY <2>1 DEF FilesApart
  <2>5. FilesApart'
    BY <2>1, <2>2, <2>3, <2>4 DEF FilesApart, FileOps
  <2>6. FilesAttached'
    BY <2>1, <2>2, <2>3, <2>4, Hands DEF FilesAttached
  <2> QED
    BY <2>5, <2>6
<1>10. ASSUME NEW w \in Worker, CommitRecord(w)
       PROVE  FilesApart' /\ FilesAttached'
  <2>1. /\ request[w].op \in {"update_record", "transition_record", "delete_record"}
        /\ request[w].op = "delete_record" =>
               /\ request'[w].op = "unlink"
               /\ request'[w].files = request[w].files
        /\ request[w].op # "delete_record" => request'[w] = Idle
        /\ \A v \in Worker \ {w} : request'[v] = request[v]
    BY <1>10, CommitRecordRequest
  <2>2. CASE request[w].op # "delete_record"
    <3>1. UNCHANGED <<attachment, disk, orphaned>>
      BY <1>10, <2>2 DEF CommitRecord
    <3> QED
      BY <1>2, <2>1, <2>2, <3>1
  <2>3. CASE request[w].op = "delete_record"
    <3>1. \A v \in Worker : FilesOf(v)' = FilesOf(v)
      BY <2>1, <2>3 DEF FilesOf, FileOps
    <3>2. /\ attachment' = {}
          /\ orphaned' = orphaned \cup (attachment \ FilesOf(w))
          /\ UNCHANGED disk
      BY <1>10, <2>3 DEF CommitRecord, FilesOf, FileOps
    <3> HIDE DEF FilesOf
    <3>3. FilesApart'
      BY <2>1, <2>3, <3>1, <3>2 DEF FilesApart
    <3>4. FilesAttached'
      BY <2>1, <2>3, <3>1, <3>2, Hands DEF FilesAttached
    <3> QED
      BY <3>3, <3>4
  <2> QED
    BY <2>2, <2>3
<1>11. CASE UNCHANGED <<attachment, disk, orphaned, request>>
  BY <1>11 DEF FilesApart, FilesAttached, FilesOf, InHand
<1>12. CASE \E rows \in Boq : CreateRecord(rows)
  BY <1>11, <1>12 DEF CreateRecord
<1>13. CASE UNCHANGED vars
  BY <1>11, <1>13 DEF vars, recordVars
<1> HIDE DEF IInv
<1>14. CASE \E w \in Worker : RecordStep(w)
  BY <1>4, <1>5, <1>6, <1>7, <1>8, <1>9, <1>10, <1>14 DEF RecordStep
<1> QED
  BY <1>1, <1>3, <1>12, <1>13, <1>14, Steps

---------------------------------------------------------------------------
\* The theorems.

LEMMA Initially == Init => IInv
<1> SUFFICES ASSUME Init PROVE IInv
  OBVIOUS
<1>1. TablesTyped
  BY DEF Init, LegalInit, RecordInit, TablesTyped, NoLines, Rows
<1>2. RequestsTyped /\ \A w \in Worker : request[w] = Idle
  BY DEF Init, RequestsTyped
<1>3. Numbered
  BY <1>2 DEF Init, LegalInit, Numbered, Filed, Idle
<1>4. LinesSound
  BY <1>2 DEF Init, RecordInit, LinesSound, Idle
<1>5. FilesApart /\ FilesAttached
  BY <1>2 DEF Init, RecordInit, FilesApart, FilesAttached, Idle
<1> QED
  BY <1>1, <1>2, <1>3, <1>4, <1>5 DEF IInv

\* What the workers hold in hand always fits the tables: the inductive invariant.
THEOREM Inductive == Spec => []IInv
<1>1. IInv /\ [Next]_vars => IInv'
  BY TablesKept, RequestsKept, NumberedKept, LinesKept, FilesKept DEF IInv
<1> QED
  BY <1>1, Initially, PTL DEF Spec

\* The next number of a type is free until a letter of the type or with its prefix was
\* created under a number of the creator's, deleted, or given another number or type
\* (_next_doc_number counts letters).
THEOREM NextNumberFreeHolds == Spec => []NextNumberFree
<1>1. IInv => NextNumberFree
  <2> SUFFICES ASSUME IInv PROVE NextNumberFree
    OBVIOUS
  <2>1. \A d \in Filed : document[d] \in LegalDocument
    BY DEF IInv, TablesTyped, Filed
  <2>2. ASSUME NEW type \in DocType \ disturbed, NEW o \in Filed,
               document[o].doc_number = _next_doc_number(type)
        PROVE  FALSE
    <3>1. /\ document[o].doc_number.prefix = type
          /\ document[o].doc_number.count = Cardinality(Counted(type)) + 1
          /\ Cardinality(Counted(type)) \in Nat
      BY <2>2, NextNumber
    <3>2. document[o].doc_number.count <= Cardinality(Counted(type))
      BY <3>1 DEF IInv, Numbered
    <3> QED
      BY <3>1, <3>2
  <2> QED
    BY <2>1, <2>2 DEF NextNumberFree, LegalTypeOK, Unused
<1> QED
  BY <1>1, Inductive, PTL

\* The workflow history of a record leads through the state machine to its status, also
\* when transitions overlap (transition_record writes both).
THEOREM HistoryExplains == Spec => []HistoryExplainsStatus
<1>1. IInv => HistoryExplainsStatus
  <2> SUFFICES ASSUME IInv PROVE HistoryExplainsStatus
    OBVIOUS
  <2>1. RecordTypeOK
    BY DEF IInv, TablesTyped, RecordTypeOK, Rows
  <2>2. record # NULL => Explained(record)
    BY DEF IInv, TablesTyped
  <2> QED
    BY <2>1, <2>2 DEF HistoryExplainsStatus, Explained, Follows, Last
<1> QED
  BY <1>1, Inductive, PTL

\* The lines of a Client PO add up to its amount, unless two changes overlapped
\* (_validate_client_po).
THEOREM ClientPOSound == Spec => []ClientPOAddsUp
<1>1. IInv => ClientPOAddsUp
  BY DEF IInv, LinesSound, ClientPO, ClientPOAddsUp
<1> QED
  BY <1>1, Inductive, PTL

\* Every attachment has its file, whatever crashes (delete_operational_attachment
\* unlinks after the commit, the upload writes before it).
THEOREM FilesAttachedHolds == Spec => []FilesAttached
<1>1. IInv => FilesAttached
  BY DEF IInv
<1> QED
  BY <1>1, Inductive, PTL

\* A signed letter keeps its row, unless a handler commits that loaded it unsigned.
THEOREM SignedKeptHolds == Spec => SignedKept
<1> DEFINE Kept ==
        \A d \in Filed :
            document[d].status = "signed" /\ document'[d] # document[d]
            => \E w \in Worker :
                   LET req == request[w]
                   IN  /\ req # Idle
                       /\ request'[w] = Idle
                       /\ req.document = d
                       /\ \/ req.read.status \in {"draft", "rejected"}
                          \/ /\ req.read.status = "submitted"
                             /\ document'[d].content = document[d].content
                             /\ document'[d].doc_number = document[d].doc_number
<1>1. ASSUME IInv, [Next]_vars
      PROVE  Kept
  <2>1. CASE UNCHANGED document
    BY <2>1
  <2>2. ASSUME NEW w \in Worker, CommitDocument(w)
        PROVE  Kept
    <3> DEFINE req == request[w]
               d == req.document
               row == document[d]
    <3>0. TablesTyped /\ RequestsTyped
      BY <1>1 DEF IInv
    <3>1. /\ LetterChange(req)
          /\ \A o \in Document \ {d} : document'[o] = document[o]
          /\ req.op \in Creations => row = NULL
          /\ row # NULL /\ req.op \in {"sign_document", "reject_document"} =>
                 /\ document'[d].content = row.content
                 /\ document'[d].doc_number = row.doc_number
      BY <2>2, <3>0, CommitDocumentRow
    <3>2. request'[w] = Idle
      <4>1. request' = [request EXCEPT ![w] = Idle]
        BY <2>2 DEF CommitDocument, Finished
      <4> QED
        BY <3>0, <4>1, RequestChanged
    <3>3. req.op \in LetterOps /\ req # Idle
      BY <3>1, Ops DEF LetterChange, LetterRequest, Idle
    <3>4. \/ req.op \in Creations
          \/ req.read.status \in {"draft", "rejected"}
          \/ /\ req.read.status = "submitted"
             /\ req.op \in {"sign_document", "reject_document"}
      BY <3>1, <3>3 DEF LetterChange, LetterOps
    <3> HIDE DEF req, d, row
    <3> SUFFICES ASSUME NEW o \in Filed, document[o].status = "signed",
                        document'[o] # document[o]
                 PROVE  /\ o = d
                        /\ \/ req.read.status \in {"draft", "rejected"}
                           \/ /\ req.read.status = "submitted"
                              /\ document'[d].content = document[d].content
                              /\ document'[d].doc_number = document[d].doc_number
      BY <3>2, <3>3 DEF req, d
    <3>5. o = d /\ row # NULL
      BY <3>1 DEF Filed, row
    <3> QED
      BY <3>1, <3>4, <3>5 DEF row
  <2>3. \/ UNCHANGED document
        \/ \E w \in Worker : CommitDocument(w)
    BY <1>1, Steps, RecordStepRequest
    DEF LetterLoaded, legalVars, vars, CreateRecord
  <2> HIDE DEF Kept
  <2> QED
    BY <2>1, <2>2, <2>3
<1>2. IInv /\ [Next]_vars => [Kept]_<<document, request>>
  BY <1>1
<1> QED
  BY <1>2, Inductive, PTL DEF Spec, SignedKept

\* The locked columns, lines and files of a submitted record change only by a handler
\* that loaded it before the submission, with its deletion after a cancellation, or, the
\* lines, because it is no Client PO.
THEOREM SubmittedKept == Spec => SubmittedRecordKept
<1> DEFINE Changed ==
        /\ record # NULL
        /\ record.status \notin EDITABLE_STATUSES
        /\ \/ <<lines, attachment>>' # <<lines, attachment>>
           \/ record' = NULL
           \/ record'.amount # record.amount
           \/ record'.client_po # record.client_po
    Excused(w) ==
        /\ request'[w] # request[w]
        /\ request[w] # Idle
        /\ \/ request[w].read.status \in EDITABLE_STATUSES
           \/ /\ request[w].op = "delete_record"
              /\ request[w].read.status \in DELETABLE_STATUSES
           \/ /\ request[w].op = "update_record"
              /\ ~ request[w].read.client_po
              /\ <<record, attachment>>' = <<record, attachment>>
<1>1. ASSUME IInv, [Next]_vars, Changed
      PROVE  \E w \in Worker : Excused(w)
  <2>1. ASSUME UNCHANGED <<record, lines, attachment>>
        PROVE  FALSE
    BY <1>1, <2>1
  <2>2. ASSUME NEW rows \in Boq, CreateRecord(rows)
        PROVE  FALSE
    BY <1>1, <2>2 DEF CreateRecord, IInv, TablesTyped
  <2>3. ASSUME NEW w \in Worker, CommitRecord(w)
        PROVE  Excused(w)
    <3> DEFINE req == request[w]
    <3>1. /\ RecordChange(req)
          /\ req.op \in {"update_record", "transition_record", "delete_record"}
          /\ request'[w] # req
          /\ req # Idle
      BY <1>1, <2>3, CommitRecordRequest DEF Idle, IInv
    <3>2. /\ ~ Misses(record, req.read, req.new)
          /\ record' = Written(record, req.read, req.new)
          /\ req.op # "delete_record" => lines' = Replaced(req) /\ UNCHANGED attachment
      BY <2>3 DEF CommitRecord
    <3>3. CASE req.op = "delete_record"
      BY <3>1, <3>3 DEF RecordChange
    <3>4. CASE req.op = "update_record" /\ req.read.status \notin EDITABLE_STATUSES
      <4>1. /\ req.new = req.read
            /\ req.read.client_po => req.newLines = req.readLines
        BY <3>1, <3>4 DEF RecordChange
      <4>2. record' = record
        BY <3>2, <4>1 DEF Written
      <4>3. req.read.client_po => UNCHANGED lines
        BY <1>1, <3>1, <3>2, <3>4, <4>1, ReplacedRows DEF IInv, TablesTyped
      <4>4. ~ req.read.client_po
        BY <1>1, <2>1, <3>2, <3>4, <4>2, <4>3
      <4> QED
        BY <3>1, <3>2, <3>4, <4>2, <4>4
    <3>5. CASE req.op = "transition_record"
      <4>1. UNCHANGED <<lines, attachment>>
        <5>1. req.newLines = req.readLines
          BY <3>1, <3>5 DEF RecordChange
        <5> QED
          BY <1>1, <3>1, <3>2, <3>5, <5>1, ReplacedRows DEF IInv, TablesTyped
      <4>2. /\ record' # NULL
            /\ record'.client_po = record.client_po
            /\ record'.amount = record.amount
        BY <1>1, <3>1, <3>2, <3>5, RecordWritten DEF IInv, TablesTyped
      <4> QED
        BY <1>1, <4>1, <4>2
    <3> QED
      BY <3>1, <3>3, <3>4, <3>5
  <2>4. ASSUME NEW w \in Worker, CommitAttachment(w) \/ CommitRemoval(w)
        PROVE  Excused(w)
    <3>1. request[w].op \in {"stored", "delete_attachment"}
      BY <2>4 DEF CommitAttachment, Attachable, CommitRemoval
    <3>2. RecordChange(request[w]) /\ request[w] # Idle
      BY <1>1, <3>1, RequestKinds DEF RecordOps, Idle, IInv
    <3>3. request'[w].op \in {"idle", "unlink"}
      <4>1. RequestsTyped
        BY <1>1 DEF IInv
      <4>2. CASE CommitAttachment(w)
        <5>1. request' = [request EXCEPT ![w] = Idle]
          BY <4>2 DEF CommitAttachment, Finished
        <5>2. request'[w] = Idle
          BY <4>1, <5>1, RequestChanged
        <5> QED
          BY <5>2 DEF Idle
      <4>3. CASE CommitRemoval(w)
        BY <4>1, <4>3, RequestGoesOn DEF CommitRemoval
      <4> QED
        BY <2>4, <4>2, <4>3
    <3> QED
      BY <3>1, <3>2, <3>3 DEF RecordChange
  <2>5. ASSUME NEW w \in Worker,
               StoreFile(w) \/ Unlink(w) \/ Rollback(w) \/ \E req : RecordLoaded(w, req)
        PROVE  FALSE
    BY <2>1, <2>5 DEF StoreFile, Unlink, Rollback, RecordLoaded, recordVars
  <2>6. CASE UNCHANGED recordVars \/ UNCHANGED vars
    BY <2>1, <2>6 DEF recordVars, vars
  <2> HIDE DEF Changed, Excused
  <2>7. CASE \E w \in Worker : RecordStep(w)
    BY <2>3, <2>4, <2>5, <2>7 DEF RecordStep
  <2> QED
    BY <1>1, <2>2, <2>6, <2>7, Steps
<1>2. IInv /\ [Next]_vars => [Changed => \E w \in Worker : Excused(w)]_<<recordVars, request>>
  BY <1>1
<1> QED
  BY <1>2, Inductive, PTL DEF Spec, SubmittedRecordKept

---------------------------------------------------------------------------
\* One handler at a time: while one is at work, it makes the next step.
Serially == \A w \in Worker : request[w] # Idle => request'[w] # request[w]

ChangeOps == {"update_record", "transition_record", "delete_record"}

\* The record and the lines that a handler about to commit loaded are those of the tables.
NobodyLate ==
    /\ ~ overlapped
    /\ \A w \in Worker : request[w].op \in ChangeOps =>
           record = request[w].read /\ lines = request[w].readLines

LEMMA NobodyLateKept ==
    ASSUME RequestsTyped, NobodyLate, [Next]_vars, [Serially]_vars
    PROVE  NobodyLate'
<1>1. CASE UNCHANGED vars
  BY <1>1 DEF vars, recordVars, NobodyLate
<1> SUFFICES ASSUME Next, Serially
             PROVE  NobodyLate'
  BY <1>1
<1> DEFINE Moved(w, op) == [request EXCEPT ![w].op = op]
<1>a. DOMAIN request = Worker
  BY DEF RequestsTyped
<1>b. ~ overlapped
  BY DEF NobodyLate
<1>c. ASSUME NEW w \in Worker, NEW op \in {"stored", "unlink"},
             request' = Moved(w, op)
      PROVE  \A v \in Worker : request'[v] = request[v] \/ request'[v].op \notin ChangeOps
  <2>1. "op" \in DOMAIN request[w]
    BY DEF RequestsTyped, Idle, LetterRequest, RecordRequest
  <2>2. request'[w].op = op
    BY <1>a, <1>c, <2>1
  <2>3. \A v \in Worker : v # w => request'[v] = request[v]
    BY <1>a, <1>c
  <2>4. op \notin ChangeOps
    BY <1>c DEF ChangeOps
  <2> QED
    BY <2>2, <2>3, <2>4
<1> HIDE DEF Moved
<1>2. ASSUME ~ overlapped',
             \A v \in Worker : request'[v] = request[v] \/ request'[v].op \notin ChangeOps
      PROVE  NobodyLate'
  <2>1. \A v \in Worker : request'[v].op \notin ChangeOps
    <3> SUFFICES ASSUME NEW v \in Worker, request'[v].op \in ChangeOps
                 PROVE  FALSE
      OBVIOUS
    <3>1. request'[v] = request[v] /\ request[v] # Idle
      BY <1>2 DEF Idle, ChangeOps
    <3> QED
      BY <3>1 DEF Serially
  <2> QED
    BY <1>2, <2>1 DEF NobodyLate
<1>3. ASSUME NEW w \in Worker, NEW req, request' = [request EXCEPT ![w] = req],
             req.op \notin ChangeOps, ~ overlapped'
      PROVE  NobodyLate'
  <2>1. \A v \in Worker : request'[v] = request[v] \/ request'[v].op \notin ChangeOps
    BY <1>3, <1>a
  <2> QED
    BY <1>2, <1>3, <2>1
<1>4. ASSUME NEW w \in Worker, NEW op, NEW new, NEW rows, NEW files,
             HandleRecord(w, op, new, rows, files)
      PROVE  NobodyLate'
  <2>1. PICK req : /\ req.read = record /\ req.readLines = lines
                   /\ request' = [request EXCEPT ![w] = req]
    BY <1>4, Zenon DEF HandleRecord
  <2>2. request'[w] = req /\ \A v \in Worker : v # w => request'[v] = request[v]
    BY <2>1, <1>a
  <2>3. UNCHANGED <<record, lines, overlapped>>
    BY <1>4 DEF HandleRecord, recordVars
  <2> QED
    BY <2>1, <2>2, <2>3 DEF NobodyLate
<1>5. ASSUME NEW w \in Worker, UpdateRecord(w) \/ TransitionRecord(w) \/ DeleteRecord(w)
                               \/ Upload(w) \/ DeleteAttachment(w)
      PROVE  NobodyLate'
  <2>1. \E op, new, rows, files : HandleRecord(w, op, new, rows, files)
    BY <1>5, Zenon DEF UpdateRecord, TransitionRecord, DeleteRecord, Upload, DeleteAttachment
  <2> QED
    BY <1>4, <2>1
<1>6. ASSUME NEW w \in Worker, CommitRecord(w)
      PROVE  NobodyLate'
  <2>1. /\ request[w].op \in ChangeOps
        /\ overlapped' = (overlapped \/ record # request[w].read \/ lines # request[w].readLines)
    BY <1>6 DEF CommitRecord, ChangeOps
  <2>2. ~ overlapped'
    BY <2>1 DEF NobodyLate
  <2>3. request' = Moved(w, "unlink") \/ request' = [request EXCEPT ![w] = Idle]
    BY <1>6 DEF CommitRecord, Finished, Moved
  <2>4. Idle.op \notin ChangeOps
    BY DEF Idle, ChangeOps
  <2> QED
    BY <1>2, <1>3, <1>c, <2>2, <2>3, <2>4
<1>7. ASSUME NEW w \in Worker,
             \/ StoreFile(w) \/ CommitAttachment(w) \/ CommitRemoval(w) \/ Unlink(w) \/ Rollback(w)
      PROVE  NobodyLate'
  <2>1. ~ overlapped'
    BY <1>7, <1>b DEF StoreFile, CommitAttachment, CommitRemoval, Unlink, Rollback
  <2>2. \/ request' = Moved(w, "stored") \/ request' = Moved(w, "unlink")
        \/ request' = [request EXCEPT ![w] = Idle]
    BY <1>7 DEF StoreFile, CommitAttachment, CommitRemoval, Unlink, Rollback, Finished, Moved
  <2>3. Idle.op \notin ChangeOps
    BY DEF Idle, ChangeOps
  <2> QED
    BY <1>2, <1>3, <1>c, <2>1, <2>2, <2>3
<1>8. ASSUME NEW rows, CreateRecord(rows)
      PROVE  NobodyLate'
  BY <1>2, <1>8, <1>b DEF CreateRecord
<1>9. ASSUME LegalNext, UNCHANGED recordVars
      PROVE  NobodyLate'
  <2>1. ~ overlapped'
    BY <1>9, <1>b DEF recordVars
  <2>2. PICK w \in Worker :
            \/ CommitDocument(w)
            \/ \E d \in Document :
                   \/ CreateDocument(w, d) \/ CreateNumbered(w, d) \/ UpdateDocument(w, d)
                   \/ SubmitDocument(w, d) \/ SignDocument(w, d) \/ RejectDocument(w, d)
                   \/ DeleteDocument(w, d)
    BY <1>9, Zenon DEF LegalNext, Filed
  <2>3. CASE CommitDocument(w)
    <3>1. request' = [request EXCEPT ![w] = Idle]
      BY <2>3 DEF CommitDocument, Finished
    <3> QED
      BY <1>3, <2>1, <3>1 DEF Idle, ChangeOps
  <2>4. CASE ~ CommitDocument(w)
    <3> PICK d \in Document :
            \/ CreateDocument(w, d) \/ CreateNumbered(w, d) \/ UpdateDocument(w, d)
            \/ SubmitDocument(w, d) \/ SignDocument(w, d) \/ RejectDocument(w, d)
            \/ DeleteDocument(w, d)
      BY <2>2, <2>4
    <3>1. \E op, new : /\ HandleDocument(w, op, d, new)
                       /\ op \in LetterOps
      BY Zenon DEF CreateDocument, CreateNumbered, UpdateDocument, SubmitDocument,
                   SignDocument, RejectDocument, DeleteDocument, LetterOps
    <3>2. PICK req : req.op \notin ChangeOps /\ request' = [request EXCEPT ![w] = req]
      <4>1. PICK op, new : /\ HandleDocument(w, op, d, new)
                           /\ op \in LetterOps
        BY <3>1
      <4> DEFINE req == [op |-> op, document |-> d, read |-> document[d], new |-> new]
      <4>2. req.op \notin ChangeOps
        BY <4>1 DEF ChangeOps, LetterOps
      <4>3. request' = [request EXCEPT ![w] = req]
        BY <4>1 DEF HandleDocument
      <4> HIDE DEF req
      <4> QED
        BY <4>2, <4>3
    <3> QED
      BY <1>3, <2>1, <3>2
  <2> QED
    BY <2>3, <2>4
<1> QED
  BY <1>5, <1>6, <1>7, <1>8, <1>9 DEF Next, RecordNext, FileNext

\* ClientPOAddsUp without its exception.
OrderAddsUp ==
    record # NULL /\ record.client_po =>
        /\ AddsUp(record, lines)
        /\ record.status \notin EDITABLE_STATUSES \cup {"cancelled"} => Drawn(lines) # {}

\* The exception of ClientPOAddsUp is the overlap of handlers and nothing else: one at a
\* time, a submitted Client PO has lines that add up to its amount (_validate_client_po).
THEOREM SerialOrderAddsUp == Spec /\ [][Serially]_vars => []OrderAddsUp
<1>1. Init => NobodyLate
  BY DEF Init, RecordInit, NobodyLate, Idle, ChangeOps
<1>2. IInv => RequestsTyped
  BY DEF IInv
<1>3. IInv /\ NobodyLate /\ [Next]_vars /\ [Serially]_vars => NobodyLate'
  BY <1>2, NobodyLateKept
<1>4. ClientPOAddsUp /\ NobodyLate => OrderAddsUp
  BY DEF NobodyLate, ClientPOAddsUp, OrderAddsUp
<1> QED
  BY <1>1, <1>3, <1>4, Inductive, ClientPOSound, PTL DEF Spec
===============================================================================
