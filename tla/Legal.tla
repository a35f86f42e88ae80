--------------------------------- MODULE Legal ---------------------------------
(***************************************************************************)
(* Letters on the company's paper (app/routers/legal.py): their numbers,   *)
(* and the way from draft to signed.  No handler locks the document.       *)
(***************************************************************************)
EXTENDS Naturals, FiniteSets, Staffing

CONSTANTS
    Document,      \* ids of legal_documents
    DocType,
    Content,       \* what a letter says
    MaxAudit       \* bound: edits and deletions of letters, numbers given, edits of records

ASSUME LegalAssumption == IsFiniteSet(Document) /\ NULL \notin Document /\ MaxAudit \in Nat

VARIABLES
    document,      \* [Document -> row, or NULL]
    request,       \* [Worker -> the handler it runs]
    audited,       \* number of edits
    disturbed      \* auxiliary: types whose numbers no longer run from one

legalVars == <<document, disturbed>>

DocStatus == {"draft", "submitted", "signed", "rejected"}

\* The number of a letter: the prefix of a type and a year, and a count.
DocNumber == [prefix : DocType, count : Nat]

\* Bound: the numbers that are given by hand.
GivenNumber == [prefix : DocType, count : 1..Cardinality(Document)]

\* The creator is left out: it, or an administrator, is always there to edit its letter.
LegalDocument ==
    [doc_number : DocNumber, doc_type : DocType, status : DocStatus, content : Content,
     signed_by : User \cup {NULL}]

ASSUME LetterAssumption == NULL \notin LegalDocument

_SIGN_ROLES == {"MD", "PM", "PROJECT_CONTROL", "SUPER_ADMIN"}

WriteAudit == audited < MaxAudit /\ audited' = audited + 1

Finished(w) == [request EXCEPT ![w] = Idle]

Filed == {d \in Document : document[d] # NULL}

---------------------------------------------------------------------------
\* Mutant: the count leaves rejected letters out.
_next_doc_number_live(type) ==
    [prefix |-> type,
     count |-> Cardinality({d \in Filed : /\ document[d].doc_type = type
                                          /\ document[d].doc_number.prefix = type
                                          /\ document[d].status # "rejected"}) + 1]

\* The letters of the type that carry its prefix are counted.
_next_doc_number(type) ==
    [prefix |-> type,
     count |-> Cardinality({d \in Filed : /\ document[d].doc_type = type
                                          /\ document[d].doc_number.prefix = type}) + 1]

\* doc_number is unique.
Unused(d, number) == \A o \in Filed \ {d} : document[o].doc_number # number

HandleDocument(w, op, d, new) ==
    /\ request[w] = Idle
    /\ request' = [request EXCEPT ![w] =
           [op |-> op, document |-> d, read |-> document[d], new |-> new]]
    /\ UNCHANGED <<legalVars, audited>>

NewLetter(number, type, content) ==
    [doc_number |-> number, doc_type |-> type, status |-> "draft", content |-> content,
     signed_by |-> NULL]

\* create_document, with the next number.
CreateDocument(w, d) ==
    /\ document[d] = NULL
    /\ \E type \in DocType, content \in Content :
           HandleDocument(w, "create_document", d,
               NewLetter(_next_doc_number(type), type, content))

\* create_document, with a number of the creator's: any prefix and any count.
CreateNumbered(w, d) ==
    /\ document[d] = NULL
    /\ audited < MaxAudit
    /\ \E type \in DocType, content \in Content, number \in GivenNumber :
           HandleDocument(w, "create_numbered", d, NewLetter(number, type, content))

\* Mutant: a submitted letter may be edited until it is signed.
EditableUnsigned(row) == row.status # "signed"

Editable(row) == row.status \in {"draft", "rejected"}

\* update_document may set any column, the number too; a rejected letter is a draft again.
UpdateDocument(w, d) ==
    LET row == document[d]
    IN  /\ Editable(row)
        /\ audited < MaxAudit
        /\ \E type \in DocType, content \in Content, number \in GivenNumber :
               \/ /\ type = row.doc_type \/ content = row.content
                  /\ HandleDocument(w, "update_document", d,
                         [row EXCEPT !.doc_type = type, !.content = content, !.status = "draft"])
               \/ HandleDocument(w, "update_document", d,
                      [row EXCEPT !.doc_number = number, !.status = "draft"])

SubmitDocument(w, d) ==
    /\ document[d].status = "draft"
    /\ HandleDocument(w, "submit_document", d, [document[d] EXCEPT !.status = "submitted"])

SignDocument(w, d) ==
    /\ document[d].status = "submitted"
    /\ \E actor \in Staff(_SIGN_ROLES) :
           HandleDocument(w, "sign_document", d,
               [document[d] EXCEPT !.status = "signed", !.signed_by = actor])

RejectDocument(w, d) ==
    /\ document[d].status = "submitted"
    /\ Staff(_SIGN_ROLES) # {}
    /\ HandleDocument(w, "reject_document", d, [document[d] EXCEPT !.status = "rejected"])

DeleteDocument(w, d) ==
    /\ Editable(document[d])
    /\ audited < MaxAudit
    /\ HandleDocument(w, "delete_document", d, NULL)

Creations == {"create_document", "create_numbered"}

\* Numbers given by hand, and letters that leave the count while later numbers stay,
\* disturb the numbering of their types.
Disturbs(op, row, now) ==
    IF op = "create_document" THEN {}
    ELSE IF op = "create_numbered" THEN {now.doc_type, now.doc_number.prefix}
    ELSE IF row = NULL THEN {}
    ELSE IF op = "delete_document" THEN {row.doc_type}
    ELSE IF <<row.doc_type, row.doc_number>> # <<now.doc_type, now.doc_number>>
    THEN {row.doc_type, now.doc_type, now.doc_number.prefix}
    ELSE {}

CommitDocument(w) ==
    LET req == request[w]
        d == req.document
        row == document[d]
        now == Written(row, req.read, req.new)
    IN  /\ req.op \in Creations \cup {"update_document", "submit_document", "sign_document",
                                     "reject_document", "delete_document"}
        /\ ~ Misses(row, req.read, req.new)
        /\ req.op \in Creations => row = NULL
        /\ now # NULL => Unused(d, now.doc_number)
        /\ document' = [document EXCEPT ![d] = now]
        /\ disturbed' = disturbed \cup Disturbs(req.op, row, now)
        /\ request' = Finished(w)
        /\ IF req.op \in {"create_numbered", "update_document", "delete_document"} THEN WriteAudit
           ELSE UNCHANGED audited

LegalInit ==
    /\ document = [d \in Document |-> NULL]
    /\ disturbed = {}

LegalNext ==
    \/ \E w \in Worker, d \in Document : CreateDocument(w, d) \/ CreateNumbered(w, d)
    \/ \E w \in Worker, d \in Filed :
           \/ UpdateDocument(w, d) \/ SubmitDocument(w, d) \/ SignDocument(w, d)
           \/ RejectDocument(w, d) \/ DeleteDocument(w, d)
    \/ \E w \in Worker : CommitDocument(w)

---------------------------------------------------------------------------
LegalTypeOK == \A d \in Filed : document[d] \in LegalDocument

\* The number create_document would give is free, also with two letters created at once,
\* until a letter of the type or with its prefix was created under a number of the
\* creator's, deleted, given another number, or another type: the count then meets a
\* number in use, and no letter of the type can be created without one.
NextNumberFree ==
    /\ LegalTypeOK
    /\ \A type \in DocType \ disturbed : Unused(NULL, _next_doc_number(type))

\* What was signed stays: a signed letter keeps its row, unless a handler commits that
\* loaded it before it was signed: an edit or a deletion while it was a draft or rejected,
\* a submission, a signature or a rejection, which leave what it says alone.
SignedKept ==
    [][\A d \in Filed :
          document[d].status = "signed" /\ document'[d] # document[d]
              => \E w \in Worker :
                     LET req == request[w]
                     IN  /\ req # Idle
                         /\ request'[w] = Idle
                         /\ req.document = d
                         /\ \/ req.read.status \in {"draft", "rejected"}
                            \/ /\ req.read.status = "submitted"
                               /\ document'[d].content = document[d].content
                               /\ document'[d].doc_number = document[d].doc_number
      ]_<<document, request>>
================================================================================
