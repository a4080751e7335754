------------------------- MODULE PurchaseWorkspace -------------------------
(***************************************************************************)
(* The purchase (alis) workspace: the pos_sessions rows clerks edit as     *)
(* drafts, and the purchase document (AFG) and ledger transaction that     *)
(* finalizing one produces.                                                *)
(*                                                                         *)
(* A worker is one HTTP request in flight, with its own database session.  *)
(* It loads the ORM row it works on (Load), takes the row lock when the    *)
(* handler asks for one (Lock), for an edit draft reads the document it    *)
(* replaces (ReadSource, ReadSourceTransaction), and commits.  What it     *)
(* writes is computed from the rows it has SEEN, which other requests may  *)
(* have replaced since: that is what the properties are about.             *)
(*                                                                         *)
(* RowLocks says which database is underneath.  TRUE is PostgreSQL at READ *)
(* COMMITTED: SELECT ... FOR UPDATE holds the row until the transaction    *)
(* ends.  FALSE is SQLite, where FOR UPDATE compiles to nothing and the    *)
(* first write of a transaction locks the whole database.                  *)
(***************************************************************************)
EXTENDS Naturals

CONSTANTS
    Sessions,     \* primary keys of pos_sessions
    Customers,    \* customers, and the identities a workspace snapshot holds
    Rows,         \* contents of one session's line table, with what they are worth
    Clerks,
    Workers,      \* requests that can be in flight at the same time
    None,
    NoRows,       \* the empty line table
    RowLocks,     \* TRUE: PostgreSQL, FALSE: SQLite
    Traffic,      \* the operations requested in this instance
    Bases,        \* the base revisions clients send, None for a client that sends none
    MaxRevision   \* bound: no save is accepted once a workspace is at this revision

ASSUME ConstantsAssumption ==
    /\ None \notin Sessions \cup Customers \cup Clerks \cup Workers
    /\ NoRows \in Rows
    /\ RowLocks \in BOOLEAN
    /\ MaxRevision \in Nat \ {0}
    /\ Bases \subseteq Nat \cup {None}

VARIABLES
    session,   \* pos_sessions, the notes column parsed
    lines,     \* pos_session_lines
    doc,       \* pos_documents, by pos_session_id (unique in the schema)
    tx,        \* transactions, by pos_session_id (unique in the schema)
    finals,    \* finalize requests answered 200, per session (their audit rows)
    lock,      \* row locks on pos_sessions
    req        \* the request each worker is serving

vars == <<session, lines, doc, tx, finals, lock, req>>

-----------------------------------------------------------------------------
(* Types *)

Notes == [rev  : Nat,                        \* workspace_revision
          edit : Sessions \cup {None},       \* edit_source_session_id
          snap : Customers \cup {None},      \* workspace_customer
          form : Rows]                       \* the rest of the payload

Row == [status   : {"unused", "draft", "confirmed", "cancelled"},
        clerk    : Clerks \cup {None},
        customer : Customers \cup {None},
        notes    : Notes]

Doc == [amount : Rows, who : Customers, notes : Notes]

Tx == [state    : {"none", "confirmed", "cancelled"},
       amount   : Rows,
       lines    : Rows,
       customer : Customers \cup {None}]

ASSUME NoneAssumption == None \notin Doc

Source == [row : Row, doc : Doc \cup {None}, tx : Tx]

Saves == {"customer", "draft_customer", "select", "detach", "sections", "office"}
LockingOps == Saves \cup {"import", "cancel", "finalize"}
DocumentOps == {"edit", "delete"}
Ops == LockingOps \cup DocumentOps \cup {"line"}

Request == [op    : Ops \cup {"none"},
            s     : Sessions \cup {None},
            phase : {"idle", "loaded", "locked", "sourced", "ready"},
            base  : Nat \cup {None},                  \* base_revision
            val   : Customers \cup Rows \cup Clerks \cup {None},
            seen  : Row \cup {None},
            rows  : Rows,
            src   : Source \cup {None}]

UnusedRow == [status |-> "unused", clerk |-> None, customer |-> None,
              notes |-> [rev |-> 1, edit |-> None, snap |-> None, form |-> NoRows]]

NoTx == [state |-> "none", amount |-> NoRows, lines |-> NoRows, customer |-> None]

Idle == [op |-> "none", s |-> None, phase |-> "idle", base |-> None, val |-> None,
         seen |-> None, rows |-> NoRows, src |-> None]

Init ==
    /\ session = [s \in Sessions |-> UnusedRow]
    /\ lines = [s \in Sessions |-> NoRows]
    /\ doc = [s \in Sessions |-> None]
    /\ tx = [s \in Sessions |-> NoTx]
    /\ finals = [s \in Sessions |-> 0]
    /\ lock = [s \in Sessions |-> None]
    /\ req = [w \in Workers |-> Idle]

-----------------------------------------------------------------------------
(* A request's life, up to its commit *)

\* Mutant of Effective: the fallback to the linked customer is forgotten.
EffectiveSnapshotOnly(row) == row.notes.snap

\* The customer a document names: the workspace snapshot when there is one,
\* the linked customer otherwise.
Effective(row) == IF row.notes.snap # None THEN row.notes.snap ELSE row.customer

\* Mutant of Written: every assigned column is emitted.
WrittenAlways(loaded, new, current) == new

\* The unit of work emits a column only when the new value differs from the
\* loaded one; otherwise what another transaction wrote meanwhile stays.
Written(loaded, new, current) == IF new = loaded THEN current ELSE new

At(w, op, phase) == req[w].op = op /\ req[w].phase = phase

\* No other transaction holds a lock on these rows.
Free(w, S) == \A s \in S : lock[s] \in {None, w}

\* Mutant of Finish: a path that leaves its transaction open.
FinishHoldingLocks(w) == req' = [req EXCEPT ![w] = Idle] /\ UNCHANGED lock

\* The transaction ends: its locks go, the worker takes another request.
Finish(w) ==
    /\ req' = [req EXCEPT ![w] = Idle]
    /\ lock' = [s \in Sessions |-> IF lock[s] = w THEN None ELSE lock[s]]

\* create_pos_session.  The 409 for a customer who has an open draft is waived
\* by force_new_session, so it excludes no state here.
CreateWorkspace(s, c, cust) ==
    /\ session[s].status = "unused"
    /\ lock[s] = None
    /\ session' = [session EXCEPT ![s] = [UnusedRow EXCEPT !.status = "draft",
                                                           !.clerk = c,
                                                           !.customer = cust]]
    /\ UNCHANGED <<lines, doc, tx, finals, lock, req>>

\* get_pos_session_or_404: every handler but the document ones starts here.
Load(w, op, s, v, base) ==
    /\ req[w] = Idle
    /\ session[s].status # "unused"
    /\ req' = [req EXCEPT ![w] = [Idle EXCEPT !.op = op, !.s = s, !.phase = "loaded",
                                              !.val = v, !.base = base,
                                              !.seen = session[s]]]
    /\ UNCHANGED <<session, lines, doc, tx, finals, lock>>

\* The edit and delete handlers look the document up by its number, joined
\* with its session and transaction.
LoadDocument(w, op, s, c) ==
    /\ req[w] = Idle
    /\ doc[s] # None
    /\ req' = [req EXCEPT ![w] = [Idle EXCEPT !.op = op, !.s = s, !.phase = "loaded",
                                              !.val = c, !.seen = session[s],
                                              !.src = [row |-> session[s],
                                                       doc |-> doc[s],
                                                       tx |-> tx[s]]]]
    /\ UNCHANGED <<session, lines, doc, tx, finals, lock>>

\* Mutant of Relocked: _lock_workspace_session without populate_existing.
RelockedStale(r) ==
    [r EXCEPT !.phase = "locked", !.rows = IF r.op = "finalize" THEN lines[r.s] ELSE NoRows]

\* _lock_workspace_session re-reads the row (populate_existing).  finalize
\* does not: its SELECT ... FOR UPDATE returns the instance already loaded,
\* with the attributes it was loaded with.  The lines are read behind it.
Relocked(r) ==
    [r EXCEPT !.phase = "locked",
              !.seen = IF r.op = "finalize" THEN r.seen ELSE session[r.s],
              !.rows = IF r.op = "finalize" THEN lines[r.s] ELSE NoRows]

Lock(w) ==
    LET s == req[w].s IN
    /\ req[w].phase = "loaded"
    /\ req[w].op \in LockingOps
    /\ RowLocks => lock[s] = None
    /\ lock' = IF RowLocks THEN [lock EXCEPT ![s] = w] ELSE lock
    /\ req' = [req EXCEPT ![w] = Relocked(req[w])]
    /\ UNCHANGED <<session, lines, doc, tx, finals>>

-----------------------------------------------------------------------------
(* Saves of a draft: the revision compare-and-swap *)

\* Mutant of Claimable: the UPDATE is not conditional on the notes text read.
ClaimableWithoutCas(w) ==
    LET r == req[w] IN
    /\ r.seen.status = "draft"
    /\ r.base \in {None, r.seen.notes.rev}
    /\ session[r.s].status = "draft"
    /\ r.seen.notes.rev < MaxRevision

\* Mutant of Claimable: the client's base revision is not compared.
ClaimableFromAnyBase(w) ==
    LET r == req[w] IN
    /\ r.seen.status = "draft"
    /\ session[r.s].status = "draft"
    /\ session[r.s].notes = r.seen.notes
    /\ r.seen.notes.rev < MaxRevision

\* _claim_workspace_revision: the client's base revision is the one read,
\* and the row is still a draft with the notes text that was read.
Claimable(w) ==
    LET r == req[w] IN
    /\ r.seen.status = "draft"
    /\ r.base \in {None, r.seen.notes.rev}
    /\ session[r.s].status = "draft"
    /\ session[r.s].notes = r.seen.notes
    /\ r.seen.notes.rev < MaxRevision

\* Mutant of ClaimedNotes: the payload is rebuilt without its edit source.
ClaimedNotesForgettingEdit(w) == [req[w].seen.notes EXCEPT !.rev = @ + 1, !.edit = None]

\* The notes column as the claiming request writes it.
ClaimedNotes(w) == [req[w].seen.notes EXCEPT !.rev = @ + 1]

Saving(w, op) ==
    /\ At(w, op, "locked")
    /\ Free(w, {req[w].s})
    /\ Claimable(w)

\* update_purchase_workspace_customer: needs a linked customer.
SaveCustomer(w) ==
    LET r == req[w] IN
    /\ Saving(w, "customer")
    /\ r.seen.customer # None
    /\ session' = [session EXCEPT ![r.s].notes = [ClaimedNotes(w) EXCEPT !.snap = r.val]]
    /\ Finish(w)
    /\ UNCHANGED <<lines, doc, tx, finals>>

\* update_purchase_workspace_draft_customer.
SaveDraftCustomer(w) ==
    LET r == req[w] IN
    /\ Saving(w, "draft_customer")
    /\ session' = [session EXCEPT ![r.s].notes = [ClaimedNotes(w) EXCEPT !.snap = r.val]]
    /\ Finish(w)
    /\ UNCHANGED <<lines, doc, tx, finals>>

\* select_purchase_workspace_customer: links the customer, drops the snapshot.
SelectCustomer(w) ==
    LET r == req[w] IN
    /\ Saving(w, "select")
    /\ session' = [session EXCEPT ![r.s].customer = r.val,
                                  ![r.s].notes = [ClaimedNotes(w) EXCEPT !.snap = None]]
    /\ Finish(w)
    /\ UNCHANGED <<lines, doc, tx, finals>>

\* detach_purchase_workspace_customer: there is a link or a snapshot to drop.
DetachCustomer(w) ==
    LET r == req[w] IN
    /\ Saving(w, "detach")
    /\ Effective(r.seen) # None
    /\ session' = [session EXCEPT ![r.s].customer = None,
                                  ![r.s].notes = [ClaimedNotes(w) EXCEPT !.snap = None]]
    /\ Finish(w)
    /\ UNCHANGED <<lines, doc, tx, finals>>

\* replace_purchase_workspace_sections: rewrites the form and every line.
ReplaceSections(w) ==
    LET r == req[w] IN
    /\ Saving(w, "sections")
    /\ session' = [session EXCEPT ![r.s].notes = [ClaimedNotes(w) EXCEPT !.form = r.val]]
    /\ lines' = [lines EXCEPT ![r.s] = r.val]
    /\ Finish(w)
    /\ UNCHANGED <<doc, tx, finals>>

\* A force-save of the open Office document: the customer and the sections of
\* the workbook in one transaction, one claim for both.  The base is the
\* revision the Office session last applied.
SaveOfficeDocument(w) ==
    LET r == req[w] IN
    /\ Saving(w, "office")
    /\ \E c \in Customers :
          session' = [session EXCEPT ![r.s].notes =
                        [ClaimedNotes(w) EXCEPT !.snap = c, !.form = r.val]]
    /\ lines' = [lines EXCEPT ![r.s] = r.val]
    /\ Finish(w)
    /\ UNCHANGED <<doc, tx, finals>>

\* The other workbook imports (upload, reconcile, Excel session, cell patch),
\* of a workbook that names a customer or under a linked one: the same two
\* saves, neither of which claims a revision.
ImportWorkbook(w) ==
    LET r == req[w] IN
    /\ At(w, "import", "locked")
    /\ r.seen.status = "draft"
    /\ Free(w, {r.s})
    /\ \E c \in Customers :
          session' = [session EXCEPT ![r.s].notes =
                        Written(r.seen.notes,
                                [r.seen.notes EXCEPT !.snap = c, !.form = r.val], @)]
    /\ lines' = [lines EXCEPT ![r.s] = r.val]
    /\ Finish(w)
    /\ UNCHANGED <<doc, tx, finals>>

\* The line endpoints of the older POS surface create, change or delete one
\* line after a status check on the row as loaded, with no lock and no claim.
EditLine(w) ==
    LET r == req[w] IN
    /\ At(w, "line", "loaded")
    /\ r.seen.status = "draft"
    /\ Free(w, {r.s})
    /\ lines' = [lines EXCEPT ![r.s] = r.val]
    /\ Finish(w)
    /\ UNCHANGED <<session, doc, tx, finals>>

\* cancel_session: no compare-and-swap, the status as locked decides.
CancelWorkspace(w) ==
    LET r == req[w] IN
    /\ At(w, "cancel", "locked")
    /\ r.seen.status = "draft"
    /\ Free(w, {r.s})
    /\ session' = [session EXCEPT ![r.s].status = "cancelled"]
    /\ Finish(w)
    /\ UNCHANGED <<lines, doc, tx, finals>>

-----------------------------------------------------------------------------
(* Finalize *)

\* The checks finalize makes before it writes anything.
Finalizing(w, phase) ==
    /\ At(w, "finalize", phase)
    /\ req[w].seen.status = "draft"
    /\ req[w].seen.customer # None
    /\ req[w].rows # NoRows

\* The document and transaction of a workspace that edits no document.  An
\* existing document gets this request's customer and amounts; an existing
\* transaction is returned as it is.  The transaction's lines are read again.
\* Whether the notes text changes depends on the payload; if it does, the
\* text written is derived from the row as loaded.
FinalizeWorkspace(w) ==
    LET r == req[w]
        s == r.s
    IN  /\ Finalizing(w, "locked")
        /\ r.seen.notes.edit = None
        /\ Free(w, {s})
        /\ \E n \in {session[s].notes, r.seen.notes} :
              session' = [session EXCEPT ![s].status = "confirmed", ![s].notes = n]
        /\ doc' = [doc EXCEPT ![s] =
                     [amount |-> r.rows, who |-> Effective(r.seen),
                      notes |-> IF doc[s] # None THEN doc[s].notes ELSE r.seen.notes]]
        /\ tx' = [tx EXCEPT ![s] =
                    IF tx[s].state # "none" THEN tx[s]
                    ELSE [state |-> "confirmed", amount |-> r.rows,
                          lines |-> lines[s], customer |-> r.seen.customer]]
        /\ finals' = [finals EXCEPT ![s] = @ + 1]
        /\ Finish(w)
        /\ UNCHANGED lines

\* An edit draft's source session and document.  The draft's own UPDATE has
\* just been flushed, so on SQLite the database is locked from here on.
ReadSource(w) ==
    LET r == req[w]
        from == r.seen.notes.edit
    IN  /\ Finalizing(w, "locked")
        /\ from # None
        /\ Free(w, IF RowLocks THEN {r.s} ELSE Sessions)
        /\ lock' = IF RowLocks THEN lock ELSE [s \in Sessions |-> w]
        /\ req' = [req EXCEPT ![w].phase = "sourced",
                              ![w].src = [row |-> session[from], doc |-> doc[from],
                                          tx |-> NoTx]]
        /\ UNCHANGED <<session, lines, doc, tx, finals>>

\* A separate statement: on PostgreSQL it sees what committed in between.
ReadSourceTransaction(w) ==
    LET r == req[w] IN
    /\ At(w, "finalize", "sourced")
    /\ r.src.doc # None
    /\ req' = [req EXCEPT ![w].phase = "ready", ![w].src.tx = tx[r.seen.notes.edit]]
    /\ UNCHANGED <<session, lines, doc, tx, finals, lock>>

\* Mutant of SourceCancelled: the check on a deleted source is left out.
SourceNeverCancelled(r) == FALSE

SourceCancelled(r) == r.src.row.status = "cancelled" \/ r.src.tx.state = "cancelled"

\* The source was deleted meanwhile: the draft is closed and the answer is 409.
CloseOrphanedEdit(w) ==
    LET r == req[w] IN
    /\ At(w, "finalize", "ready")
    /\ SourceCancelled(r)
    /\ session' = [session EXCEPT ![r.s].status = "cancelled", ![r.s].notes = r.seen.notes]
    /\ Finish(w)
    /\ UNCHANGED <<lines, doc, tx, finals>>

\* Mutant of Revised: the transaction keeps the amounts it was issued with.
RevisedLinesOnly(r, t) == [t EXCEPT !.lines = r.rows]

\* The source's transaction t after the edit: its lines are replaced.
Revised(r, t) ==
    [state    |-> Written(r.src.tx.state, "confirmed", t.state),
     amount   |-> Written(r.src.tx.amount, r.rows, t.amount),
     lines    |-> r.rows,
     customer |-> Written(r.src.tx.customer, r.seen.customer, t.customer)]

\* The draft's content replaces the source's lines, document and transaction;
\* the source keeps its number, the draft ends cancelled.
FinalizeEdit(w) ==
    LET r    == req[w]
        from == r.seen.notes.edit
        src  == r.src
    IN  /\ At(w, "finalize", "ready")
        /\ ~SourceCancelled(r)
        /\ Free(w, {r.s, from})
        /\ session' =
             [session EXCEPT
                ![from].status   = Written(src.row.status, "confirmed", @),
                ![from].customer = Written(src.row.customer, r.seen.customer, @),
                ![from].notes    = Written(src.row.notes, r.seen.notes, @),
                ![r.s].status    = "cancelled",
                ![r.s].notes     = r.seen.notes]
        /\ lines' = [lines EXCEPT ![from] = r.rows]
        /\ doc' = [doc EXCEPT
                ![from].amount = Written(src.doc.amount, r.rows, @),
                ![from].who    = Written(src.doc.who, Effective(r.seen), @),
                ![from].notes  = Written(src.doc.notes, r.seen.notes, @)]
        /\ tx' = [tx EXCEPT ![from] = Revised(r, @)]
        /\ Finish(w)
        /\ UNCHANGED finals

-----------------------------------------------------------------------------
(* Finished documents *)

\* The clerk's own open edit draft of this document, if there is one.
OwnEditDraft(s, c) ==
    {d \in Sessions : /\ session[d].status = "draft"
                      /\ session[d].clerk = c
                      /\ session[d].notes.edit = s}

\* open_purchase_document_for_edit, when the clerk had no edit draft of it.
OpenForEdit(w, s, c) ==
    /\ session[s].status # "cancelled"
    /\ OwnEditDraft(s, c) = {}
    /\ LoadDocument(w, "edit", s, c)

\* The draft is inserted with the document's payload, and the source's lines,
\* as they are by then, are cloned.
CreateEditDraft(w, d) ==
    LET r == req[w] IN
    /\ At(w, "edit", "loaded")
    /\ session[d].status = "unused"
    /\ Free(w, {d})
    /\ session' = [session EXCEPT ![d] = [status |-> "draft", clerk |-> r.val,
                                          customer |-> r.seen.customer,
                                          notes |-> [r.src.doc.notes EXCEPT !.edit = r.s]]]
    /\ lines' = [lines EXCEPT ![d] = lines[r.s]]
    /\ Finish(w)
    /\ UNCHANGED <<doc, tx, finals>>

\* delete_purchase_document; a second delete returns without writing.
DeleteDocument(w) ==
    LET r == req[w] IN
    /\ At(w, "delete", "loaded")
    /\ r.seen.status # "cancelled"
    /\ Free(w, {r.s})
    /\ session' = [session EXCEPT ![r.s].status = "cancelled"]
    /\ tx' = [tx EXCEPT ![r.s].state = Written(r.src.tx.state, "cancelled", @)]
    /\ Finish(w)
    /\ UNCHANGED <<lines, doc, finals>>

-----------------------------------------------------------------------------
(* Requests that end without writing *)

\* The early returns: 400, 404, 409 and 422 answers, and the idempotent delete.
\* Two cases are artefacts of the bounds: a save at MaxRevision, and an edit
\* when every session is in use.
Refused(w) ==
    LET r == req[w] IN
    \/ /\ r.phase = "locked"
       /\ \/ r.seen.status # "draft"
          \/ r.op \in Saves /\ ~Claimable(w)
          \/ r.op = "customer" /\ r.seen.customer = None
          \/ r.op = "detach" /\ Effective(r.seen) = None
          \/ r.op = "finalize" /\ (r.seen.customer = None \/ r.rows = NoRows)
    \/ At(w, "finalize", "sourced") /\ r.src.doc = None
    \/ At(w, "line", "loaded") /\ r.seen.status # "draft"
    \/ At(w, "delete", "loaded") /\ r.seen.status = "cancelled"
    \/ At(w, "edit", "loaded") /\ \A d \in Sessions : session[d].status # "unused"

Reject(w) ==
    /\ Refused(w)
    /\ Finish(w)
    /\ UNCHANGED <<session, lines, doc, tx, finals>>

\* An exception, a lost client, a killed process: nothing was committed.
Abort(w) ==
    /\ req[w] # Idle
    /\ Finish(w)
    /\ UNCHANGED <<session, lines, doc, tx, finals>>

-----------------------------------------------------------------------------

\* What the client sends with each operation.
Values(op) ==
    CASE op \in {"customer", "draft_customer", "select"} -> Customers
      [] op \in {"sections", "office", "import", "line"} -> Rows
      [] OTHER -> {None}

Arrive(w) ==
    \E op \in Traffic, s \in Sessions :
       \/ /\ op \in Saves
          /\ \E v \in Values(op), base \in Bases :
                (op = "office" => base # None) /\ Load(w, op, s, v, base)
       \/ /\ op \in {"line", "import", "cancel", "finalize"}
          /\ \E v \in Values(op) : Load(w, op, s, v, None)
       \/ op = "delete" /\ LoadDocument(w, op, s, None)
       \/ op = "edit" /\ \E c \in Clerks : OpenForEdit(w, s, c)

\* The steps a request takes once the server has it.
Proceed(w) ==
    \/ Lock(w)
    \/ SaveCustomer(w) \/ SaveDraftCustomer(w) \/ SelectCustomer(w) \/ DetachCustomer(w)
    \/ ReplaceSections(w) \/ SaveOfficeDocument(w) \/ ImportWorkbook(w) \/ EditLine(w)
    \/ CancelWorkspace(w) \/ FinalizeWorkspace(w)
    \/ ReadSource(w) \/ ReadSourceTransaction(w) \/ CloseOrphanedEdit(w) \/ FinalizeEdit(w)
    \/ \E d \in Sessions : CreateEditDraft(w, d)
    \/ DeleteDocument(w)
    \/ Reject(w)

Next ==
    \/ \E s \in Sessions, c \in Clerks, cust \in Customers \cup {None} :
          CreateWorkspace(s, c, cust)
    \/ \E w \in Workers : Arrive(w) \/ Proceed(w) \/ Abort(w)

Spec == Init /\ [][Next]_vars

\* The server runs every request it has accepted, and the database grants a
\* contended row lock in arrival order: no request is passed over for ever.
FairSpec == Spec /\ \A w \in Workers : SF_vars(Proceed(w))

-----------------------------------------------------------------------------
(* Properties *)

\* Every variable holds what its column can hold.
TypeOK ==
    /\ session \in [Sessions -> Row]
    /\ lines \in [Sessions -> Rows]
    /\ doc \in [Sessions -> Doc \cup {None}]
    /\ tx \in [Sessions -> Tx]
    /\ finals \in [Sessions -> Nat]
    /\ lock \in [Sessions -> Workers \cup {None}]
    /\ req \in [Workers -> Request]

\* A document whose session is cancelled has no transaction that still counts:
\* cancelling a workspace (drafts only) and deleting a document (session and
\* transaction together) cannot be interleaved with a finalize so that the
\* books keep a purchase the lists no longer show.  PostgreSQL only: it rests
\* on cancel_session deciding on a row it holds the lock of.
CancelledIsVoid ==
    \A s \in Sessions :
        session[s].status = "cancelled" /\ doc[s] # None => tx[s].state = "cancelled"

\* A deleted document's transaction never counts again, whichever edit drafts
\* of it are still open and whenever their finalize read its state.
DeletionsAreFinal ==
    [][\A s \in Sessions : tx[s].state = "cancelled" => tx'[s].state = "cancelled"]_vars

\* An edit draft stays one, through every save, until it is closed, and no
\* document is ever issued under it: an edit revises the original document
\* and never produces a second one.
EditsIssueNothing ==
    [][\A s \in Sessions :
          session[s].notes.edit \notin {None, s} =>
              /\ session'[s].notes.edit = session[s].notes.edit
              /\ doc'[s] = None
              /\ tx'[s] = NoTx]_vars

\* Saves are serial: a save of one section builds on the notes as they are when
\* it commits, so the revision moves by one and an older version of another
\* section is never put back.
SavesAreSerial ==
    [][\A w \in Workers :
          LET r      == req[w]
              before == session[r.s].notes
              after  == session'[r.s].notes
          IN  r.op \in Saves /\ req'[w] = Idle /\ session' # session =>
                /\ session[r.s].status = "draft"
                /\ after.rev = before.rev + 1
                /\ after.edit = before.edit
                /\ r.op \in {"customer", "draft_customer", "select", "detach"}
                     => after.form = before.form
                /\ r.op = "sections" => after.snap = before.snap]_vars

\* A save that names the revision it was made from is accepted only while that
\* revision is the current one (409 workspace_revision_conflict otherwise).
StaleSavesRefused ==
    [][\A w \in Workers :
          LET r == req[w] IN
          /\ r.op \in Saves
          /\ r.base # None
          /\ req'[w] = Idle
          /\ session'[r.s] # session[r.s]
          => r.base = session[r.s].notes.rev]_vars

\* The document and the transaction of a session finalized once state the same
\* amount, through every edit and deletion that follows.
BooksAgree ==
    \A s \in Sessions : finals[s] = 1 => doc[s] # None /\ doc[s].amount = tx[s].amount

\* The transactions behave as PurchaseLedger says: issued once, revised only
\* while they stand, void for ever.  SQLite only: on PostgreSQL an edit can
\* still rewrite the amounts of a document deleted since the edit checked it.
Books == [s \in Sessions |-> [state |-> tx[s].state, amount |-> tx[s].amount]]
Ledger == INSTANCE PurchaseLedger WITH Amounts <- Rows, books <- Books
LedgerSpec == Ledger!Spec

\* Every request the server has accepted ends: no two of them wait for each
\* other's row locks, and no lock outlives the request that took it.
RequestsEnd == \A w \in Workers : req[w] # Idle ~> req[w] = Idle

\* AI_START_HERE.md, rule 2: finalizing again is answered 409.  A finalize
\* that commits a document finds its workspace still a draft.
FinalizeOnlyDrafts ==
    [][\A s \in Sessions : finals'[s] # finals[s] => session[s].status = "draft"]_vars

\* DATA_STORAGE_AND_EXCEL.md, purchase workspace safety: every change of the
\* sections or the customer of a draft claims a revision.
ChangesAreClaimed ==
    [][\A s \in Sessions :
          /\ session[s].status = "draft"
          /\ session'[s].status = "draft"
          /\ session'[s].notes # session[s].notes
          => session'[s].notes.rev = session[s].notes.rev + 1]_vars

\* cancel_session answers 400 "only a draft can be cancelled": a cancel that
\* commits finds its workspace still a draft.
CancelOnlyDrafts ==
    [][\A w \in Workers :
          req[w].op = "cancel" /\ req'[w] = Idle /\ session' # session
              => session[req[w].s].status = "draft"]_vars
=============================================================================
