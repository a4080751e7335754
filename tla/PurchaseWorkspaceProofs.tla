----------------------- MODULE PurchaseWorkspaceProofs -----------------------
(***************************************************************************)
(* Proofs about PurchaseWorkspace, for every number of sessions, customers *)
(* and requests in flight, and for either database.                        *)
(*                                                                         *)
(* The invariant ties each request to the rows it has seen: they may have  *)
(* changed, but only the way Evolves allows.  A step that commits is shown *)
(* to be a Commits step (RowSteps ... EditCommits), one that does not to   *)
(* be an Advances step; CommitOK and AdvanceOK do the rest once for all.   *)
(***************************************************************************)
EXTENDS PurchaseWorkspace, TLAPS

\* What a request carries, by its operation and phase.
RequestOK(w) ==
    LET r == req[w] IN
    /\ r.phase # "idle" => r.s \in Sessions /\ r.seen \in Row
    /\ r.op \in {"customer", "draft_customer", "select"} => r.val \in Customers
    /\ r.op \in {"sections", "office", "import", "line"} => r.val \in Rows
    /\ r.op = "edit" => r.val \in Clerks
    /\ r.op \in DocumentOps => r.s \in Sessions /\ r.src \in Source /\ r.src.doc \in Doc
    /\ r.phase = "locked" => r.op \in LockingOps
    /\ r.phase \in {"sourced", "ready"} =>
         /\ r.op = "finalize"
         /\ r.src \in Source
         /\ r.seen.status = "draft"
         /\ r.seen.customer # None
         /\ r.seen.notes.edit # None
    /\ r.phase = "ready" => r.src.doc \in Doc

\* Documents and transactions come together, never under a draft, and only
\* under a session that edits no other.
BooksOK ==
    \A s \in Sessions :
        /\ doc[s] = None => tx[s] = NoTx
        /\ doc[s] # None => /\ tx[s].state # "none"
                            /\ session[s].status \notin {"unused", "draft"}
                            /\ session[s].notes.edit \in {None, s}
        /\ session[s].status = "unused" => session[s].notes.edit = None
        /\ session[s].status = "draft" => session[s].notes.edit # s

\* The edit source of session s before and after a step, or as seen and as it
\* is.  A finished document may come to name itself: finalizing an edit writes
\* the draft's payload to the document it edits.
SameEdit(s, before, after) ==
    after = before \/ {before, after} \subseteq {None, s}

\* What a request has seen still says which document its session edits, and a
\* document it has seen is still there, void if it was void.
SeenOK ==
    \A w \in Workers :
        LET r == req[w] IN
        /\ r.phase # "idle" =>
             /\ session[r.s].status # "unused"
             /\ SameEdit(r.s, r.seen.notes.edit, session[r.s].notes.edit)
             /\ r.seen.status = "draft" => r.seen.notes.edit # r.s
        /\ r.op \in DocumentOps =>
             /\ doc[r.s] # None
             /\ r.src.tx.state = "cancelled" => tx[r.s].state = "cancelled"
        /\ r.phase = "sourced" /\ r.src.doc # None => doc[r.seen.notes.edit] # None
        /\ r.phase = "ready" => r.src.tx.state # "none" /\ doc[r.seen.notes.edit] # None

\* PostgreSQL: a request holds the lock of its session from Lock on, and a
\* save or a cancel sees the session as it is.  SQLite: the finalize of an edit
\* locks everything before it reads its source, so it sees the source as it is.
LocksOK ==
    \A w \in Workers :
        LET r == req[w]
            from == r.seen.notes.edit
        IN  /\ RowLocks /\ r.phase \in {"locked", "sourced", "ready"} =>
                 /\ lock[r.s] = w
                 /\ r.op # "finalize" => r.seen = session[r.s]
            /\ ~RowLocks /\ r.phase \in {"sourced", "ready"} =>
                 /\ \A s \in Sessions : lock[s] = w
                 /\ r.src.row = session[from]
                 /\ r.src.doc = doc[from]
                 /\ r.phase = "ready" => r.src.tx = tx[from]

\* The inductive invariant.
IInv ==
    /\ TypeOK
    /\ \A w \in Workers : RequestOK(w)
    /\ BooksOK
    /\ SeenOK
    /\ LocksOK
    /\ RowLocks => CancelledIsVoid

-----------------------------------------------------------------------------

\* What no step undoes.
Evolves ==
    \A s \in Sessions :
        /\ session[s].status # "unused" =>
             /\ session'[s].status # "unused"
             /\ SameEdit(s, session[s].notes.edit, session'[s].notes.edit)
        /\ doc[s] # None => doc'[s] # None
        /\ tx[s].state = "cancelled" => tx'[s].state = "cancelled"

\* A step writes no row another transaction has locked.
WritesFree(w) ==
    \A s \in Sessions :
        lock[s] \notin {None, w} =>
            session'[s] = session[s] /\ doc'[s] = doc[s] /\ tx'[s] = tx[s]

\* The tables hold what their columns can hold.
RowsTyped ==
    /\ session \in [Sessions -> Row]
    /\ lines \in [Sessions -> Rows]
    /\ doc \in [Sessions -> Doc \cup {None}]
    /\ tx \in [Sessions -> Tx]
    /\ finals \in [Sessions -> Nat]

\* A commit that keeps the invariant: what is to be shown of each of them.
Commits(w) ==
    /\ Finish(w)
    /\ WritesFree(w)
    /\ Evolves
    /\ RowsTyped'
    /\ BooksOK'
    /\ RowLocks => CancelledIsVoid'

\* A step that writes at most its own session and that session's lines, and
\* ends: a save, a line edit, a cancel or the closing of an orphaned edit.
WritesRow(w) ==
    LET s == req[w].s IN
    /\ s \in Sessions
    /\ Free(w, {s})
    /\ Finish(w)
    /\ lines' \in [Sessions -> Rows]
    /\ UNCHANGED <<doc, tx, finals>>
    /\ \E row \in Row :
         /\ session' = [session EXCEPT ![s] = row]
         /\ row.status # "unused"
         /\ SameEdit(s, session[s].notes.edit, row.notes.edit)
         /\ row.status = "draft" => row.notes.edit # s
         /\ \/ row.status = session[s].status
            \/ row.status = "cancelled" /\ (RowLocks => doc[s] = None)

\* The empty database with idle workers.
LEMMA InitHolds == Init => IInv
  <1> SUFFICES ASSUME Init PROVE IInv
      OBVIOUS
  <1> USE ConstantsAssumption DEF Init
  <1>1. TypeOK
      BY DEF TypeOK, Row, Notes, Tx, Request, UnusedRow, NoTx, Idle, Doc
  <1>2. \A w \in Workers : RequestOK(w)
      BY DEF RequestOK, Idle, DocumentOps
  <1>3. BooksOK
      BY DEF BooksOK, UnusedRow
  <1>4. SeenOK /\ LocksOK
      BY DEF SeenOK, LocksOK, Idle, DocumentOps
  <1>5. CancelledIsVoid
      BY DEF CancelledIsVoid
  <1>6. QED
      BY <1>1, <1>2, <1>3, <1>4, <1>5 DEF IInv

\* Each of these steps is a WritesRow step.
LEMMA RowSteps ==
    ASSUME IInv, NEW w \in Workers,
           \/ SaveCustomer(w) \/ SaveDraftCustomer(w) \/ SelectCustomer(w)
           \/ DetachCustomer(w) \/ ReplaceSections(w) \/ SaveOfficeDocument(w)
           \/ ImportWorkbook(w) \/ EditLine(w)
           \/ CancelWorkspace(w) \/ CloseOrphanedEdit(w)
    PROVE  WritesRow(w)
  <1> DEFINE s == req[w].s
             r == req[w]
  <1>0. /\ s \in Sessions
        /\ r.seen \in Row
        /\ session[s] \in Row
      BY DEF IInv, TypeOK, RequestOK, Saving, At, SaveCustomer, SaveDraftCustomer,
             SelectCustomer, DetachCustomer, ReplaceSections, SaveOfficeDocument,
             ImportWorkbook, EditLine, CancelWorkspace, CloseOrphanedEdit
  <1>1. CASE \/ SaveCustomer(w) \/ SaveDraftCustomer(w) \/ SelectCustomer(w)
             \/ DetachCustomer(w) \/ ReplaceSections(w) \/ SaveOfficeDocument(w)
    <2>1. Claimable(w) /\ Free(w, {s}) /\ Finish(w) /\ UNCHANGED <<doc, tx, finals>>
        BY <1>1 DEF Saving, SaveCustomer, SaveDraftCustomer,
             SelectCustomer, DetachCustomer, ReplaceSections, SaveOfficeDocument
    <2>2. lines' \in [Sessions -> Rows]
        BY <1>1, <1>0 DEF Saving, SaveCustomer, SaveDraftCustomer, At, RequestOK,
             SelectCustomer, DetachCustomer, ReplaceSections, SaveOfficeDocument,
             IInv, TypeOK
    <2>3. /\ session[s].status = "draft"
          /\ session[s].notes = r.seen.notes
          /\ r.seen.notes \in Notes
        BY <2>1, <1>0 DEF Claimable, Row
    <2>4. PICK row \in Row : /\ session' = [session EXCEPT ![s] = row]
                             /\ row.status = "draft"
                             /\ row.notes.edit = r.seen.notes.edit
      <3>1. /\ ClaimedNotes(w) \in Notes
            /\ ClaimedNotes(w).edit = r.seen.notes.edit
          BY <2>3 DEF ClaimedNotes, Notes
      <3>2. r.op \in {"customer", "draft_customer", "select"} => r.val \in Customers
          BY DEF IInv, RequestOK
      <3>3. r.op \in {"sections", "office"} => r.val \in Rows
          BY DEF IInv, RequestOK
      <3>4. CASE SaveCustomer(w) \/ SaveDraftCustomer(w)
        <4> DEFINE row == [session[s] EXCEPT !.notes = [ClaimedNotes(w) EXCEPT !.snap = r.val]]
        <4>1. r.val \in Customers
            BY <3>2, <3>4 DEF SaveCustomer, SaveDraftCustomer, Saving, At
        <4>2. row \in Row /\ row.status = "draft" /\ row.notes.edit = r.seen.notes.edit
            BY <4>1, <3>1, <1>0, <2>3 DEF Row, Notes
        <4>3. session' = [session EXCEPT ![s] = row]
            BY <3>4, <1>0 DEF SaveCustomer, SaveDraftCustomer, IInv, TypeOK
        <4>4. QED
            BY <4>2, <4>3
      <3>5. CASE SelectCustomer(w)
        <4> DEFINE row == [session[s] EXCEPT !.customer = r.val,
                                             !.notes = [ClaimedNotes(w) EXCEPT !.snap = None]]
        <4>1. r.val \in Customers
            BY <3>2, <3>5 DEF SelectCustomer, Saving, At
        <4>2. row \in Row /\ row.status = "draft" /\ row.notes.edit = r.seen.notes.edit
            BY <4>1, <3>1, <1>0, <2>3 DEF Row, Notes
        <4>3. session' = [session EXCEPT ![s] = row]
            BY <3>5, <1>0 DEF SelectCustomer, IInv, TypeOK, Row
        <4>4. QED
            BY <4>2, <4>3
      <3>6. CASE DetachCustomer(w)
        <4> DEFINE row == [session[s] EXCEPT !.customer = None,
                                             !.notes = [ClaimedNotes(w) EXCEPT !.snap = None]]
        <4>1. row \in Row /\ row.status = "draft" /\ row.notes.edit = r.seen.notes.edit
            BY <3>1, <1>0, <2>3 DEF Row, Notes
        <4>2. session' = [session EXCEPT ![s] = row]
            BY <3>6, <1>0 DEF DetachCustomer, IInv, TypeOK, Row
        <4>3. QED
            BY <4>1, <4>2
      <3>7. CASE ReplaceSections(w)
        <4> DEFINE row == [session[s] EXCEPT !.notes = [ClaimedNotes(w) EXCEPT !.form = r.val]]
        <4>1. r.val \in Rows
            BY <3>3, <3>7 DEF ReplaceSections, Saving, At
        <4>2. row \in Row /\ row.status = "draft" /\ row.notes.edit = r.seen.notes.edit
            BY <4>1, <3>1, <1>0, <2>3 DEF Row, Notes
        <4>3. session' = [session EXCEPT ![s] = row]
            BY <3>7, <1>0 DEF ReplaceSections, IInv, TypeOK
        <4>4. QED
            BY <4>2, <4>3
      <3>8. CASE SaveOfficeDocument(w)
        <4>1. PICK c \in Customers :
                session' = [session EXCEPT ![s].notes =
                              [ClaimedNotes(w) EXCEPT !.snap = c, !.form = r.val]]
            BY <3>8 DEF SaveOfficeDocument
        <4> DEFINE row == [session[s] EXCEPT !.notes = [ClaimedNotes(w) EXCEPT !.snap = c,
                                                                               !.form = r.val]]
        <4>2. r.val \in Rows
            BY <3>3, <3>8 DEF SaveOfficeDocument, Saving, At
        <4>3. row \in Row /\ row.status = "draft" /\ row.notes.edit = r.seen.notes.edit
            BY <4>2, <3>1, <1>0, <2>3 DEF Row, Notes
        <4>4. session' = [session EXCEPT ![s] = row]
            BY <4>1, <1>0 DEF IInv, TypeOK
        <4>5. QED
            BY <4>3, <4>4
      <3>9. QED
          BY <1>1, <3>4, <3>5, <3>6, <3>7, <3>8
    <2>5. session[s].notes.edit # s
        BY <2>3, <1>0 DEF IInv, BooksOK
    <2>6. QED
        BY <1>0, <2>1, <2>2, <2>3, <2>4, <2>5 DEF WritesRow, SameEdit
  <1>2. CASE EditLine(w)
    <2>1. /\ session' = [session EXCEPT ![s] = session[s]]
          /\ session[s].status # "unused"
          /\ session[s].status = "draft" => session[s].notes.edit # s
        BY <1>2, <1>0 DEF EditLine, At, IInv, TypeOK, SeenOK, BooksOK
    <2>2. lines' \in [Sessions -> Rows]
        BY <1>2, <1>0 DEF EditLine, At, IInv, TypeOK, RequestOK
    <2>3. QED
        BY <1>0, <1>2, <2>1, <2>2 DEF EditLine, WritesRow, SameEdit
  <1>3. CASE CancelWorkspace(w)
    <2> DEFINE row == [session[s] EXCEPT !.status = "cancelled"]
    <2>1. row \in Row /\ session' = [session EXCEPT ![s] = row]
        BY <1>3, <1>0 DEF CancelWorkspace, Row, IInv, TypeOK
    <2>2. RowLocks => doc[s] = None
      <3>1. RowLocks => r.seen = session[s]
          BY <1>3 DEF CancelWorkspace, At, IInv, LocksOK
      <3>2. QED
          BY <3>1, <1>3, <1>0 DEF CancelWorkspace, IInv, BooksOK
    <2>3. row.status = "cancelled" /\ row.notes.edit = session[s].notes.edit
        BY <1>0 DEF Row
    <2>4. QED
        BY <1>0, <1>3, <2>1, <2>2, <2>3 DEF CancelWorkspace, WritesRow, SameEdit, IInv, TypeOK
  <1>4. CASE CloseOrphanedEdit(w)
    <2> DEFINE row == [session[s] EXCEPT !.status = "cancelled", !.notes = r.seen.notes]
    <2>1. row \in Row /\ session' = [session EXCEPT ![s] = row]
        BY <1>4, <1>0 DEF CloseOrphanedEdit, Row, IInv, TypeOK
    <2>2. row.status = "cancelled" /\ row.notes.edit = r.seen.notes.edit
        BY <1>0 DEF Row
    <2>3. /\ r.seen.notes.edit = session[s].notes.edit
          /\ session[s].notes.edit \notin {None, s}
      <3>1. r.phase = "ready" /\ r.seen.status = "draft" /\ r.seen.notes.edit # None
          BY <1>4 DEF CloseOrphanedEdit, At, IInv, RequestOK
      <3>2. QED
          BY <3>1 DEF IInv, SeenOK, SameEdit
    <2>4. doc[s] = None
        BY <2>3, <1>0 DEF IInv, BooksOK
    <2>5. Finish(w) /\ UNCHANGED <<lines, doc, tx, finals>>
        BY <1>4 DEF CloseOrphanedEdit
    <2>6. Free(w, {s})
        BY <1>4, <1>0, ConstantsAssumption DEF CloseOrphanedEdit, At, Free, IInv, LocksOK
    <2>7. QED
        BY <1>0, <2>1, <2>2, <2>3, <2>4, <2>5, <2>6 DEF WritesRow, SameEdit, IInv, TypeOK
  <1>5. CASE ImportWorkbook(w)
    <2>1. PICK c \in Customers :
            session' = [session EXCEPT ![s].notes =
                          Written(r.seen.notes, [r.seen.notes EXCEPT !.snap = c, !.form = r.val], @)]
        BY <1>5 DEF ImportWorkbook
    <2> DEFINE imported == [r.seen.notes EXCEPT !.snap = c, !.form = r.val]
               row == [session[s] EXCEPT !.notes = Written(r.seen.notes, imported, @)]
    <2>2. /\ r.phase = "locked" /\ r.op = "import" /\ r.val \in Rows
          /\ r.seen.status = "draft" /\ Free(w, {s}) /\ Finish(w)
          /\ lines' = [lines EXCEPT ![s] = r.val] /\ UNCHANGED <<doc, tx, finals>>
        BY <1>5 DEF ImportWorkbook, At, IInv, RequestOK
    <2>3. /\ session[s].status # "unused"
          /\ SameEdit(s, r.seen.notes.edit, session[s].notes.edit)
          /\ r.seen.notes.edit # s
          /\ session[s].status = "draft" => session[s].notes.edit # s
        BY <1>0, <2>2 DEF IInv, SeenOK, BooksOK
    <2>4. imported \in Notes /\ imported.edit = r.seen.notes.edit
        BY <2>2, <1>0 DEF Row, Notes
    <2>5. row.notes \in {session[s].notes, imported}
        BY <1>0 DEF Row, Written
    <2>6. row \in Row /\ row.status = session[s].status
        BY <2>4, <2>5, <1>0 DEF Row
    <2> HIDE DEF imported
    <2>7. session' = [session EXCEPT ![s] = row]
        BY <2>1, <1>0 DEF IInv, TypeOK, imported
    <2>8. lines' \in [Sessions -> Rows]
        BY <2>2 DEF IInv, TypeOK
    <2> HIDE DEF row
    <2>9. QED
        BY <1>0, <2>2, <2>3, <2>4, <2>5, <2>6, <2>7, <2>8 DEF WritesRow, SameEdit
  <1>6. QED
      BY <1>1, <1>2, <1>3, <1>4, <1>5

\* Ending a request leaves it idle, the others as they were.
LEMMA FinishFacts ==
    ASSUME IInv, NEW w \in Workers, Finish(w)
    PROVE  /\ req' \in [Workers -> Request]
           /\ lock' \in [Sessions -> Workers \cup {None}]
           /\ req'[w] = Idle
           /\ \A v \in Workers \ {w} : req'[v] = req[v]
           /\ \A v \in Workers \ {w}, s \in Sessions : lock[s] = v => lock'[s] = v
           /\ \A v \in Workers : RequestOK(v)'
  <1>1. /\ req' \in [Workers -> Request]
        /\ lock' \in [Sessions -> Workers \cup {None}]
        /\ req'[w] = Idle
        /\ \A v \in Workers \ {w} : req'[v] = req[v]
        /\ \A v \in Workers \ {w}, s \in Sessions : lock[s] = v => lock'[s] = v
    <2>1. Idle \in Request
        BY ConstantsAssumption DEF Idle, Request
    <2>2. QED
        BY <2>1 DEF Finish, IInv, TypeOK
  <1>2. ASSUME NEW v \in Workers PROVE RequestOK(v)'
    <2>1. CASE v = w
        BY <1>1, <2>1 DEF RequestOK, Idle, DocumentOps
    <2>2. CASE v # w
        BY <1>1, <2>2 DEF RequestOK, IInv
    <2>3. QED
        BY <2>1, <2>2
  <1>3. QED
      BY <1>1, <1>2

\* What every commit has to show is enough.
LEMMA CommitOK ==
    ASSUME IInv, NEW w \in Workers, Commits(w)
    PROVE  IInv' /\ Evolves
  <1>0. Finish(w)
      BY DEF Commits
  <1>1. TypeOK'
      BY <1>0, FinishFacts DEF Commits, RowsTyped, TypeOK
  <1>2. \A v \in Workers : RequestOK(v)'
      BY <1>0, FinishFacts
  <1>3. SeenOK'
    <2> SUFFICES ASSUME NEW v \in Workers \ {w}
                 PROVE  LET r == req[v] IN
        /\ r.phase # "idle" =>
             /\ session'[r.s].status # "unused"
             /\ SameEdit(r.s, r.seen.notes.edit, session'[r.s].notes.edit)
             /\ r.seen.status = "draft" => r.seen.notes.edit # r.s
        /\ r.op \in DocumentOps =>
             /\ doc'[r.s] # None
             /\ r.src.tx.state = "cancelled" => tx'[r.s].state = "cancelled"
        /\ r.phase = "sourced" /\ r.src.doc # None => doc'[r.seen.notes.edit] # None
        /\ r.phase = "ready" => r.src.tx.state # "none" /\ doc'[r.seen.notes.edit] # None
        BY <1>0, FinishFacts DEF SeenOK, Idle, DocumentOps
    <2> DEFINE r == req[v]
    <2>1. r.phase # "idle" => r.s \in Sessions /\ r.seen \in Row
        BY DEF IInv, RequestOK
    <2>2. r.phase # "idle" =>
             /\ session'[r.s].status # "unused"
             /\ SameEdit(r.s, r.seen.notes.edit, session'[r.s].notes.edit)
             /\ r.seen.status = "draft" => r.seen.notes.edit # r.s
        BY <2>1 DEF IInv, SeenOK, Commits, Evolves, SameEdit
    <2>3. r.op \in DocumentOps =>
             /\ doc'[r.s] # None
             /\ r.src.tx.state = "cancelled" => tx'[r.s].state = "cancelled"
        BY <2>1 DEF IInv, SeenOK, Commits, Evolves, RequestOK
    <2>4. r.phase \in {"sourced", "ready"} => r.seen.notes.edit \in Sessions
        BY <2>1 DEF IInv, RequestOK, Row, Notes
    <2>5. /\ r.phase = "sourced" /\ r.src.doc # None => doc'[r.seen.notes.edit] # None
          /\ r.phase = "ready" => r.src.tx.state # "none" /\ doc'[r.seen.notes.edit] # None
        BY <2>4 DEF IInv, SeenOK, Commits, Evolves
    <2>6. QED
        BY <2>2, <2>3, <2>5
  <1>4. LocksOK'
    <2> SUFFICES ASSUME NEW v \in Workers \ {w}
                 PROVE  LET r == req[v]
                            from == r.seen.notes.edit
                        IN  /\ RowLocks /\ r.phase \in {"locked", "sourced", "ready"} =>
                                 /\ lock'[r.s] = v
                                 /\ r.op # "finalize" => r.seen = session'[r.s]
                            /\ ~RowLocks /\ r.phase \in {"sourced", "ready"} =>
                                 /\ \A s \in Sessions : lock'[s] = v
                                 /\ r.src.row = session'[from]
                                 /\ r.src.doc = doc'[from]
                                 /\ r.phase = "ready" => r.src.tx = tx'[from]
        BY <1>0, FinishFacts DEF LocksOK, Idle
    <2> DEFINE r == req[v]
    <2>1. v # None
        BY ConstantsAssumption
    <2>2. r.phase # "idle" => r.s \in Sessions
        BY DEF IInv, RequestOK
    <2>3. r.phase \in {"sourced", "ready"} => r.seen.notes.edit \in Sessions
        BY DEF IInv, RequestOK, Row, Notes
    <2>4. \A s \in Sessions : lock[s] = v =>
             /\ lock'[s] = v
             /\ session'[s] = session[s] /\ doc'[s] = doc[s] /\ tx'[s] = tx[s]
        BY <1>0, <2>1, FinishFacts DEF Commits, WritesFree
    <2>5. QED
        BY <2>2, <2>3, <2>4 DEF IInv, LocksOK
  <1>5. QED
      BY <1>1, <1>2, <1>3, <1>4 DEF IInv, Commits

\* A step that writes one row commits.
LEMMA RowCommits ==
    ASSUME IInv, NEW w \in Workers, WritesRow(w)
    PROVE  Commits(w)
  <1> DEFINE s == req[w].s
  <1>1. PICK row \in Row :
         /\ session' = [session EXCEPT ![s] = row]
         /\ row.status # "unused"
         /\ SameEdit(s, session[s].notes.edit, row.notes.edit)
         /\ row.status = "draft" => row.notes.edit # s
         /\ \/ row.status = session[s].status
            \/ row.status = "cancelled" /\ (RowLocks => doc[s] = None)
      BY DEF WritesRow
  <1>2. s \in Sessions /\ UNCHANGED <<doc, tx, finals>>
      BY DEF WritesRow
  <1>3. RowsTyped'
      BY <1>1, <1>2 DEF RowsTyped, WritesRow, IInv, TypeOK
  <1>4. Evolves
      BY <1>1, <1>2 DEF Evolves, SameEdit, IInv, TypeOK
  <1>5. WritesFree(w)
      BY <1>1, <1>2 DEF WritesFree, WritesRow, Free, IInv, TypeOK
  <1>6. BooksOK'
      BY <1>1, <1>2 DEF BooksOK, SameEdit, IInv, TypeOK
  <1>7. RowLocks => CancelledIsVoid'
      BY <1>1, <1>2 DEF CancelledIsVoid, IInv, TypeOK
  <1>8. QED
      BY <1>3, <1>4, <1>5, <1>6, <1>7 DEF Commits, WritesRow

\* A request that ends without writing commits nothing.
LEMMA EndCommits ==
    ASSUME IInv, NEW w \in Workers, Reject(w) \/ Abort(w)
    PROVE  Commits(w)
  <1>1. Finish(w) /\ UNCHANGED <<session, lines, doc, tx, finals>>
      BY DEF Reject, Abort
  <1>2. RowsTyped' /\ Evolves /\ WritesFree(w)
      BY <1>1 DEF RowsTyped, Evolves, SameEdit, WritesFree, IInv, TypeOK
  <1>3. BooksOK' /\ (RowLocks => CancelledIsVoid')
      BY <1>1 DEF BooksOK, CancelledIsVoid, IInv
  <1>4. QED
      BY <1>1, <1>2, <1>3 DEF Commits

\* Deleting a document voids its transaction, whatever it was when it was read.
LEMMA DeleteCommits ==
    ASSUME IInv, NEW w \in Workers, DeleteDocument(w)
    PROVE  Commits(w)
  <1> DEFINE r == req[w]
             s == r.s
  <1>1. /\ s \in Sessions /\ session[s] \in Row /\ tx[s] \in Tx
        /\ r.src \in Source
        /\ doc[s] # None
        /\ r.src.tx.state = "cancelled" => tx[s].state = "cancelled"
      BY DEF DeleteDocument, At, IInv, TypeOK, RequestOK, SeenOK, DocumentOps
  <1>2. /\ session' = [session EXCEPT ![s].status = "cancelled"]
        /\ tx' = [tx EXCEPT ![s].state = "cancelled"]
        /\ UNCHANGED <<lines, doc, finals>>
        /\ Finish(w)
        /\ Free(w, {s})
      BY <1>1 DEF DeleteDocument, Written, IInv, TypeOK, Tx
  <1>3. RowsTyped'
      BY <1>1, <1>2 DEF RowsTyped, IInv, TypeOK, Row, Tx
  <1>4. Evolves
      BY <1>1, <1>2 DEF Evolves, SameEdit, IInv, TypeOK, Row, Tx
  <1>5. WritesFree(w)
      BY <1>1, <1>2 DEF WritesFree, Free, IInv, TypeOK
  <1>6. BooksOK'
      BY <1>1, <1>2 DEF BooksOK, IInv, TypeOK, Row, Tx
  <1>7. RowLocks => CancelledIsVoid'
      BY <1>1, <1>2 DEF CancelledIsVoid, IInv, TypeOK, Row, Tx
  <1>8. QED
      BY <1>2, <1>3, <1>4, <1>5, <1>6, <1>7 DEF Commits

\* A new edit draft takes an unused session.
LEMMA DraftCommits ==
    ASSUME IInv, NEW w \in Workers, NEW d \in Sessions, CreateEditDraft(w, d)
    PROVE  Commits(w)
  <1> DEFINE r == req[w]
             row == [status |-> "draft", clerk |-> r.val, customer |-> r.seen.customer,
                     notes |-> [r.src.doc.notes EXCEPT !.edit = r.s]]
  <1>1. /\ r.s \in Sessions /\ r.seen \in Row /\ r.src.doc \in Doc /\ r.val \in Clerks
        /\ session[r.s].status # "unused"
      BY DEF CreateEditDraft, At, IInv, RequestOK, SeenOK, DocumentOps
  <1>2. /\ session' = [session EXCEPT ![d] = row]
        /\ lines' = [lines EXCEPT ![d] = lines[r.s]]
        /\ session[d].status = "unused"
        /\ UNCHANGED <<doc, tx, finals>>
        /\ Finish(w)
        /\ Free(w, {d})
      BY DEF CreateEditDraft
  <1>3. row \in Row /\ row.status = "draft" /\ row.notes.edit = r.s /\ r.s # d
      BY <1>1, <1>2 DEF Row, Doc, Notes
  <1>4. doc[d] = None /\ tx[d] = NoTx
      BY <1>2 DEF IInv, BooksOK
  <1> HIDE DEF row
  <1>5. RowsTyped'
      BY <1>1, <1>2, <1>3 DEF RowsTyped, IInv, TypeOK
  <1>6. Evolves
      BY <1>2, <1>3 DEF Evolves, SameEdit, IInv, TypeOK
  <1>7. WritesFree(w)
      BY <1>2 DEF WritesFree, Free, IInv, TypeOK
  <1>8. BooksOK'
      BY <1>2, <1>3, <1>4 DEF BooksOK, IInv, TypeOK
  <1>9. RowLocks => CancelledIsVoid'
      BY <1>2, <1>4 DEF CancelledIsVoid, IInv, TypeOK
  <1>10. QED
      BY <1>2, <1>5, <1>6, <1>7, <1>8, <1>9 DEF Commits

\* Finalizing issues a document under a session that edits no other.
LEMMA FinalizeCommits ==
    ASSUME IInv, NEW w \in Workers, FinalizeWorkspace(w)
    PROVE  Commits(w)
  <1> DEFINE r == req[w]
             s == r.s
  <1>1. /\ s \in Sessions /\ r.seen \in Row /\ session[s] \in Row /\ tx[s] \in Tx
        /\ r.rows \in Rows /\ lines[s] \in Rows
        /\ r.seen.customer # None
        /\ r.seen.notes.edit = None
        /\ session[s].status # "unused"
        /\ session[s].notes.edit \in {None, s}
        /\ UNCHANGED lines
        /\ Finish(w)
        /\ Free(w, {s})
      BY DEF FinalizeWorkspace, Finalizing, At, IInv, TypeOK, RequestOK, SeenOK,
             SameEdit, Request
  <1>2. PICK row \in Row : /\ session' = [session EXCEPT ![s] = row]
                           /\ row.status = "confirmed"
                           /\ row.notes.edit \in {None, s}
    <2>1. PICK n \in {session[s].notes, r.seen.notes} :
             session' = [session EXCEPT ![s].status = "confirmed", ![s].notes = n]
        BY DEF FinalizeWorkspace
    <2> DEFINE row == [session[s] EXCEPT !.status = "confirmed", !.notes = n]
    <2>2. n \in Notes /\ n.edit \in {None, s}
        BY <1>1 DEF Row
    <2>3. row \in Row /\ row.status = "confirmed" /\ row.notes.edit \in {None, s}
        BY <1>1, <2>2 DEF Row
    <2>4. session' = [session EXCEPT ![s] = row]
        BY <1>1, <2>1 DEF IInv, TypeOK, Row
    <2>5. QED
        BY <2>3, <2>4
  <1>3. PICK d \in Doc : doc' = [doc EXCEPT ![s] = d]
    <2> DEFINE d == [amount |-> r.rows, who |-> Effective(r.seen),
                     notes |-> IF doc[s] # None THEN doc[s].notes ELSE r.seen.notes]
    <2>1. Effective(r.seen) \in Customers
        BY <1>1 DEF Effective, Row, Notes
    <2>2. d \in Doc
        BY <1>1, <2>1 DEF IInv, TypeOK, Row, Doc
    <2>3. doc' = [doc EXCEPT ![s] = d]
        BY DEF FinalizeWorkspace
    <2>4. QED
        BY <2>2, <2>3
  <1>4. PICK t \in Tx : /\ tx' = [tx EXCEPT ![s] = t]
                        /\ t.state # "none"
                        /\ tx[s].state = "cancelled" => t.state = "cancelled"
    <2> DEFINE new == [state |-> "confirmed", amount |-> r.rows,
                       lines |-> lines[s], customer |-> r.seen.customer]
               t == IF tx[s].state # "none" THEN tx[s] ELSE new
    <2>1. new \in Tx
        BY <1>1 DEF Tx, Row
    <2>2. tx' = [tx EXCEPT ![s] = t]
        BY DEF FinalizeWorkspace
    <2>3. QED
        BY <1>1, <2>1, <2>2
  <1>5. finals' \in [Sessions -> Nat]
      BY <1>1 DEF FinalizeWorkspace, IInv, TypeOK
  <1>6. RowsTyped'
      BY <1>1, <1>2, <1>3, <1>4, <1>5 DEF RowsTyped, IInv, TypeOK
  <1>7. Evolves
      BY <1>1, <1>2, <1>3, <1>4, NoneAssumption DEF Evolves, SameEdit, IInv, TypeOK
  <1>8. WritesFree(w)
      BY <1>1, <1>2, <1>3, <1>4 DEF WritesFree, Free, IInv, TypeOK
  <1>9. BooksOK'
      BY <1>1, <1>2, <1>3, <1>4, NoneAssumption DEF BooksOK, IInv, TypeOK
  <1>10. RowLocks => CancelledIsVoid'
      BY <1>1, <1>2, <1>3, <1>4 DEF CancelledIsVoid, IInv, TypeOK
  <1>11. QED
      BY <1>1, <1>6, <1>7, <1>8, <1>9, <1>10 DEF Commits

\* What the finalize of an edit stands on when it commits.
LEMMA EditFacts ==
    ASSUME IInv, NEW w \in Workers, FinalizeEdit(w)
    PROVE  LET r    == req[w]
               from == r.seen.notes.edit
           IN  /\ r.s \in Sessions /\ from \in Sessions /\ from # r.s
               /\ r.seen \in Row /\ r.rows \in Rows /\ r.src \in Source
               /\ r.src.doc \in Doc /\ r.seen.customer # None
               /\ session[r.s].status # "unused" /\ doc[r.s] = None
               /\ session[r.s].notes.edit = from
               /\ doc[from] # None
               /\ r.src.row.status # "cancelled" /\ r.src.tx.state = "confirmed"
  <1> DEFINE r == req[w]
             from == r.seen.notes.edit
  <1>1. r.phase = "ready" /\ ~SourceCancelled(r)
      BY DEF FinalizeEdit, At
  <1>2. /\ r.s \in Sessions /\ r.seen \in Row /\ r.rows \in Rows /\ r.src \in Source
        /\ r.src.doc \in Doc /\ r.seen.customer # None
        /\ r.seen.status = "draft" /\ from # None
      BY <1>1 DEF IInv, RequestOK, TypeOK, Request
  <1>3. from \in Sessions /\ r.src.tx \in Tx
      BY <1>2 DEF Row, Notes, Source
  <1>4. /\ from # r.s /\ session[r.s].status # "unused"
        /\ session[r.s].notes.edit = from
        /\ doc[from] # None /\ r.src.tx.state # "none"
      BY <1>1, <1>2 DEF IInv, SeenOK, SameEdit
  <1>5. doc[r.s] = None
      BY <1>2, <1>4 DEF IInv, BooksOK
  <1>6. r.src.row.status # "cancelled" /\ r.src.tx.state = "confirmed"
      BY <1>1, <1>3, <1>4 DEF SourceCancelled, Tx
  <1>7. QED
      BY <1>2, <1>3, <1>4, <1>5, <1>6

\* Finalizing an edit revises the document it edits, or leaves it void.
LEMMA EditCommits ==
    ASSUME IInv, NEW w \in Workers, FinalizeEdit(w)
    PROVE  Commits(w)
  <1> DEFINE r == req[w]
             s == r.s
             from == r.seen.notes.edit
  <1>1. /\ s \in Sessions /\ from \in Sessions /\ from # s
        /\ r.seen \in Row /\ r.rows \in Rows /\ r.src \in Source
        /\ r.src.doc \in Doc /\ r.seen.customer # None
        /\ session[s].status # "unused" /\ doc[s] = None
        /\ session[s].notes.edit = from
        /\ doc[from] # None
        /\ r.src.row.status # "cancelled" /\ r.src.tx.state = "confirmed"
      BY EditFacts
  <1>2. Finish(w) /\ Free(w, {s, from}) /\ UNCHANGED finals
      BY DEF FinalizeEdit
  <1>3. /\ session[s] \in Row /\ session[from] \in Row
        /\ doc[from] \in Doc /\ tx[from] \in Tx
        /\ session[from].status \notin {"unused", "draft"}
        /\ session[from].notes.edit \in {None, from}
        /\ tx[from].state # "none"
      BY <1>1 DEF IInv, TypeOK, BooksOK
  <1>4. PICK own \in Row, source \in Row :
           /\ session' = [session EXCEPT ![from] = source, ![s] = own]
           /\ own.status = "cancelled" /\ own.notes.edit = from
           /\ source.status \in {session[from].status, "confirmed"}
           /\ source.notes.edit \in {None, from}
    <2> DEFINE own == [session[s] EXCEPT !.status = "cancelled", !.notes = r.seen.notes]
               source == [session[from] EXCEPT
                            !.status   = Written(r.src.row.status, "confirmed", @),
                            !.customer = Written(r.src.row.customer, r.seen.customer, @),
                            !.notes    = Written(r.src.row.notes, r.seen.notes, @)]
    <2>1. own \in Row /\ own.status = "cancelled" /\ own.notes.edit = from
        BY <1>1, <1>3 DEF Row
    <2>2. /\ source \in Row
          /\ source.status \in {session[from].status, "confirmed"}
          /\ source.notes.edit \in {None, from}
        BY <1>1, <1>3 DEF Row, Written
    <2>3. session' = [session EXCEPT ![from] = source, ![s] = own]
        BY <1>1, <1>3 DEF FinalizeEdit, IInv, TypeOK, Row
    <2>4. QED
        BY <2>1, <2>2, <2>3
  <1>5. PICK d \in Doc : doc' = [doc EXCEPT ![from] = d]
    <2> DEFINE d == [doc[from] EXCEPT
                        !.amount = Written(r.src.doc.amount, r.rows, @),
                        !.who    = Written(r.src.doc.who, Effective(r.seen), @),
                        !.notes  = Written(r.src.doc.notes, r.seen.notes, @)]
    <2>1. Effective(r.seen) \in Customers
        BY <1>1 DEF Effective, Row, Notes
    <2>2. d \in Doc
        BY <1>1, <1>3, <2>1 DEF Doc, Written, Row
    <2>3. doc' = [doc EXCEPT ![from] = d]
        BY <1>1, <1>3 DEF FinalizeEdit, IInv, TypeOK, Doc
    <2>4. QED
        BY <2>2, <2>3
  <1>6. PICK t \in Tx : tx' = [tx EXCEPT ![from] = t] /\ t.state = tx[from].state
    <2> DEFINE t == Revised(r, tx[from])
    <2>1. t \in Tx /\ t.state = tx[from].state
        BY <1>1, <1>3 DEF Revised, Written, Tx, Row
    <2>2. tx' = [tx EXCEPT ![from] = t]
        BY DEF FinalizeEdit
    <2>3. QED
        BY <2>1, <2>2
  <1>7. lines' \in [Sessions -> Rows]
      BY <1>1 DEF FinalizeEdit, IInv, TypeOK
  <1>8. RowsTyped'
      BY <1>1, <1>2, <1>4, <1>5, <1>6, <1>7 DEF RowsTyped, IInv, TypeOK
  <1>9. Evolves
      BY <1>1, <1>3, <1>4, <1>5, <1>6, NoneAssumption DEF Evolves, SameEdit, IInv, TypeOK
  <1>10. WritesFree(w)
      BY <1>1, <1>2, <1>4, <1>5, <1>6 DEF WritesFree, Free, IInv, TypeOK
  <1>11. BooksOK'
      BY <1>1, <1>3, <1>4, <1>5, <1>6, NoneAssumption, ConstantsAssumption
      DEF BooksOK, IInv, TypeOK
  <1>12. RowLocks => CancelledIsVoid'
      BY <1>1, <1>3, <1>4, <1>5, <1>6 DEF CancelledIsVoid, IInv, TypeOK
  <1>13. QED
      BY <1>2, <1>8, <1>9, <1>10, <1>11, <1>12 DEF Commits

\* A request that takes a step short of its commit: its own record changes, no row does.
Advances(w) ==
    /\ UNCHANGED <<session, lines, doc, tx, finals>>
    /\ \E r \in Request : req' = [req EXCEPT ![w] = r]
    /\ \/ UNCHANGED lock
       \/ RowLocks /\ lock[req[w].s] = None /\ lock' = [lock EXCEPT ![req[w].s] = w]
       \/ ~RowLocks /\ Free(w, Sessions) /\ lock' = [s \in Sessions |-> w]

\* The other requests notice nothing: what remains to be shown is about w.
LEMMA AdvanceOK ==
    ASSUME IInv, NEW w \in Workers, Advances(w),
           RequestOK(w)',
           LET r == req'[w] IN
             /\ r.phase # "idle" =>
                  /\ session[r.s].status # "unused"
                  /\ SameEdit(r.s, r.seen.notes.edit, session[r.s].notes.edit)
                  /\ r.seen.status = "draft" => r.seen.notes.edit # r.s
             /\ r.op \in DocumentOps =>
                  /\ doc[r.s] # None
                  /\ r.src.tx.state = "cancelled" => tx[r.s].state = "cancelled"
             /\ r.phase = "sourced" /\ r.src.doc # None => doc[r.seen.notes.edit] # None
             /\ r.phase = "ready" => r.src.tx.state # "none" /\ doc[r.seen.notes.edit] # None,
           LET r == req'[w]
               from == r.seen.notes.edit
           IN  /\ RowLocks /\ r.phase \in {"locked", "sourced", "ready"} =>
                    /\ lock'[r.s] = w
                    /\ r.op # "finalize" => r.seen = session[r.s]
               /\ ~RowLocks /\ r.phase \in {"sourced", "ready"} =>
                    /\ \A s \in Sessions : lock'[s] = w
                    /\ r.src.row = session[from]
                    /\ r.src.doc = doc[from]
                    /\ r.phase = "ready" => r.src.tx = tx[from]
    PROVE  IInv' /\ Evolves
  <1>1. UNCHANGED <<session, lines, doc, tx, finals>>
      BY DEF Advances
  <1>2. PICK r \in Request : req' = [req EXCEPT ![w] = r]
      BY DEF Advances
  <1>3. \A v \in Workers \ {w} : req'[v] = req[v]
      BY <1>2 DEF IInv, TypeOK
  <1>4. TypeOK'
      BY <1>1, <1>2 DEF IInv, TypeOK, Advances
  <1>5. \A v \in Workers : RequestOK(v)'
      BY <1>3 DEF IInv, RequestOK
  <1>6. BooksOK' /\ (RowLocks => CancelledIsVoid')
      BY <1>1 DEF IInv, BooksOK, CancelledIsVoid
  <1>7. SeenOK'
    <2>1. \A v \in Workers \ {w} : req'[v] = req[v]
        BY <1>3
    <2>2. QED
        BY <1>1, <2>1 DEF IInv, SeenOK
  <1>8. LocksOK'
    <2>1. \A v \in Workers \ {w}, s \in Sessions : lock[s] = v => lock'[s] = v
        BY ConstantsAssumption DEF Advances, Free, IInv, TypeOK
    <2>2. \A v \in Workers : req[v].phase # "idle" => req[v].s \in Sessions
        BY DEF IInv, RequestOK
    <2>3. QED
        BY <1>1, <1>3, <2>1, <2>2 DEF IInv, LocksOK
  <1>9. Evolves
      BY <1>1 DEF Evolves, SameEdit
  <1>10. QED
      BY <1>4, <1>5, <1>6, <1>7, <1>8, <1>9 DEF IInv

\* A request arrives and loads its session, or the document it is about.
LEMMA LoadOK ==
    ASSUME IInv, NEW w \in Workers, Arrive(w)
    PROVE  IInv' /\ Evolves
  <1>1. ASSUME NEW op \in Ops \ DocumentOps, NEW s \in Sessions, NEW v \in Values(op),
               NEW base \in Bases \cup {None}, Load(w, op, s, v, base)
        PROVE  IInv' /\ Evolves
    <2> DEFINE r == [Idle EXCEPT !.op = op, !.s = s, !.phase = "loaded",
                                 !.val = v, !.base = base, !.seen = session[s]]
    <2>1. /\ session[s] \in Row /\ session[s].status # "unused"
          /\ UNCHANGED <<session, lines, doc, tx, finals, lock>>
          /\ req' = [req EXCEPT ![w] = r]
        BY <1>1 DEF Load, IInv, TypeOK
    <2>2. /\ op \in {"customer", "draft_customer", "select"} => v \in Customers
          /\ op \in {"sections", "office", "import", "line"} => v \in Rows
          /\ v \in Customers \cup Rows \cup {None}
        BY DEF Values, Ops, LockingOps, Saves, DocumentOps
    <2>3. r \in Request
        BY <2>1, <2>2, ConstantsAssumption DEF Idle, Request
    <2>4. Advances(w) /\ req'[w] = r
        BY <2>1, <2>3 DEF Advances, IInv, TypeOK
    <2>5. /\ r.op = op /\ r.s = s /\ r.phase = "loaded" /\ r.val = v
          /\ r.seen = session[s] /\ op \notin DocumentOps
        BY DEF Idle
    <2> HIDE DEF r
    <2>6. RequestOK(w)'
        BY <2>1, <2>2, <2>4, <2>5 DEF RequestOK, DocumentOps
    <2>7. session[s].status = "draft" => session[s].notes.edit # s
        BY DEF IInv, BooksOK
    <2>8. QED
        BY <2>1, <2>4, <2>5, <2>6, <2>7, AdvanceOK DEF SameEdit
  <1>2. ASSUME NEW op \in DocumentOps, NEW s \in Sessions, NEW c \in Clerks \cup {None},
               op = "edit" => c \in Clerks, LoadDocument(w, op, s, c)
        PROVE  IInv' /\ Evolves
    <2> DEFINE src == [row |-> session[s], doc |-> doc[s], tx |-> tx[s]]
               r == [Idle EXCEPT !.op = op, !.s = s, !.phase = "loaded", !.val = c,
                                 !.seen = session[s], !.src = src]
    <2>1. /\ session[s] \in Row /\ doc[s] \in Doc /\ tx[s] \in Tx /\ doc[s] # None
          /\ UNCHANGED <<session, lines, doc, tx, finals, lock>>
          /\ req' = [req EXCEPT ![w] = r]
        BY <1>2 DEF LoadDocument, IInv, TypeOK
    <2>2. src \in Source
        BY <2>1 DEF Source
    <2>3. r \in Request
        BY <2>1, <2>2, ConstantsAssumption DEF Idle, Request, Ops
    <2>4. Advances(w) /\ req'[w] = r
        BY <2>1, <2>3 DEF Advances, IInv, TypeOK
    <2>5. /\ r.op = op /\ r.s = s /\ r.phase = "loaded" /\ r.val = c
          /\ r.seen = session[s] /\ r.src = src
          /\ src.doc = doc[s] /\ src.tx = tx[s]
        BY DEF Idle
    <2> HIDE DEF r, src
    <2>6. RequestOK(w)'
        BY <1>2, <2>1, <2>2, <2>4, <2>5 DEF RequestOK, DocumentOps
    <2>7. /\ session[s].status # "unused"
          /\ session[s].status = "draft" => session[s].notes.edit # s
        BY <2>1 DEF IInv, BooksOK
    <2>8. QED
        BY <2>1, <2>4, <2>5, <2>6, <2>7, AdvanceOK DEF SameEdit
  <1>3. QED
      BY <1>1, <1>2 DEF Arrive, OpenForEdit, Ops, LockingOps, Saves, DocumentOps

\* Taking the row lock; all but finalize read the row again.
LEMMA LockOK ==
    ASSUME IInv, NEW w \in Workers, Lock(w)
    PROVE  IInv' /\ Evolves
  <1> DEFINE s == req[w].s
             r == Relocked(req[w])
  <1>1. /\ req[w] \in Request /\ s \in Sessions /\ req[w].seen \in Row
        /\ session[s] \in Row /\ lines[s] \in Rows
        /\ req[w].op \in LockingOps /\ req[w].phase = "loaded"
        /\ session[s].status # "unused"
        /\ SameEdit(s, req[w].seen.notes.edit, session[s].notes.edit)
        /\ req[w].seen.status = "draft" => req[w].seen.notes.edit # s
        /\ session[s].status = "draft" => session[s].notes.edit # s
      BY DEF Lock, IInv, TypeOK, RequestOK, SeenOK, BooksOK
  <1>2. /\ UNCHANGED <<session, lines, doc, tx, finals>>
        /\ RowLocks => lock[s] = None
        /\ lock' = IF RowLocks THEN [lock EXCEPT ![s] = w] ELSE lock
        /\ req' = [req EXCEPT ![w] = r]
      BY DEF Lock
  <1>3. r \in Request
      BY <1>1, ConstantsAssumption DEF Relocked, Request
  <1>4. /\ r.op = req[w].op /\ r.s = s /\ r.phase = "locked" /\ r.val = req[w].val
        /\ r.seen \in {req[w].seen, session[s]}
        /\ r.op # "finalize" => r.seen = session[s]
      BY <1>1 DEF Relocked, Request
  <1>5. Advances(w) /\ req'[w] = r
      BY <1>1, <1>2, <1>3, ConstantsAssumption DEF Advances, IInv, TypeOK
  <1>6. r.op \notin DocumentOps
      BY <1>1, <1>4 DEF LockingOps, Saves, DocumentOps
  <1> HIDE DEF r
  <1>7. RequestOK(w)'
      BY <1>1, <1>4, <1>5, <1>6 DEF RequestOK, IInv, DocumentOps
  <1>8. RowLocks => lock'[s] = w
      BY <1>1, <1>2 DEF IInv, TypeOK
  <1>9. SameEdit(s, r.seen.notes.edit, session[s].notes.edit)
      BY <1>1, <1>4 DEF SameEdit
  <1>10. QED
      BY <1>1, <1>2, <1>4, <1>5, <1>6, <1>7, <1>8, <1>9, AdvanceOK

\* The finalize of an edit reads its source; on SQLite it has locked everything.
LEMMA ReadSourceOK ==
    ASSUME IInv, NEW w \in Workers, ReadSource(w)
    PROVE  IInv' /\ Evolves
  <1> DEFINE old == req[w]
             from == old.seen.notes.edit
             src == [row |-> session[from], doc |-> doc[from], tx |-> NoTx]
             r == [old EXCEPT !.phase = "sourced", !.src = src]
  <1>1. /\ old \in Request /\ old.op = "finalize" /\ old.phase = "locked"
        /\ old.seen.status = "draft" /\ old.seen.customer # None /\ from # None
        /\ old.s \in Sessions /\ old.seen \in Row
      BY DEF ReadSource, Finalizing, At, IInv, TypeOK, RequestOK
  <1>2. from \in Sessions /\ session[from] \in Row /\ doc[from] \in Doc \cup {None}
      BY <1>1 DEF Row, Notes, IInv, TypeOK
  <1>3. /\ UNCHANGED <<session, lines, doc, tx, finals>>
        /\ ~RowLocks => Free(w, Sessions)
        /\ lock' = IF RowLocks THEN lock ELSE [s \in Sessions |-> w]
        /\ req' = [req EXCEPT ![w] = r]
      BY DEF ReadSource
  <1>4. src \in Source
      BY <1>2, ConstantsAssumption DEF Source, NoTx, Tx
  <1>5. r \in Request
      BY <1>1, <1>4 DEF Request
  <1>6. /\ r.op = "finalize" /\ r.s = old.s /\ r.phase = "sourced"
        /\ r.seen = old.seen /\ r.src = src /\ r.val = old.val
      BY <1>1 DEF Request
  <1>7. Advances(w) /\ req'[w] = r
      BY <1>3, <1>5, ConstantsAssumption DEF Advances, IInv, TypeOK
  <1>8. src.row = session[from] /\ src.doc = doc[from]
      OBVIOUS
  <1> HIDE DEF r, src
  <1>9. RequestOK(w)'
      BY <1>1, <1>4, <1>6, <1>7 DEF RequestOK, DocumentOps
  <1>10. /\ session[old.s].status # "unused"
         /\ SameEdit(old.s, old.seen.notes.edit, session[old.s].notes.edit)
         /\ old.seen.status = "draft" => old.seen.notes.edit # old.s
         /\ RowLocks => lock[old.s] = w
      BY <1>1 DEF IInv, SeenOK, LocksOK
  <1>11. RowLocks => lock'[old.s] = w
      BY <1>3, <1>10
  <1>12. ~RowLocks => \A s \in Sessions : lock'[s] = w
      BY <1>3, ConstantsAssumption
  <1>13. QED
      BY <1>6, <1>7, <1>8, <1>9, <1>10, <1>11, <1>12, AdvanceOK DEF DocumentOps

\* It reads the source's transaction: one exists, since the document does.
LEMMA ReadTransactionOK ==
    ASSUME IInv, NEW w \in Workers, ReadSourceTransaction(w)
    PROVE  IInv' /\ Evolves
  <1> DEFINE old == req[w]
             from == old.seen.notes.edit
             src == [old.src EXCEPT !.tx = tx[from]]
             r == [old EXCEPT !.phase = "ready", !.src = src]
  <1>1. /\ old \in Request /\ old.op = "finalize" /\ old.phase = "sourced"
        /\ old.seen.status = "draft" /\ old.seen.customer # None /\ from # None
        /\ old.s \in Sessions /\ old.seen \in Row
        /\ old.src \in Source /\ old.src.doc # None
      BY DEF ReadSourceTransaction, At, IInv, TypeOK, RequestOK
  <1>2. /\ from \in Sessions /\ tx[from] \in Tx
        /\ doc[from] # None /\ tx[from].state # "none"
      BY <1>1 DEF Row, Notes, IInv, TypeOK, SeenOK, BooksOK
  <1>3. /\ UNCHANGED <<session, lines, doc, tx, finals, lock>>
        /\ req' = [req EXCEPT ![w] = r]
      BY <1>1 DEF ReadSourceTransaction, Request
  <1>4. /\ src \in Source /\ src.doc \in Doc /\ src.tx = tx[from]
        /\ src.row = old.src.row /\ src.doc = old.src.doc
      BY <1>1, <1>2 DEF Source
  <1>5. r \in Request
      BY <1>1, <1>4 DEF Request
  <1>6. /\ r.op = "finalize" /\ r.s = old.s /\ r.phase = "ready"
        /\ r.seen = old.seen /\ r.src = src /\ r.val = old.val
      BY <1>1 DEF Request
  <1>7. Advances(w) /\ req'[w] = r
      BY <1>3, <1>5 DEF Advances, IInv, TypeOK
  <1> HIDE DEF r, src
  <1>8. RequestOK(w)'
      BY <1>1, <1>4, <1>6, <1>7 DEF RequestOK, DocumentOps
  <1>9. /\ session[old.s].status # "unused"
        /\ SameEdit(old.s, old.seen.notes.edit, session[old.s].notes.edit)
        /\ old.seen.status = "draft" => old.seen.notes.edit # old.s
        /\ RowLocks => lock[old.s] = w
        /\ ~RowLocks => /\ \A s \in Sessions : lock[s] = w
                        /\ old.src.row = session[from]
                        /\ old.src.doc = doc[from]
      BY <1>1 DEF IInv, SeenOK, LocksOK
  <1>10. QED
      BY <1>2, <1>3, <1>4, <1>6, <1>7, <1>8, <1>9, AdvanceOK DEF DocumentOps

\* A workspace is created where no request and no lock can be.
LEMMA CreateOK ==
    ASSUME IInv, NEW s \in Sessions, NEW c \in Clerks, NEW cust \in Customers \cup {None},
           CreateWorkspace(s, c, cust)
    PROVE  IInv' /\ Evolves
  <1> DEFINE row == [UnusedRow EXCEPT !.status = "draft", !.clerk = c, !.customer = cust]
  <1>1. /\ session[s].status = "unused" /\ lock[s] = None
        /\ session' = [session EXCEPT ![s] = row]
        /\ UNCHANGED <<lines, doc, tx, finals, lock, req>>
      BY DEF CreateWorkspace
  <1>2. row \in Row /\ row.status = "draft" /\ row.notes.edit = None
      BY ConstantsAssumption DEF UnusedRow, Row, Notes
  <1>3. doc[s] = None /\ tx[s] = NoTx
      BY <1>1 DEF IInv, BooksOK
  <1> HIDE DEF row
  <1>4. TypeOK'
      BY <1>1, <1>2 DEF IInv, TypeOK
  <1>5. \A w \in Workers : RequestOK(w)'
      BY <1>1 DEF IInv, RequestOK
  <1>6. BooksOK'
      BY <1>1, <1>2, <1>3, ConstantsAssumption DEF IInv, BooksOK, TypeOK
  <1>7. \A w \in Workers : req[w].phase # "idle" => req[w].s \in Sessions \ {s}
      BY <1>1 DEF IInv, RequestOK, SeenOK
  <1>8. SeenOK'
      BY <1>1, <1>7 DEF IInv, SeenOK, TypeOK
  <1>9. LocksOK'
    <2>1. \A w \in Workers : w # None
        BY ConstantsAssumption
    <2>2. \A w \in Workers : req[w].phase \in {"sourced", "ready"} =>
                                req[w].seen.notes.edit \in Sessions
        BY DEF IInv, RequestOK, Row, Notes
    <2>3. QED
        BY <1>1, <1>7, <2>1, <2>2 DEF IInv, LocksOK, TypeOK
  <1>10. RowLocks => CancelledIsVoid'
      BY <1>1, <1>3 DEF IInv, CancelledIsVoid, TypeOK
  <1>11. Evolves
      BY <1>1, <1>2 DEF Evolves, SameEdit, IInv, TypeOK
  <1>12. QED
      BY <1>4, <1>5, <1>6, <1>8, <1>9, <1>10, <1>11 DEF IInv

-----------------------------------------------------------------------------

\* Every step keeps the invariant and undoes nothing.
LEMMA StepOK == IInv /\ [Next]_vars => IInv' /\ Evolves
  <1> SUFFICES ASSUME IInv, [Next]_vars PROVE IInv' /\ Evolves
      OBVIOUS
  <1>1. CASE \E s \in Sessions, c \in Clerks, cust \in Customers \cup {None} :
                CreateWorkspace(s, c, cust)
      BY <1>1, CreateOK
  <1>2. ASSUME NEW w \in Workers, Arrive(w) PROVE IInv' /\ Evolves
      BY <1>2, LoadOK
  <1>3. ASSUME NEW w \in Workers, Proceed(w) PROVE IInv' /\ Evolves
    <2>1. CASE \/ SaveCustomer(w) \/ SaveDraftCustomer(w) \/ SelectCustomer(w)
               \/ DetachCustomer(w) \/ ReplaceSections(w) \/ SaveOfficeDocument(w)
               \/ ImportWorkbook(w) \/ EditLine(w)
               \/ CancelWorkspace(w) \/ CloseOrphanedEdit(w)
        BY <2>1, RowSteps, RowCommits, CommitOK
    <2>2. CASE FinalizeWorkspace(w)
        BY <2>2, FinalizeCommits, CommitOK
    <2>3. CASE FinalizeEdit(w)
        BY <2>3, EditCommits, CommitOK
    <2>4. CASE \E d \in Sessions : CreateEditDraft(w, d)
        BY <2>4, DraftCommits, CommitOK
    <2>5. CASE DeleteDocument(w)
        BY <2>5, DeleteCommits, CommitOK
    <2>6. CASE Reject(w)
        BY <2>6, EndCommits, CommitOK
    <2>7. CASE Lock(w)
        BY <2>7, LockOK
    <2>8. CASE ReadSource(w)
        BY <2>8, ReadSourceOK
    <2>9. CASE ReadSourceTransaction(w)
        BY <2>9, ReadTransactionOK
    <2>10. QED
        BY <1>3, <2>1, <2>2, <2>3, <2>4, <2>5, <2>6, <2>7, <2>8, <2>9 DEF Proceed
  <1>4. ASSUME NEW w \in Workers, Abort(w) PROVE IInv' /\ Evolves
      BY <1>4, EndCommits, CommitOK
  <1>5. CASE UNCHANGED vars
    <2>1. UNCHANGED <<session, lines, doc, tx, finals, lock, req>>
        BY <1>5 DEF vars
    <2>2. TypeOK' /\ BooksOK' /\ (RowLocks => CancelledIsVoid')
        BY <2>1 DEF IInv, TypeOK, BooksOK, CancelledIsVoid
    <2>3. (\A w \in Workers : RequestOK(w)') /\ SeenOK' /\ LocksOK'
        BY <2>1 DEF IInv, RequestOK, SeenOK, LocksOK
    <2>4. Evolves
        BY <2>1 DEF Evolves, SameEdit
    <2>5. QED
        BY <2>2, <2>3, <2>4 DEF IInv
  <1>6. QED
      BY <1>1, <1>2, <1>3, <1>4, <1>5 DEF Next

\* The inductive invariant holds in every reachable state.
THEOREM Invariance == Spec => []IInv
  <1>1. Init => IInv
      BY InitHolds
  <1>2. IInv /\ [Next]_vars => IInv'
      BY StepOK
  <1>3. QED
      BY <1>1, <1>2, PTL DEF Spec

\* Type correctness.
THEOREM TypeCorrect == Spec => []TypeOK
  <1>1. IInv => TypeOK
      BY DEF IInv
  <1>2. QED
      BY <1>1, Invariance, PTL

\* On PostgreSQL a cancelled session's document never has a transaction that
\* still counts.
THEOREM VoidWhenCancelled == RowLocks => (Spec => []CancelledIsVoid)
  <1> SUFFICES ASSUME RowLocks PROVE Spec => []CancelledIsVoid
      OBVIOUS
  <1>1. IInv => CancelledIsVoid
      BY DEF IInv
  <1>2. QED
      BY <1>1, Invariance, PTL

\* On either database a transaction, once void, stays void.
THEOREM DeletionsStand == Spec => DeletionsAreFinal
  <1>1. IInv /\ [Next]_vars =>
           [\A s \in Sessions : tx[s].state = "cancelled" => tx'[s].state = "cancelled"]_vars
      BY StepOK DEF Evolves
  <1>2. QED
      BY <1>1, Invariance, PTL DEF Spec, DeletionsAreFinal

\* On either database nothing is ever issued under an edit draft.
THEOREM NothingIssuedByEdits == Spec => EditsIssueNothing
  <1>1. ASSUME IInv, [Next]_vars, NEW s \in Sessions, session[s].notes.edit \notin {None, s}
        PROVE  /\ session'[s].notes.edit = session[s].notes.edit
               /\ doc'[s] = None
               /\ tx'[s] = NoTx
    <2>1. IInv' /\ Evolves
        BY <1>1, StepOK
    <2>2. session[s].status # "unused"
        BY <1>1 DEF IInv, BooksOK
    <2>3. session'[s].notes.edit = session[s].notes.edit
        BY <1>1, <2>1, <2>2 DEF Evolves, SameEdit
    <2>4. doc'[s] = None /\ tx'[s] = NoTx
        BY <1>1, <2>1, <2>3 DEF IInv, BooksOK
    <2>5. QED
        BY <2>3, <2>4
  <1>2. IInv /\ [Next]_vars =>
           [\A s \in Sessions :
               session[s].notes.edit \notin {None, s} =>
                   /\ session'[s].notes.edit = session[s].notes.edit
                   /\ doc'[s] = None
                   /\ tx'[s] = NoTx]_vars
      BY <1>1
  <1>3. QED
      BY <1>2, Invariance, PTL DEF Spec, EditsIssueNothing
=============================================================================
