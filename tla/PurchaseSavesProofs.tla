------------------------- MODULE PurchaseSavesProofs -------------------------
(***************************************************************************)
(* The saves of a draft are serial and refuse a stale base revision, on    *)
(* either database: the compare-and-swap alone carries both.  A cancel, on *)
(* PostgreSQL, only ever closes a draft: there the row lock carries it.    *)
(***************************************************************************)
EXTENDS PurchaseWorkspaceProofs

\* The six saves that claim a revision.
SavesDraft(w) ==
    \/ SaveCustomer(w) \/ SaveDraftCustomer(w) \/ SelectCustomer(w)
    \/ DetachCustomer(w) \/ ReplaceSections(w) \/ SaveOfficeDocument(w)

\* What each of them writes over the claimed notes.
LEMMA SaveWrites ==
    ASSUME IInv, NEW w \in Workers, SavesDraft(w)
    PROVE  LET s   == req[w].s
               op  == req[w].op
               new == session'[s].notes
           IN  \E u \in Customers \cup {None}, v \in Rows :
                 \/ /\ op \in {"customer", "draft_customer", "select", "detach"}
                    /\ new = [ClaimedNotes(w) EXCEPT !.snap = u]
                 \/ op = "sections" /\ new = [ClaimedNotes(w) EXCEPT !.form = v]
                 \/ op = "office" /\ new = [ClaimedNotes(w) EXCEPT !.snap = u, !.form = v]
  <1> DEFINE r == req[w]
             s == r.s
  <1>1. /\ s \in Sessions /\ session \in [Sessions -> Row]
        /\ r.op \in {"customer", "draft_customer", "select"} => r.val \in Customers
        /\ r.op \in {"sections", "office"} => r.val \in Rows
        /\ NoRows \in Rows
      BY ConstantsAssumption
      DEF SavesDraft, Saving, At, SaveCustomer, SaveDraftCustomer, SelectCustomer,
          DetachCustomer, ReplaceSections, SaveOfficeDocument, IInv, TypeOK, RequestOK
  <1>2. CASE \/ SaveCustomer(w) \/ SaveDraftCustomer(w) \/ SelectCustomer(w)
             \/ DetachCustomer(w)
    <2>1. r.op \in {"customer", "draft_customer", "select", "detach"}
        BY <1>2 DEF SaveCustomer, SaveDraftCustomer, SelectCustomer, DetachCustomer, Saving, At
    <2>2. CASE SaveCustomer(w) \/ SaveDraftCustomer(w)
      <3>1. r.val \in Customers
          BY <1>1, <2>2 DEF SaveCustomer, SaveDraftCustomer, Saving, At
      <3>2. session'[s].notes = [ClaimedNotes(w) EXCEPT !.snap = r.val]
          BY <1>1, <2>2 DEF SaveCustomer, SaveDraftCustomer, Row
      <3>3. QED
          BY <1>1, <2>1, <3>1, <3>2
    <2>3. CASE SelectCustomer(w) \/ DetachCustomer(w)
      <3>1. session'[s].notes = [ClaimedNotes(w) EXCEPT !.snap = None]
          BY <1>1, <2>3 DEF SelectCustomer, DetachCustomer, Row
      <3>2. QED
          BY <1>1, <2>1, <3>1
    <2>4. QED
        BY <1>2, <2>2, <2>3
  <1>3. CASE ReplaceSections(w)
    <2>1. r.op = "sections" /\ r.val \in Rows
        BY <1>1, <1>3 DEF ReplaceSections, Saving, At
    <2>2. session'[s].notes = [ClaimedNotes(w) EXCEPT !.form = r.val]
        BY <1>1, <1>3 DEF ReplaceSections, Row
    <2>3. QED
        BY <2>1, <2>2
  <1>4. CASE SaveOfficeDocument(w)
    <2>1. r.op = "office" /\ r.val \in Rows
        BY <1>1, <1>4 DEF SaveOfficeDocument, Saving, At
    <2>2. PICK c \in Customers :
             session'[s].notes = [ClaimedNotes(w) EXCEPT !.snap = c, !.form = r.val]
        BY <1>1, <1>4 DEF SaveOfficeDocument, Row
    <2>3. QED
        BY <2>1, <2>2
  <1>5. QED
      BY <1>2, <1>3, <1>4 DEF SavesDraft

\* What an accepted save does to its session: the claim is that the notes it
\* builds on are the current ones.
LEMMA SaveFacts ==
    ASSUME IInv, NEW w \in Workers, SavesDraft(w)
    PROVE  LET r   == req[w]
               old == session[r.s].notes
               new == session'[r.s].notes
           IN  /\ session[r.s].status = "draft"
               /\ r.base \in {None, old.rev}
               /\ new.rev = old.rev + 1
               /\ new.edit = old.edit
               /\ r.op \in {"customer", "draft_customer", "select", "detach"}
                    => new.form = old.form
               /\ r.op = "sections" => new.snap = old.snap
  <1> DEFINE r == req[w]
             s == r.s
  <1>1. Claimable(w)
      BY DEF SavesDraft, Saving, SaveCustomer, SaveDraftCustomer,
             SelectCustomer, DetachCustomer, ReplaceSections, SaveOfficeDocument
  <1>2. s \in Sessions /\ session[s].notes \in Notes
      BY DEF SavesDraft, Saving, At, SaveCustomer, SaveDraftCustomer, SelectCustomer,
             DetachCustomer, ReplaceSections, SaveOfficeDocument, IInv, TypeOK, RequestOK, Row
  <1>3. /\ session[s].status = "draft"
        /\ r.base \in {None, session[s].notes.rev}
        /\ ClaimedNotes(w) = [session[s].notes EXCEPT !.rev = @ + 1]
      BY <1>1 DEF Claimable, ClaimedNotes
  <1>4. PICK u \in Customers \cup {None}, v \in Rows :
          \/ /\ r.op \in {"customer", "draft_customer", "select", "detach"}
             /\ session'[s].notes = [ClaimedNotes(w) EXCEPT !.snap = u]
          \/ r.op = "sections" /\ session'[s].notes = [ClaimedNotes(w) EXCEPT !.form = v]
          \/ r.op = "office" /\ session'[s].notes = [ClaimedNotes(w) EXCEPT !.snap = u, !.form = v]
      BY SaveWrites
  <1>5. QED
      BY <1>2, <1>3, <1>4 DEF Notes

\* The steps of Proceed that leave every session as it is.
LEMMA SessionsKept ==
    ASSUME NEW w \in Workers,
           \/ Lock(w) \/ EditLine(w) \/ ReadSource(w) \/ ReadSourceTransaction(w)
           \/ Reject(w) \/ Abort(w) \/ Arrive(w)
    PROVE  session' = session
  BY DEF Lock, EditLine, ReadSource, ReadSourceTransaction, Reject, Abort, Arrive, Load,
         LoadDocument, OpenForEdit

\* Only w itself ends w's request.
LEMMA OwnEnd ==
    ASSUME IInv, [Next]_vars, NEW w \in Workers,
           req[w].op # "none", req'[w] = Idle, session' # session
    PROVE  Proceed(w)
  <1>0. req \in [Workers -> Request] /\ req[w] # req'[w]
      BY DEF IInv, TypeOK, Idle
  <1>1. CASE \E s \in Sessions, c \in Clerks, cust \in Customers \cup {None} :
                CreateWorkspace(s, c, cust)
      BY <1>0, <1>1 DEF CreateWorkspace
  <1>2. ASSUME NEW v \in Workers, Arrive(v) \/ Abort(v) PROVE FALSE
      BY <1>2, SessionsKept
  <1>3. ASSUME NEW v \in Workers \ {w}, Proceed(v) PROVE FALSE
    <2>1. CASE Finish(v)
        BY <1>0, <2>1 DEF Finish
    <2>2. CASE Lock(v) \/ ReadSource(v) \/ ReadSourceTransaction(v)
        BY <2>2, SessionsKept
    <2>3. QED
        BY <1>3, <2>1, <2>2 DEF Proceed, SaveCustomer, SaveDraftCustomer, SelectCustomer,
             DetachCustomer, ReplaceSections, SaveOfficeDocument, ImportWorkbook, EditLine,
             CancelWorkspace, FinalizeWorkspace, CloseOrphanedEdit, FinalizeEdit, CreateEditDraft, DeleteDocument, Reject
  <1>4. QED
      BY <1>0, <1>1, <1>2, <1>3 DEF Next, vars

\* The operation decides which writing step ends a request.
LEMMA OwnWrite ==
    ASSUME NEW w \in Workers, Proceed(w), session' # session
    PROVE  /\ req[w].op \in Saves => SavesDraft(w)
           /\ req[w].op = "cancel" => CancelWorkspace(w)
  <1>1. CASE \/ Lock(w) \/ EditLine(w) \/ ReadSource(w) \/ ReadSourceTransaction(w)
             \/ Reject(w)
      BY <1>1, SessionsKept
  <1>2. CASE SavesDraft(w) \/ CancelWorkspace(w)
      BY <1>2 DEF SavesDraft, Saves, Saving, At, SaveCustomer, SaveDraftCustomer,
                  SelectCustomer, DetachCustomer, ReplaceSections, SaveOfficeDocument,
                  CancelWorkspace
  <1>3. CASE \/ ImportWorkbook(w) \/ FinalizeWorkspace(w) \/ CloseOrphanedEdit(w) \/ FinalizeEdit(w)
             \/ DeleteDocument(w) \/ \E d \in Sessions : CreateEditDraft(w, d)
      BY <1>3 DEF ImportWorkbook, FinalizeWorkspace, Finalizing, CloseOrphanedEdit, FinalizeEdit,
                  DeleteDocument, CreateEditDraft, At, Saves
  <1>4. QED
      BY <1>1, <1>2, <1>3 DEF Proceed, SavesDraft

\* Saves of one draft are serial (SavesAreSerial).
THEOREM SerialSaves == Spec => SavesAreSerial
  <1>1. ASSUME IInv, [Next]_vars, NEW w \in Workers,
               req[w].op \in Saves, req'[w] = Idle, session' # session
        PROVE  LET r      == req[w]
                   before == session[r.s].notes
                   after  == session'[r.s].notes
               IN  /\ session[r.s].status = "draft"
                   /\ after.rev = before.rev + 1
                   /\ after.edit = before.edit
                   /\ r.op \in {"customer", "draft_customer", "select", "detach"}
                        => after.form = before.form
                   /\ r.op = "sections" => after.snap = before.snap
    <2>1. req[w].op # "none"
        BY <1>1 DEF Saves
    <2>2. SavesDraft(w)
        BY <1>1, <2>1, OwnEnd, OwnWrite
    <2>3. QED
        BY <1>1, <2>2, SaveFacts
  <1>2. IInv /\ [Next]_vars =>
           [\A w \in Workers :
              LET r      == req[w]
                  before == session[r.s].notes
                  after  == session'[r.s].notes
              IN  r.op \in Saves /\ req'[w] = Idle /\ session' # session =>
                    /\ session[r.s].status = "draft"
                    /\ after.rev = before.rev + 1
                    /\ after.edit = before.edit
                    /\ r.op \in {"customer", "draft_customer", "select", "detach"}
                         => after.form = before.form
                    /\ r.op = "sections" => after.snap = before.snap]_vars
      BY <1>1
  <1>3. QED
      BY <1>2, Invariance, PTL DEF Spec, SavesAreSerial

\* A save made from an older revision is refused (StaleSavesRefused).
THEOREM StaleSaves == Spec => StaleSavesRefused
  <1>1. ASSUME IInv, [Next]_vars, NEW w \in Workers,
               req[w].op \in Saves, req[w].base # None, req'[w] = Idle,
               session'[req[w].s] # session[req[w].s]
        PROVE  req[w].base = session[req[w].s].notes.rev
    <2>1. req[w].op # "none" /\ session' # session
        BY <1>1 DEF Saves
    <2>2. SavesDraft(w)
        BY <1>1, <2>1, OwnEnd, OwnWrite
    <2>3. req[w].base \in {None, session[req[w].s].notes.rev}
        BY <1>1, <2>2, SaveFacts
    <2>4. QED
        BY <1>1, <2>3
  <1>2. IInv /\ [Next]_vars =>
           [\A w \in Workers :
              LET r == req[w] IN
              /\ r.op \in Saves
              /\ r.base # None
              /\ req'[w] = Idle
              /\ session'[r.s] # session[r.s]
              => r.base = session[r.s].notes.rev]_vars
      BY <1>1
  <1>3. QED
      BY <1>2, Invariance, PTL DEF Spec, StaleSavesRefused

\* PostgreSQL: a cancel that commits finds a draft (CancelOnlyDrafts).
THEOREM CancelsDrafts == RowLocks => (Spec => CancelOnlyDrafts)
  <1> SUFFICES ASSUME RowLocks PROVE Spec => CancelOnlyDrafts
      OBVIOUS
  <1>1. ASSUME IInv, [Next]_vars, NEW w \in Workers,
               req[w].op = "cancel", req'[w] = Idle, session' # session
        PROVE  session[req[w].s].status = "draft"
    <2>1. CancelWorkspace(w)
        BY <1>1, OwnEnd, OwnWrite
    <2>2. req[w].phase = "locked" /\ req[w].seen.status = "draft"
        BY <2>1 DEF CancelWorkspace, At
    <2>3. req[w].seen = session[req[w].s]
        BY <1>1, <2>2 DEF IInv, LocksOK
    <2>4. QED
        BY <2>2, <2>3
  <1>2. IInv /\ [Next]_vars =>
           [\A w \in Workers :
              req[w].op = "cancel" /\ req'[w] = Idle /\ session' # session
                  => session[req[w].s].status = "draft"]_vars
      BY <1>1
  <1>3. QED
      BY <1>2, Invariance, PTL DEF Spec, CancelOnlyDrafts
=============================================================================
