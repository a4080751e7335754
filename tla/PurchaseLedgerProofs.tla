------------------------ MODULE PurchaseLedgerProofs ------------------------
(***************************************************************************)
(* On SQLite the transactions of the purchase workspace implement          *)
(* PurchaseLedger, and the document of a session finalized once states the *)
(* amount of its transaction.  Both rest on the finalize of an edit seeing *)
(* its source as it is: it locks the database before it reads it.          *)
(***************************************************************************)
EXTENDS PurchaseWorkspaceProofs

\* The actions that write no transaction.
LEMMA TxKept ==
    ASSUME IInv, NEW w \in Workers,
           \/ Arrive(w) \/ Lock(w)
           \/ SaveCustomer(w) \/ SaveDraftCustomer(w) \/ SelectCustomer(w)
           \/ DetachCustomer(w) \/ ReplaceSections(w) \/ SaveOfficeDocument(w)
           \/ ImportWorkbook(w) \/ EditLine(w)
           \/ CancelWorkspace(w) \/ CloseOrphanedEdit(w)
           \/ ReadSource(w) \/ ReadSourceTransaction(w)
           \/ \E d \in Sessions : CreateEditDraft(w, d)
           \/ Reject(w) \/ Abort(w)
    PROVE  UNCHANGED <<doc, tx, finals>>
  BY DEF Arrive, Load, OpenForEdit, LoadDocument, Lock, SaveCustomer, SaveDraftCustomer,
         SelectCustomer, DetachCustomer, ReplaceSections, SaveOfficeDocument,
         ImportWorkbook, EditLine, CancelWorkspace,
         CloseOrphanedEdit, ReadSource, ReadSourceTransaction, CreateEditDraft,
         Reject, Abort

\* On SQLite the finalize of an edit revises the document and the transaction
\* it has read, to one amount.
LEMMA EditRevises ==
    ASSUME IInv, ~RowLocks, NEW w \in Workers, FinalizeEdit(w)
    PROVE  \E from \in Sessions, a \in Rows :
             /\ tx[from].state = "confirmed"
             /\ tx' = [tx EXCEPT ![from] = tx'[from]]
             /\ tx'[from].state = "confirmed" /\ tx'[from].amount = a
             /\ doc' = [doc EXCEPT ![from] = doc'[from]]
             /\ doc[from] # None /\ doc'[from].amount = a
             /\ UNCHANGED finals
  <1> DEFINE r == req[w]
             from == r.seen.notes.edit
  <1>1. /\ from \in Sessions /\ r.rows \in Rows
        /\ r.src.doc \in Doc /\ doc[from] # None
        /\ r.src.tx.state = "confirmed"
      BY EditFacts
  <1>2. r.phase = "ready"
      BY DEF FinalizeEdit, At
  <1>3. r.src.doc = doc[from] /\ r.src.tx = tx[from]
      BY <1>2 DEF IInv, LocksOK
  <1>4. /\ doc \in [Sessions -> Doc \cup {None}]
        /\ tx \in [Sessions -> Tx]
        /\ doc[from] \in Doc
        /\ tx[from] \in Tx
      BY <1>1 DEF IInv, TypeOK
  <1>5. /\ tx' = [tx EXCEPT ![from] = tx'[from]]
        /\ tx'[from].state = "confirmed" /\ tx'[from].amount = r.rows
    <2> DEFINE t == Revised(r, tx[from])
    <2>1. tx' = [tx EXCEPT ![from] = t]
        BY DEF FinalizeEdit
    <2>2. t.state = "confirmed" /\ t.amount = r.rows
        BY <1>1, <1>3 DEF Revised, Written
    <2> HIDE DEF t
    <2>3. QED
        BY <1>1, <1>4, <2>1, <2>2
  <1>6. /\ doc' = [doc EXCEPT ![from] = doc'[from]]
        /\ doc'[from].amount = r.rows
    <2> DEFINE d == [doc[from] EXCEPT
                        !.amount = Written(r.src.doc.amount, r.rows, @),
                        !.who    = Written(r.src.doc.who, Effective(r.seen), @),
                        !.notes  = Written(r.src.doc.notes, r.seen.notes, @)]
    <2>1. doc' = [doc EXCEPT ![from] = d]
        BY <1>1, <1>4 DEF FinalizeEdit, Doc
    <2>2. d.amount = r.rows
        BY <1>3, <1>4 DEF Written, Doc
    <2> HIDE DEF d
    <2>3. QED
        BY <1>1, <1>4, <2>1, <2>2
  <1>7. UNCHANGED finals
      BY DEF FinalizeEdit
  <1>8. QED
      BY <1>1, <1>3, <1>5, <1>6, <1>7

\* Every step is a step of the ledger, or leaves the books alone.
LEMMA LedgerStep ==
    ASSUME IInv, ~RowLocks, [Next]_vars
    PROVE  [Ledger!Next]_Books
  <1>0. tx \in [Sessions -> Tx]
      BY DEF IInv, TypeOK
  <1>1. CASE UNCHANGED tx
      BY <1>1 DEF Books
  <1>2. ASSUME NEW w \in Workers, FinalizeWorkspace(w) PROVE [Ledger!Next]_Books
    <2> DEFINE r == req[w]
               s == r.s
    <2>1. s \in Sessions /\ r.rows \in Rows
        BY <1>2 DEF FinalizeWorkspace, Finalizing, At, IInv, TypeOK, RequestOK, Request
    <2>2. CASE tx[s].state # "none"
      <3>1. tx' = tx
          BY <1>0, <1>2, <2>1, <2>2 DEF FinalizeWorkspace
      <3>2. QED
          BY <3>1 DEF Books
    <2>3. CASE tx[s].state = "none"
      <3> DEFINE t == [state |-> "confirmed", amount |-> r.rows,
                       lines |-> lines[s], customer |-> r.seen.customer]
      <3>1. tx' = [tx EXCEPT ![s] = t]
          BY <1>2, <2>3 DEF FinalizeWorkspace
      <3>2. Ledger!Issue(s, r.rows)
          BY <1>0, <2>1, <2>3, <3>1 DEF Ledger!Issue, Books
      <3>3. QED
          BY <2>1, <3>2 DEF Ledger!Next
    <2>4. QED
        BY <2>2, <2>3
  <1>3. ASSUME NEW w \in Workers, FinalizeEdit(w) PROVE [Ledger!Next]_Books
    <2>1. PICK from \in Sessions, a \in Rows :
             /\ tx[from].state = "confirmed"
             /\ tx' = [tx EXCEPT ![from] = tx'[from]]
             /\ tx'[from].state = "confirmed" /\ tx'[from].amount = a
        BY <1>3, EditRevises
    <2>2. Ledger!Revise(from, a)
        BY <1>0, <2>1 DEF Ledger!Revise, Books
    <2>3. QED
        BY <2>2 DEF Ledger!Next
  <1>4. ASSUME NEW w \in Workers, DeleteDocument(w) PROVE [Ledger!Next]_Books
    <2> DEFINE r == req[w]
               s == r.s
    <2>1. /\ s \in Sessions /\ tx[s] \in Tx /\ tx[s].state # "none"
          /\ r.src.tx.state = "cancelled" => tx[s].state = "cancelled"
        BY <1>4 DEF DeleteDocument, At, IInv, TypeOK, RequestOK, SeenOK, BooksOK, DocumentOps
    <2>2. tx' = [tx EXCEPT ![s].state = "cancelled"]
        BY <1>4, <2>1 DEF DeleteDocument, Written, Tx
    <2>3. CASE tx[s].state = "cancelled"
      <3>1. Books' = Books
          BY <1>0, <2>1, <2>2, <2>3 DEF Books, Tx
      <3>2. QED
          BY <3>1
    <2>4. CASE tx[s].state = "confirmed"
      <3>1. Ledger!Void(s)
          BY <1>0, <2>1, <2>2, <2>4 DEF Ledger!Void, Books, Tx
      <3>2. QED
          BY <2>1, <3>1 DEF Ledger!Next
    <2>5. QED
        BY <2>1, <2>3, <2>4 DEF Tx
  <1>5. CASE \E s \in Sessions, c \in Clerks, cust \in Customers \cup {None} :
                CreateWorkspace(s, c, cust)
      BY <1>1, <1>5 DEF CreateWorkspace
  <1>6. CASE UNCHANGED vars
      BY <1>1, <1>6 DEF vars
  <1>7. ASSUME NEW w \in Workers, Arrive(w) \/ Proceed(w) \/ Abort(w)
        PROVE  [Ledger!Next]_Books
      BY <1>1, <1>2, <1>3, <1>4, <1>7, TxKept DEF Proceed
  <1>8. QED
      BY <1>5, <1>6, <1>7 DEF Next

\* SQLite: the transactions implement PurchaseLedger (LedgerSpec).
THEOREM LedgerImplemented == ~RowLocks => (Spec => LedgerSpec)
  <1> SUFFICES ASSUME ~RowLocks PROVE Spec => LedgerSpec
      OBVIOUS
  <1>1. Init => Ledger!Init
    <2> SUFFICES ASSUME Init, NEW s \in Sessions PROVE Books[s].state = "none"
        BY DEF Ledger!Init
    <2>1. tx[s] = NoTx
        BY DEF Init
    <2>2. QED
        BY <2>1 DEF Books, NoTx
  <1>2. IInv /\ [Next]_vars => [Ledger!Next]_Books
      BY LedgerStep
  <1>3. QED
      BY <1>1, <1>2, Invariance, PTL DEF Spec, LedgerSpec, Ledger!Spec

-----------------------------------------------------------------------------

\* A session without a document was never finalized, and one finalized once
\* has a document and a transaction of the same amount.
AmountsOK ==
    \A s \in Sessions :
        /\ finals[s] = 0 => doc[s] = None
        /\ doc[s] = None => finals[s] = 0
        /\ finals[s] = 1 => doc[s].amount = tx[s].amount

\* On SQLite no step separates the two amounts.
LEMMA AmountsStep ==
    ASSUME IInv, AmountsOK, ~RowLocks, [Next]_vars
    PROVE  AmountsOK'
  <1>0. /\ tx \in [Sessions -> Tx]
        /\ doc \in [Sessions -> Doc \cup {None}]
        /\ finals \in [Sessions -> Nat]
      BY DEF IInv, TypeOK
  <1>1. CASE UNCHANGED <<doc, tx, finals>>
      BY <1>1 DEF AmountsOK
  <1>2. ASSUME NEW w \in Workers, FinalizeWorkspace(w) PROVE AmountsOK'
    <2> DEFINE r == req[w]
               s == r.s
               d == [amount |-> r.rows, who |-> Effective(r.seen),
                     notes |-> IF doc[s] # None THEN doc[s].notes ELSE r.seen.notes]
               t == [state |-> "confirmed", amount |-> r.rows,
                     lines |-> lines[s], customer |-> r.seen.customer]
    <2>1. s \in Sessions
        BY <1>2 DEF FinalizeWorkspace, Finalizing, At, IInv, RequestOK
    <2>2. /\ doc' = [doc EXCEPT ![s] = d]
          /\ tx' = [tx EXCEPT ![s] = IF tx[s].state # "none" THEN tx[s] ELSE t]
          /\ finals' = [finals EXCEPT ![s] = @ + 1]
        BY <1>2 DEF FinalizeWorkspace
    <2>3. doc'[s] # None
      <3>1. tx'[s].state # "none"
          BY <1>0, <2>1, <2>2
      <3>2. QED
          BY <1>2, <2>1, <3>1, FinalizeCommits DEF Commits, BooksOK, NoTx
    <2>4. finals[s] = 0 => tx[s].state = "none"
        BY <2>1 DEF AmountsOK, IInv, BooksOK, NoTx
    <2>5. finals'[s] # 0 /\ (finals'[s] = 1 => doc'[s].amount = tx'[s].amount)
        BY <1>0, <2>1, <2>2, <2>4
    <2>6. \A u \in Sessions \ {s} :
             doc'[u] = doc[u] /\ tx'[u] = tx[u] /\ finals'[u] = finals[u]
        BY <1>0, <2>2
    <2>7. QED
        BY <2>3, <2>5, <2>6 DEF AmountsOK
  <1>3. ASSUME NEW w \in Workers, FinalizeEdit(w) PROVE AmountsOK'
    <2>1. PICK from \in Sessions, a \in Rows :
             /\ tx' = [tx EXCEPT ![from] = tx'[from]]
             /\ tx'[from].amount = a
             /\ doc' = [doc EXCEPT ![from] = doc'[from]]
             /\ doc[from] # None /\ doc'[from].amount = a
             /\ UNCHANGED finals
        BY <1>3, EditRevises
    <2>2. doc'[from] # None
        BY <1>3, <2>1, EditCommits DEF Commits, Evolves
    <2>3. \A u \in Sessions \ {from} : doc'[u] = doc[u] /\ tx'[u] = tx[u]
        BY <1>0, <2>1
    <2>4. QED
        BY <2>1, <2>2, <2>3 DEF AmountsOK
  <1>4. ASSUME NEW w \in Workers, DeleteDocument(w) PROVE AmountsOK'
    <2>1. \A s \in Sessions : tx'[s].amount = tx[s].amount
        BY <1>0, <1>4 DEF DeleteDocument, Tx
    <2>2. UNCHANGED <<doc, finals>>
        BY <1>4 DEF DeleteDocument
    <2>3. QED
        BY <2>1, <2>2 DEF AmountsOK
  <1>5. CASE \E s \in Sessions, c \in Clerks, cust \in Customers \cup {None} :
                CreateWorkspace(s, c, cust)
      BY <1>1, <1>5 DEF CreateWorkspace
  <1>6. CASE UNCHANGED vars
      BY <1>1, <1>6 DEF vars
  <1>7. ASSUME NEW w \in Workers, Arrive(w) \/ Proceed(w) \/ Abort(w)
        PROVE  AmountsOK'
      BY <1>1, <1>2, <1>3, <1>4, <1>7, TxKept DEF Proceed
  <1>8. QED
      BY <1>5, <1>6, <1>7 DEF Next

\* SQLite: document and transaction of a session finalized once agree.
THEOREM AmountsAgree == ~RowLocks => (Spec => []BooksAgree)
  <1> SUFFICES ASSUME ~RowLocks PROVE Spec => []BooksAgree
      OBVIOUS
  <1>1. Init => AmountsOK
    <2>1. ASSUME Init, NEW s \in Sessions
          PROVE  doc[s] = None /\ finals[s] = 0 /\ finals[s] # 1
        BY <2>1 DEF Init
    <2>2. QED
        BY <2>1 DEF AmountsOK
  <1>2. IInv /\ AmountsOK /\ [Next]_vars => AmountsOK'
      BY AmountsStep
  <1>3. AmountsOK => BooksAgree
      BY DEF AmountsOK, BooksAgree
  <1>4. QED
      BY <1>1, <1>2, <1>3, Invariance, PTL DEF Spec
=============================================================================
