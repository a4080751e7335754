-------------------------- MODULE ExitFlushProofs --------------------------
(***************************************************************************)
(* What an exit does with unsent workbook cells, for any number of sheets, *)
(* documents and flush calls: the state keeps its type, the exits share    *)
(* one flush, an unsent cell keeps a save handler, an exit that succeeds   *)
(* loses nothing typed before it, and a document with nothing left to send *)
(* has its last value on the server.                                       *)
(*                                                                         *)
(* Each invariant rests on the ones before it: a handler is called once    *)
(* per flush, and a flush that all handlers have ended well has sent every *)
(* cell it found, because every unsent cell has a handler.                 *)
(***************************************************************************)
EXTENDS ExitFlush, FiniteSetTheorems, TLAPS

Purposes == {"timer", "leave", "excel", "reload", "exit"}

LEMMA FreeTyped == Free \in CallRecords
  BY BoundAssumption DEF Free, CallRecords, Values

LEMMA NoneIsNoValue == None \notin Values /\ None \notin Slots /\ None \notin Sheets
  BY NoneAssumption, BoundAssumption DEF Values

LEMMA DocOfSheet == \A s \in Sheets : DocOf[s] \in Docs
  BY DocAssumption

\* A call keeps its purpose when the fate of its request is known.
LEMMA SettledTyped ==
    ASSUME NEW call \in CallRecords,
           NEW ph \in {"accepted", "refused", "failed", "reading", "conflict"}
    PROVE  Settled(call, ph) \in CallRecords
  BY FreeTyped DEF Settled, Free, CallRecords

LEMMA SentTyped ==
    ASSUME SheetTypeOK, NEW s \in Sheets, NEW f \in Purposes, cell[s] # None
    PROVE  Sent(s, f) \in CallRecords
  BY FreeTyped DEF Sent, Free, CallRecords, SheetTypeOK, Purposes

LEMMA BegunTyped ==
    ASSUME TypeOK, NEW s \in Sheets, NEW f \in Purposes, ~Unsendable(s)
    PROVE  Begun(s, f) \in CallRecords
  <1>1. CASE saving[s] # None
      BY <1>1, FreeTyped DEF Begun, Free, CallRecords, TypeOK, CallTypeOK, Purposes
  <1>2. CASE saving[s] = None
      BY <1>2, SentTyped DEF Begun, TypeOK, Unsendable
  <1>3. QED
      BY <1>1, <1>2

LEMMA FirstSlotFree ==
    ASSUME NEW s, FreeSlots(s) # {}
    PROVE  FirstSlot(s) \in FreeSlots(s)
  <1>1. \E c \in Slots : calls[s][c].phase = "free"
      BY DEF FreeSlots
  <1>2. QED
      BY <1>1 DEF FirstSlot, FreeSlots

LEMMA SlotsLeft ==
    ASSUME NEW s, Cardinality(FreeSlots(s)) > 1
    PROVE  FreeSlots(s) # {}
  BY FS_EmptySet

\* A new call of a sheet.
LEMMA BeginTyped ==
    ASSUME TypeOK, NEW s \in Sheets, NEW f \in Purposes, ~NothingToFlush(s),
           Cardinality(FreeSlots(s)) > 1, Begin(s, f)
    PROVE  CallTypeOK' /\ conflict' \in [Sheets -> BOOLEAN]
  <1>1. FirstSlot(s) \in Slots
      BY SlotsLeft, FirstSlotFree DEF FreeSlots
  <1>2. Begun(s, f) \in CallRecords
      BY BegunTyped DEF NothingToFlush
  <1>3. CallTypeOK'
      BY <1>1, <1>2 DEF TypeOK, CallTypeOK, Begin
  <1>4. conflict' \in [Sheets -> BOOLEAN]
    <2>1. conflict' = [conflict EXCEPT ![s] = conflict[s] /\ saving[s] # None]
        BY DEF Begin
    <2>2. (conflict[s] /\ saving[s] # None) \in BOOLEAN
        OBVIOUS
    <2>3. QED
        BY <2>1, <2>2 DEF TypeOK, SheetTypeOK
  <1>5. QED
      BY <1>3, <1>4

\* What the end of some calls changes.
LEMMA EndedTyped ==
    ASSUME TypeOK, NEW s \in Sheets, NEW ends \in SUBSET Slots, NEW ok \in BOOLEAN,
           Ended(s, ends, ok)
    PROVE  /\ handlers' \in [Docs -> Sheets \cup {None}]
           /\ excel' \in [Sheets -> {"closed", "flushing", "opening", "open"}]
           /\ flush' \in [open : BOOLEAN, waits : SUBSET Sheets, failed : BOOLEAN, from : Values]
  <1>1. handlers' \in [Docs -> Sheets \cup {None}]
      BY DocOfSheet DEF TypeOK, BookTypeOK, Ended
  <1>2. excel' \in [Sheets -> {"closed", "flushing", "opening", "open"}]
      BY DEF TypeOK, SheetTypeOK, Ended
  <1>3. flush' \in [open : BOOLEAN, waits : SUBSET Sheets, failed : BOOLEAN, from : Values]
      BY DEF TypeOK, ExitTypeOK, Ended
  <1>4. QED
      BY <1>1, <1>2, <1>3

LEMMA SaveEndsWellTyped ==
    ASSUME TypeOK, NEW s \in Sheets, NEW c \in Slots, SaveEndsWell(s, c)
    PROVE  /\ CallTypeOK'
           /\ handlers' \in [Docs -> Sheets \cup {None}]
           /\ excel' \in [Sheets -> {"closed", "flushing", "opening", "open"}]
           /\ flush' \in [open : BOOLEAN, waits : SUBSET Sheets, failed : BOOLEAN, from : Values]
           /\ conflict' \in [Sheets -> BOOLEAN]
  <1>1. Woken(s, c) \subseteq Slots /\ Awaiting(s, c) \subseteq Slots
      BY DEF Woken, Awaiting
  <1>2. CASE cell[s] = None
    <2>1. CallTypeOK'
      <3>1. [w \in Slots |-> IF w \in Woken(s, c) THEN Free ELSE calls[s][w]]
              \in [Slots -> CallRecords]
          BY FreeTyped DEF TypeOK, CallTypeOK
      <3>2. QED
          BY <1>2, <3>1 DEF TypeOK, CallTypeOK, SaveEndsWell
    <2>2. Ended(s, Woken(s, c), TRUE)
        BY <1>2 DEF SaveEndsWell
    <2>3. conflict' \in [Sheets -> BOOLEAN]
        BY <1>2 DEF TypeOK, SheetTypeOK, SaveEndsWell
    <2>4. QED
        BY <1>1, <2>1, <2>2, <2>3, EndedTyped
  <1>3. CASE cell[s] # None
    <2>1. \A w \in Slots : Sent(s, calls[s][w].for) \in CallRecords
        BY <1>3, SentTyped DEF TypeOK, CallTypeOK, CallRecords, Purposes
    <2>2. CallTypeOK'
      <3>1. [w \in Slots |-> IF w \in Woken(s, c) THEN Sent(s, calls[s][w].for) ELSE calls[s][w]]
              \in [Slots -> CallRecords]
          BY <2>1 DEF TypeOK, CallTypeOK
      <3>2. calls' \in [Sheets -> [Slots -> CallRecords]]
          BY <1>3, <3>1 DEF TypeOK, CallTypeOK, SaveEndsWell
      <3>3. saving' \in [Sheets -> Slots \cup {None}]
        <4>1. PICK w \in (IF Awaiting(s, c) = {} THEN {c} ELSE Awaiting(s, c)) :
                  saving' = [saving EXCEPT ![s] = w]
            BY <1>3 DEF SaveEndsWell
        <4>2. w \in Slots
            BY <1>1, <4>1
        <4>3. QED
            BY <4>1, <4>2 DEF TypeOK, CallTypeOK
      <3>4. QED
          BY <3>2, <3>3 DEF CallTypeOK
    <2>3. QED
        BY <1>3, <2>2 DEF TypeOK, BookTypeOK, SheetTypeOK, ExitTypeOK, SaveEndsWell
  <1>4. QED
      BY <1>2, <1>3

\* What a reload drops.
LEMMA GivesUpTyped ==
    ASSUME TypeOK, NEW s \in Sheets, GivesUp(s)
    PROVE  /\ given' \subseteq Docs
           /\ cell' \in [Sheets -> Values \cup {None}]
           /\ timer' \in [Sheets -> BOOLEAN] /\ conflict' \in [Sheets -> BOOLEAN]
  BY DocOfSheet DEF TypeOK, BookTypeOK, SheetTypeOK, GivesUp

LEMMA SaveFailsTyped ==
    ASSUME TypeOK, NEW s \in Sheets, NEW c \in Slots, NEW refused \in BOOLEAN,
           SaveFails(s, c, refused)
    PROVE  /\ CallTypeOK'
           /\ handlers' \in [Docs -> Sheets \cup {None}]
           /\ excel' \in [Sheets -> {"closed", "flushing", "opening", "open"}]
           /\ flush' \in [open : BOOLEAN, waits : SUBSET Sheets, failed : BOOLEAN, from : Values]
           /\ given' \subseteq Docs
           /\ cell' \in [Sheets -> Values \cup {None}]
           /\ timer' \in [Sheets -> BOOLEAN] /\ conflict' \in [Sheets -> BOOLEAN]
  <1>1. Woken(s, c) \subseteq Slots
      BY DEF Woken, Awaiting
  <1>2. CallTypeOK'
      BY FreeTyped DEF TypeOK, CallTypeOK, SaveFails
  <1>3. /\ given' \subseteq Docs
        /\ cell' \in [Sheets -> Values \cup {None}]
        /\ timer' \in [Sheets -> BOOLEAN] /\ conflict' \in [Sheets -> BOOLEAN]
    <2>1. CASE GivesUp(s)
        BY <2>1, GivesUpTyped
    <2>2. CASE conflict' = [conflict EXCEPT ![s] = refused] /\ UNCHANGED <<given, cell, timer>>
        BY <2>2 DEF TypeOK, BookTypeOK, SheetTypeOK
    <2>3. QED
        BY <2>1, <2>2 DEF SaveFails
  <1>4. QED
      BY <1>1, <1>2, <1>3, EndedTyped DEF SaveFails

LEMMA FlushStartsTyped ==
    ASSUME TypeOK, FlushStarts
    PROVE  /\ CallTypeOK'
           /\ flush' \in [open : BOOLEAN, waits : SUBSET Sheets, failed : BOOLEAN, from : Values]
           /\ conflict' \in [Sheets -> BOOLEAN]
  <1>1. CASE Shared
      BY <1>1 DEF TypeOK, CallTypeOK, SheetTypeOK, ExitTypeOK, FlushStarts
  <1>2. CASE ~Shared
    <2>1. \A s \in Due : s \in Sheets /\ FirstSlot(s) \in Slots /\ Begun(s, "exit") \in CallRecords
      <3> SUFFICES ASSUME NEW s \in Due
                   PROVE  /\ s \in Sheets /\ FirstSlot(s) \in Slots
                          /\ Begun(s, "exit") \in CallRecords
          OBVIOUS
      <3>1. s \in Sheets /\ ~Unsendable(s) /\ FreeSlots(s) # {}
          BY <1>2 DEF Due, Registered, FlushStarts
      <3>2. QED
          BY <3>1, FirstSlotFree, BegunTyped DEF FreeSlots, Purposes
    <2>2. CallTypeOK'
        BY <1>2, <2>1 DEF TypeOK, CallTypeOK, FlushStarts
    <2>3. Due \subseteq Sheets
        BY <2>1
    <2>4. edits \in Values
        BY DEF TypeOK, BookTypeOK
    <2>5. flush' = [open |-> TRUE, waits |-> Due, failed |-> FALSE, from |-> edits]
        BY <1>2 DEF FlushStarts
    <2>6. conflict' \in [Sheets -> BOOLEAN]
      <3>1. conflict' = [s \in Sheets |-> conflict[s] /\ (s \in Due => saving[s] # None)]
          BY <1>2 DEF FlushStarts
      <3>2. \A s \in Sheets : (conflict[s] /\ (s \in Due => saving[s] # None)) \in BOOLEAN
          OBVIOUS
      <3>3. QED
          BY <3>1, <3>2
    <2>7. QED
        BY <2>2, <2>3, <2>4, <2>5, <2>6
  <1>3. QED
      BY <1>1, <1>2

-----------------------------------------------------------------------------
(* Type correctness, one step per action.                                  *)

LEMMA CallStepTyped ==
    ASSUME TypeOK, NEW s \in Sheets, NEW c \in Slots, CallStep(s, c)
    PROVE  TypeOK'
  <1>1. calls[s][c] \in CallRecords /\ DocOf[s] \in Docs
      BY DocOfSheet DEF TypeOK, CallTypeOK
  <1>2. ASSUME NEW ph \in {"accepted", "refused", "failed", "reading", "conflict"}
        PROVE  [calls EXCEPT ![s][c] = Settled(@, ph)] \in [Sheets -> [Slots -> CallRecords]]
    <2>1. Settled(calls[s][c], ph) \in CallRecords
        BY <1>1, SettledTyped
    <2>2. QED
        BY <2>1 DEF TypeOK, CallTypeOK
  <1>3. CASE PatchAccepted(s, c)
    <2>1. CallTypeOK'
        BY <1>2, <1>3 DEF TypeOK, CallTypeOK, PatchAccepted
    <2>2. SheetTypeOK'
      <3>1. Unsent(s, c) \in Values \cup {None} /\ calls[s][c].base \in Nat
          BY <1>1 DEF TypeOK, SheetTypeOK, Unsent, CallRecords
      <3>2. (life[s] = "mounted" /\ excel[s] # "open" /\ Unsent(s, c) # None) \in BOOLEAN
          OBVIOUS
      <3>3. QED
          BY <1>3, <3>1, <3>2 DEF TypeOK, SheetTypeOK, PatchAccepted
    <2>3. BookTypeOK' /\ ExitTypeOK'
        BY <1>3 DEF TypeOK, BookTypeOK, ExitTypeOK, PatchAccepted, exitVars
    <2>4. QED
        BY <2>1, <2>2, <2>3 DEF TypeOK
  <1>4. CASE PatchRefused(s, c)
    <2>1. CallTypeOK'
        BY <1>2, <1>4 DEF TypeOK, CallTypeOK, PatchRefused
    <2>2. SheetTypeOK'
        BY <1>4 DEF TypeOK, SheetTypeOK, PatchRefused, sheetVars
    <2>3. BookTypeOK' /\ ExitTypeOK'
        BY <1>4 DEF TypeOK, BookTypeOK, ExitTypeOK, PatchRefused, sheetVars, exitVars
    <2>4. QED
        BY <2>1, <2>2, <2>3 DEF TypeOK
  <1>5. CASE PatchFailed(s, c)
    <2>1. SaveFails(s, c, FALSE)
        BY <1>5 DEF PatchFailed
    <2>2. SheetTypeOK'
        BY <1>5, <2>1, SaveFailsTyped DEF TypeOK, SheetTypeOK, PatchFailed
    <2>3. BookTypeOK'
        BY <1>5, <2>1, SaveFailsTyped DEF TypeOK, BookTypeOK, PatchFailed
    <2>4. ExitTypeOK'
        BY <1>5, <2>1, SaveFailsTyped DEF TypeOK, ExitTypeOK, PatchFailed
    <2>5. QED
        BY <2>1, <2>2, <2>3, <2>4, SaveFailsTyped DEF TypeOK
  <1>6. CASE PreviewRead(s, c)
    <2>1. /\ CallTypeOK'
          /\ handlers' \in [Docs -> Sheets \cup {None}]
          /\ excel' \in [Sheets -> {"closed", "flushing", "opening", "open"}]
          /\ flush' \in [open : BOOLEAN, waits : SUBSET Sheets, failed : BOOLEAN, from : Values]
          /\ given' \subseteq Docs
          /\ cell' \in [Sheets -> Values \cup {None}]
          /\ timer' \in [Sheets -> BOOLEAN] /\ conflict' \in [Sheets -> BOOLEAN]
      <3>1. CASE SaveEndsWell(s, c) /\ UNCHANGED <<given, cell, timer>>
          BY <3>1, SaveEndsWellTyped DEF TypeOK, BookTypeOK, SheetTypeOK
      <3>2. CASE SaveFails(s, c, conflict[s])
        <4>1. conflict[s] \in BOOLEAN
            BY DEF TypeOK, SheetTypeOK
        <4>2. QED
            BY <3>2, <4>1, SaveFailsTyped
      <3>3. QED
          BY <1>6, <3>1, <3>2 DEF PreviewRead
    <2>2. base' \in [Sheets -> Nat]
      <3>1. base[s] \in Nat /\ server[DocOf[s]].rev \in Nat
          BY <1>1 DEF TypeOK, SheetTypeOK, BookTypeOK
      <3>2. PICK b \in Nat : base' = [base EXCEPT ![s] = b]
          BY <1>6, <3>1 DEF PreviewRead
      <3>3. QED
          BY <3>2 DEF TypeOK, SheetTypeOK
    <2>3. SheetTypeOK'
        BY <1>6, <2>1, <2>2 DEF TypeOK, SheetTypeOK, PreviewRead
    <2>4. BookTypeOK'
        BY <1>6, <2>1 DEF TypeOK, BookTypeOK, PreviewRead
    <2>5. ExitTypeOK'
        BY <1>6, <2>1 DEF TypeOK, ExitTypeOK, PreviewRead
    <2>6. QED
        BY <2>1, <2>3, <2>4, <2>5 DEF TypeOK
  <1>7. ASSUME Commit(s, c)
        PROVE  server' \in [Docs -> [val : Values, rev : Nat]]
    <2>1. calls[s][c].val \in Values /\ server[DocOf[s]].rev + 1 \in Nat
        BY <1>1 DEF CallRecords, TypeOK, BookTypeOK
    <2>2. [val |-> calls[s][c].val, rev |-> server[DocOf[s]].rev + 1] \in [val : Values, rev : Nat]
        BY <2>1
    <2>3. QED
        BY <1>1, <1>7, <2>2 DEF Commit, TypeOK, BookTypeOK
  <1>8. ASSUME CommitValues(s, c)
         PROVE  server' \in [Docs -> [val : Values, rev : Nat]]
    <2>1. calls[s][c].val \in Values
        BY <1>1 DEF CallRecords
    <2>2. QED
        BY <1>1, <1>8, <2>1 DEF CommitValues, TypeOK, BookTypeOK
  <1>9. CASE ServerAnswers(s, c)
    <2>1. server' \in [Docs -> [val : Values, rev : Nat]]
        BY <1>7, <1>9 DEF ServerAnswers, TypeOK, BookTypeOK
    <2>2. calls' \in [Sheets -> [Slots -> CallRecords]]
      <3>1. server[DocOf[s]].rev + 1 \in Nat
          BY <1>1 DEF TypeOK, BookTypeOK
      <3>2. [calls[s][c] EXCEPT !.phase = "accepted", !.base = server[DocOf[s]].rev + 1]
              \in CallRecords
          BY <1>1, <3>1 DEF CallRecords
      <3>3. CASE calls' = [calls EXCEPT ![s][c].phase = "accepted",
                                        ![s][c].base = server[DocOf[s]].rev + 1]
        <4>1. calls' = [calls EXCEPT ![s][c] =
                [calls[s][c] EXCEPT !.phase = "accepted", !.base = server[DocOf[s]].rev + 1]]
            BY <1>1, <3>3 DEF TypeOK, CallTypeOK
        <4>2. QED
            BY <3>2, <4>1 DEF TypeOK, CallTypeOK
      <3>4. CASE calls' = [calls EXCEPT ![s][c] = Settled(@, "refused")]
          BY <1>2, <3>4
      <3>5. QED
          BY <1>9, <3>3, <3>4 DEF ServerAnswers
    <2>3. SheetTypeOK'
        BY <1>9 DEF TypeOK, SheetTypeOK, ServerAnswers, sheetVars
    <2>4. BookTypeOK'
        BY <1>9, <2>1 DEF TypeOK, BookTypeOK, ServerAnswers, sheetVars
    <2>5. ExitTypeOK' /\ CallTypeOK'
        BY <1>9, <2>2 DEF TypeOK, CallTypeOK, ExitTypeOK, ServerAnswers, exitVars
    <2>6. QED
        BY <2>3, <2>4, <2>5 DEF TypeOK
  <1>10. CASE RequestFails(s, c)
    <2>1. server' \in [Docs -> [val : Values, rev : Nat]]
        BY <1>7, <1>10, <1>8 DEF RequestFails, TypeOK, BookTypeOK
    <2>2. CallTypeOK'
        BY <1>2, <1>10 DEF TypeOK, CallTypeOK, RequestFails
    <2>3. SheetTypeOK'
        BY <1>10 DEF TypeOK, SheetTypeOK, RequestFails, sheetVars
    <2>4. BookTypeOK'
        BY <1>10, <2>1 DEF TypeOK, BookTypeOK, RequestFails, sheetVars
    <2>5. ExitTypeOK'
        BY <1>10 DEF TypeOK, ExitTypeOK, RequestFails, exitVars
    <2>6. QED
        BY <2>2, <2>3, <2>4, <2>5 DEF TypeOK
  <1>11. QED
      BY <1>3, <1>4, <1>5, <1>6, <1>9, <1>10 DEF CallStep

LEMMA SheetStepTyped ==
    ASSUME TypeOK, NEW s \in Sheets, SheetStep(s)
    PROVE  TypeOK'
  <1>1. DocOf[s] \in Docs
      BY DocOfSheet
  <1>2. CASE Mount(s)
    <2>1. server[DocOf[s]].rev \in Nat
        BY <1>1 DEF TypeOK, BookTypeOK
    <2>2. SheetTypeOK'
        BY <1>2, <2>1 DEF TypeOK, SheetTypeOK, Mount
    <2>3. BookTypeOK'
        BY <1>1, <1>2 DEF TypeOK, BookTypeOK, Mount
    <2>4. CallTypeOK' /\ ExitTypeOK'
        BY <1>2 DEF TypeOK, CallTypeOK, ExitTypeOK, Mount
    <2>5. QED
        BY <2>2, <2>3, <2>4 DEF TypeOK
  <1>3. CASE Edit(s)
    <2>1. edits + 1 \in Values
        BY <1>3, BoundAssumption DEF TypeOK, BookTypeOK, Values, Edit
    <2>2. SheetTypeOK'
        BY <1>3, <2>1 DEF TypeOK, SheetTypeOK, Edit
    <2>3. BookTypeOK'
        BY <1>1, <1>3, <2>1 DEF TypeOK, BookTypeOK, Edit
    <2>4. CallTypeOK' /\ ExitTypeOK'
        BY <1>3 DEF TypeOK, CallTypeOK, ExitTypeOK, Edit, exitVars
    <2>5. QED
        BY <2>2, <2>3, <2>4 DEF TypeOK
  <1>4. CASE DebounceFires(s)
    <2>1. CallTypeOK' /\ conflict' \in [Sheets -> BOOLEAN]
        BY <1>4, BeginTyped DEF TypeOK, CallTypeOK, SheetTypeOK, DebounceFires, Purposes
    <2>2. SheetTypeOK'
        BY <1>4, <2>1 DEF TypeOK, SheetTypeOK, DebounceFires
    <2>3. BookTypeOK' /\ ExitTypeOK'
        BY <1>4 DEF TypeOK, BookTypeOK, ExitTypeOK, DebounceFires, exitVars
    <2>4. QED
        BY <2>1, <2>2, <2>3 DEF TypeOK
  <1>5. CASE Unmount(s)
    <2>1. CallTypeOK' /\ conflict' \in [Sheets -> BOOLEAN]
        BY <1>5, BeginTyped DEF TypeOK, CallTypeOK, SheetTypeOK, Unmount, Purposes
    <2>2. SheetTypeOK'
        BY <1>5, <2>1 DEF TypeOK, SheetTypeOK, Unmount
    <2>3. BookTypeOK'
        BY <1>1, <1>5 DEF TypeOK, BookTypeOK, Unmount
    <2>4. ExitTypeOK'
        BY <1>5 DEF TypeOK, ExitTypeOK, Unmount, exitVars
    <2>5. QED
        BY <2>1, <2>2, <2>3, <2>4 DEF TypeOK
  <1>6. CASE Reload(s)
    <2>1. UNCHANGED <<server, life, typed, excel, handlers, exitVars, edits, faults>>
        BY <1>6 DEF Reload
    <2>2. CASE /\ GivesUp(s) /\ UNCHANGED <<calls, saving>>
               /\ \E b \in {base[s], server[DocOf[s]].rev} : base' = [base EXCEPT ![s] = b]
      <3>1. base[s] \in Nat /\ server[DocOf[s]].rev \in Nat
          BY <1>1 DEF TypeOK, SheetTypeOK, BookTypeOK
      <3>2. SheetTypeOK'
          BY <2>1, <2>2, <3>1, GivesUpTyped DEF TypeOK, SheetTypeOK
      <3>3. BookTypeOK'
          BY <2>1, <2>2, GivesUpTyped DEF TypeOK, BookTypeOK
      <3>4. CallTypeOK' /\ ExitTypeOK'
          BY <2>1, <2>2 DEF TypeOK, CallTypeOK, ExitTypeOK, exitVars
      <3>5. QED
          BY <3>2, <3>3, <3>4 DEF TypeOK
    <2>3. CASE /\ ~NothingToFlush(s) /\ Cardinality(FreeSlots(s)) > 1 /\ Begin(s, "reload")
               /\ UNCHANGED <<given, cell, timer, base>>
      <3>1. CallTypeOK' /\ conflict' \in [Sheets -> BOOLEAN]
          BY <2>3, BeginTyped DEF Purposes
      <3>2. SheetTypeOK' /\ BookTypeOK'
          BY <2>1, <2>3, <3>1 DEF TypeOK, SheetTypeOK, BookTypeOK
      <3>3. ExitTypeOK'
          BY <2>1 DEF TypeOK, ExitTypeOK, exitVars
      <3>4. QED
          BY <3>1, <3>2, <3>3 DEF TypeOK
    <2>4. QED
        BY <1>6, <2>2, <2>3 DEF Reload
  <1>7. CASE OpenExcel(s)
    <2>1. CallTypeOK' /\ conflict' \in [Sheets -> BOOLEAN]
        BY <1>7, BeginTyped DEF TypeOK, CallTypeOK, SheetTypeOK, OpenExcel, Purposes
    <2>2. SheetTypeOK'
        BY <1>7, <2>1 DEF TypeOK, SheetTypeOK, OpenExcel
    <2>3. BookTypeOK' /\ ExitTypeOK'
        BY <1>7 DEF TypeOK, BookTypeOK, ExitTypeOK, OpenExcel, exitVars
    <2>4. QED
        BY <2>1, <2>2, <2>3 DEF TypeOK
  <1>8. CASE ExcelOpens(s)
    <2>1. SheetTypeOK'
        BY <1>8 DEF TypeOK, SheetTypeOK, ExcelOpens, saveVars
    <2>2. BookTypeOK' /\ CallTypeOK' /\ ExitTypeOK'
        BY <1>8 DEF TypeOK, BookTypeOK, CallTypeOK, ExitTypeOK, ExcelOpens, saveVars, exitVars
    <2>3. QED
        BY <2>1, <2>2 DEF TypeOK
  <1>9. CASE ExcelCloses(s)
    <2>1. server[DocOf[s]].rev \in Nat /\ (cell[s] # None) \in BOOLEAN
        BY <1>1 DEF TypeOK, BookTypeOK
    <2>2. SheetTypeOK'
        BY <1>9, <2>1 DEF TypeOK, SheetTypeOK, ExcelCloses
    <2>3. BookTypeOK' /\ CallTypeOK' /\ ExitTypeOK'
        BY <1>9 DEF TypeOK, BookTypeOK, CallTypeOK, ExitTypeOK, ExcelCloses, exitVars
    <2>4. QED
        BY <2>2, <2>3 DEF TypeOK
  <1>10. CASE HandlerTimesOut(s)
    <2>1. CallTypeOK'
      <3>1. \A c \in Slots : [calls[s][c] EXCEPT !.for = "timer"] \in CallRecords
          BY DEF TypeOK, CallTypeOK, CallRecords
      <3>2. [c \in Slots |-> IF calls[s][c].for = "exit"
                THEN [calls[s][c] EXCEPT !.for = "timer"] ELSE calls[s][c]]
              \in [Slots -> CallRecords]
          BY <3>1 DEF TypeOK, CallTypeOK
      <3>3. QED
          BY <1>10, <3>2 DEF TypeOK, CallTypeOK, HandlerTimesOut
    <2>2. ExitTypeOK'
        BY <1>10 DEF TypeOK, ExitTypeOK, HandlerTimesOut
    <2>3. SheetTypeOK' /\ BookTypeOK'
        BY <1>10 DEF TypeOK, SheetTypeOK, BookTypeOK, HandlerTimesOut, sheetVars
    <2>4. QED
        BY <2>1, <2>2, <2>3 DEF TypeOK
  <1>11. QED
      BY <1>2, <1>3, <1>4, <1>5, <1>6, <1>7, <1>8, <1>9, <1>10 DEF SheetStep

LEMMA ExitStepTyped ==
    ASSUME TypeOK, NEW x \in Ways, ExitStep(x)
    PROVE  TypeOK'
  <1>1. x \in Exits /\ Asked(x) \in {"idle", "decision"}
      BY WaysAssumption DEF Asked
  <1>2. CASE Leave(x)
    <2>1. CallTypeOK' /\ ExitTypeOK' /\ conflict' \in [Sheets -> BOOLEAN]
      <3>1. CASE x = "update" /\ discard
          BY <1>1, <1>2, <3>1 DEF TypeOK, CallTypeOK, SheetTypeOK, ExitTypeOK, Leave
      <3>2. CASE ~(x = "update" /\ discard)
          BY <1>1, <1>2, <3>2, FlushStartsTyped DEF TypeOK, ExitTypeOK, Leave
      <3>3. QED
          BY <3>1, <3>2
    <2>2. SheetTypeOK' /\ BookTypeOK'
        BY <1>2, <2>1 DEF TypeOK, SheetTypeOK, BookTypeOK, Leave, sheetVars
    <2>3. QED
        BY <2>1, <2>2 DEF TypeOK
  <1>3. CASE Departs(x)
    <2>1. CallTypeOK'
        BY <1>3, FreeTyped DEF TypeOK, CallTypeOK, Departs
    <2>2. ExitTypeOK'
      <3>1. NoFlush \in [open : BOOLEAN, waits : SUBSET Sheets, failed : BOOLEAN, from : Values]
          BY BoundAssumption DEF NoFlush, Values
      <3>2. QED
          BY <1>1, <1>3, <3>1 DEF TypeOK, ExitTypeOK, Departs
    <2>3. SheetTypeOK' /\ BookTypeOK'
        BY <1>3 DEF TypeOK, SheetTypeOK, BookTypeOK, Departs
    <2>4. QED
        BY <2>1, <2>2, <2>3 DEF TypeOK
  <1>4. CASE Stays(x)
    <2>1. ExitTypeOK'
      <3>1. 0 \in Values
          BY BoundAssumption DEF Values
      <3>2. exit' \in [Exits -> {"idle", "flushing", "confirming", "discarding", "decision"}]
          BY <1>1, <1>4 DEF TypeOK, ExitTypeOK, Stays
      <3>3. covered' \in [Exits -> Values] /\ discard' \in BOOLEAN
          BY <1>1, <1>4, <3>1 DEF TypeOK, ExitTypeOK, Stays
      <3>4. QED
          BY <1>4, <3>2, <3>3 DEF TypeOK, ExitTypeOK, Stays
    <2>2. BookTypeOK'
        BY <1>4 DEF TypeOK, BookTypeOK, Stays, sheetVars
    <2>3. SheetTypeOK' /\ CallTypeOK'
        BY <1>4 DEF TypeOK, SheetTypeOK, CallTypeOK, Stays, sheetVars, saveVars
    <2>4. QED
        BY <2>1, <2>2, <2>3 DEF TypeOK
  <1>5. CASE LeaveUnsaved(x)
      BY <1>1, <1>5
      DEF TypeOK, BookTypeOK, SheetTypeOK, CallTypeOK, ExitTypeOK, LeaveUnsaved, sheetVars,
          saveVars
  <1>6. CASE ReturnToApp(x)
      BY <1>1, <1>6
      DEF TypeOK, BookTypeOK, SheetTypeOK, CallTypeOK, ExitTypeOK, ReturnToApp, sheetVars,
          saveVars
  <1>7. QED
      BY <1>2, <1>3, <1>4, <1>5, <1>6 DEF ExitStep

LEMMA FlushEndsTyped ==
    ASSUME TypeOK, FlushEnds
    PROVE  TypeOK'
  <1>1. NoFlush \in [open : BOOLEAN, waits : SUBSET Sheets, failed : BOOLEAN, from : Values]
      BY BoundAssumption DEF NoFlush, Values
  <1>2. /\ covered' \in [Exits -> Values]
        /\ exit' \in [Exits -> {"idle", "flushing", "confirming", "discarding", "decision"}]
      BY DEF TypeOK, ExitTypeOK, FlushEnds, Asked
  <1>3. QED
      BY <1>1, <1>2
      DEF TypeOK, BookTypeOK, SheetTypeOK, CallTypeOK, ExitTypeOK, FlushEnds, sheetVars, saveVars

LEMMA OtherSurfaceTyped ==
    ASSUME TypeOK, NEW d \in Docs, OtherSurfaceWrites(d)
    PROVE  TypeOK'
  <1>1. server' \in [Docs -> [val : Values, rev : Nat]]
    <2>1. [server[d] EXCEPT !.rev = @ + 1] \in [val : Values, rev : Nat]
        BY DEF TypeOK, BookTypeOK
    <2>2. server' = [server EXCEPT ![d] = [server[d] EXCEPT !.rev = @ + 1]]
        BY DEF OtherSurfaceWrites, TypeOK, BookTypeOK
    <2>3. QED
        BY <2>1, <2>2 DEF TypeOK, BookTypeOK
  <1>2. BookTypeOK'
      BY <1>1 DEF TypeOK, BookTypeOK, OtherSurfaceWrites, sheetVars
  <1>3. SheetTypeOK' /\ CallTypeOK' /\ ExitTypeOK'
      BY DEF TypeOK, SheetTypeOK, CallTypeOK, ExitTypeOK, OtherSurfaceWrites, sheetVars, saveVars,
             exitVars
  <1>4. QED
      BY <1>2, <1>3 DEF TypeOK

\* Every variable keeps its type, for any number of sheets, documents, calls
\* and values typed, whatever the operator's habits.
THEOREM TypeCorrect == Spec => []TypeOK
  <1>1. Init => TypeOK
    <2> SUFFICES ASSUME Init PROVE TypeOK
        OBVIOUS
    <2>1. 0 \in Values
        BY BoundAssumption DEF Values
    <2>2. BookTypeOK /\ SheetTypeOK
        BY <2>1 DEF Init, BookTypeOK, SheetTypeOK
    <2>3. CallTypeOK
        BY FreeTyped DEF Init, CallTypeOK
    <2>4. ExitTypeOK
        BY <2>1 DEF Init, ExitTypeOK, NoFlush
    <2>5. QED
        BY <2>2, <2>3, <2>4 DEF TypeOK
  <1>2. TypeOK /\ [Next]_vars => TypeOK'
    <2> SUFFICES ASSUME TypeOK, [Next]_vars PROVE TypeOK'
        OBVIOUS
    <2>1. CASE Next
        BY <2>1, SheetStepTyped, CallStepTyped, ExitStepTyped, FlushEndsTyped, OtherSurfaceTyped
        DEF Next
    <2>2. CASE UNCHANGED vars
        BY <2>2
        DEF TypeOK, BookTypeOK, SheetTypeOK, CallTypeOK, ExitTypeOK, vars, sheetVars, saveVars,
            exitVars
    <2>3. QED
        BY <2>1, <2>2
  <1>3. QED
      BY <1>1, <1>2, PTL DEF Spec

-----------------------------------------------------------------------------
(* One flush for all exits.                                                *)

ExitCalls(s) == {c \in Slots : calls[s][c].for = "exit"}

\* A sheet has at most one call for an exit, and the flush under way waits for
\* it.
ShareInv ==
    \A s \in Sheets :
        /\ \A c, d \in ExitCalls(s) : c = d
        /\ ExitCalls(s) # {} => flush.open /\ s \in flush.waits

LEMMA ShareKept ==
    ASSUME ShareInv, UNCHANGED flush,
           \A s \in Sheets : ExitCalls(s)' \subseteq ExitCalls(s)
    PROVE  ShareInv'
  BY DEF ShareInv

LEMMA BeginShares ==
    ASSUME TypeOK, NEW s \in Sheets, NEW f \in Purposes \ {"exit"}, Begin(s, f)
    PROVE  \A t \in Sheets : ExitCalls(t)' \subseteq ExitCalls(t)
  <1>1. Begun(s, f).for = f
      BY DEF Begun, Sent, Free
  <1>2. ASSUME NEW t \in Sheets, NEW c \in Slots, calls'[t][c].for = "exit"
        PROVE  calls[t][c].for = "exit"
      BY <1>1, <1>2 DEF Begin, TypeOK, CallTypeOK
  <1>3. QED
      BY <1>2 DEF ExitCalls

\* The calls that end leave the exits' flush together.
LEMMA EndedShares ==
    ASSUME TypeOK, ShareInv, NEW s \in Sheets, NEW ends \in SUBSET Slots, NEW ok \in BOOLEAN,
           Ended(s, ends, ok),
           calls' = [calls EXCEPT ![s] = [w \in Slots |-> IF w \in ends THEN Free ELSE @[w]]]
    PROVE  ShareInv'
  <1>1. \A t \in Sheets : ExitCalls(t)' = IF t = s THEN ExitCalls(t) \ ends ELSE ExitCalls(t)
    <2>1. \A t \in Sheets \ {s} : calls'[t] = calls[t]
        BY DEF TypeOK, CallTypeOK
    <2>2. \A c \in Slots : calls'[s][c] = IF c \in ends THEN Free ELSE calls[s][c]
        BY DEF TypeOK, CallTypeOK
    <2>3. Free.for # "exit"
        BY DEF Free
    <2>4. QED
        BY <2>1, <2>2, <2>3 DEF ExitCalls
  <1>2. CASE \E w \in ends : calls[s][w].for = "exit"
    <2>1. ExitCalls(s)' = {}
      <3>1. PICK w \in ends : w \in ExitCalls(s)
          BY <1>2 DEF ExitCalls
      <3>2. ExitCalls(s) = {w}
          BY <3>1 DEF ShareInv
      <3>3. QED
          BY <1>1, <3>1, <3>2
    <2>2. flush'.open = flush.open /\ flush'.waits = flush.waits \ {s}
        BY <1>2 DEF Ended, TypeOK, ExitTypeOK
    <2>3. QED
        BY <1>1, <2>1, <2>2 DEF ShareInv
  <1>3. CASE ~\E w \in ends : calls[s][w].for = "exit"
    <2>1. flush' = flush
        BY <1>3 DEF Ended
    <2>2. QED
        BY <1>1, <2>1, ShareKept
  <1>4. QED
      BY <1>2, <1>3

LEMMA WokenSlots ==
    ASSUME NEW s, NEW c \in Slots
    PROVE  Woken(s, c) \in SUBSET Slots
  BY DEF Woken, Awaiting

\* A call that sends again keeps its purpose.
LEMMA SentAgain ==
    ASSUME TypeOK, NEW s \in Sheets, NEW c \in Slots, SaveEndsWell(s, c), cell[s] # None
    PROVE  \A t \in Sheets, w \in Slots : calls'[t][w].for = calls[t][w].for
  <1>1. calls' = [calls EXCEPT ![s] =
            [w \in Slots |-> IF w \in Woken(s, c) THEN Sent(s, calls[s][w].for) ELSE calls[s][w]]]
      BY DEF SaveEndsWell
  <1>2. \A w : Sent(s, calls[s][w].for).for = calls[s][w].for
      BY DEF Sent, Free
  <1>3. QED
      BY <1>1, <1>2 DEF TypeOK, CallTypeOK

LEMMA SaveEndsWellShares ==
    ASSUME TypeOK, ShareInv, NEW s \in Sheets, NEW c \in Slots, SaveEndsWell(s, c)
    PROVE  ShareInv'
  <1>1. CASE cell[s] = None
      BY <1>1, WokenSlots, EndedShares DEF SaveEndsWell
  <1>2. CASE cell[s] # None
    <2>2. \A t \in Sheets, w \in Slots : calls'[t][w].for = calls[t][w].for
        BY <1>2, SentAgain
    <2>3. flush' = flush
        BY <1>2 DEF SaveEndsWell
    <2>4. QED
        BY <2>2, <2>3, ShareKept DEF ExitCalls
  <1>3. QED
      BY <1>1, <1>2

LEMMA CallStepShares ==
    ASSUME TypeOK, ShareInv, NEW s \in Sheets, NEW c \in Slots, CallStep(s, c)
    PROVE  ShareInv'
  <1>1. \A ph : Settled(calls[s][c], ph).for = calls[s][c].for
      BY DEF Settled, Free
  <1>2. ASSUME NEW ph, calls' = [calls EXCEPT ![s][c] = Settled(@, ph)], UNCHANGED flush
        PROVE  ShareInv'
    <2>1. \A t \in Sheets, w \in Slots : calls'[t][w].for = calls[t][w].for
        BY <1>1, <1>2 DEF TypeOK, CallTypeOK
    <2>2. QED
        BY <1>2, <2>1, ShareKept DEF ExitCalls
  <1>3. CASE PatchAccepted(s, c)
      BY <1>2, <1>3 DEF PatchAccepted, exitVars
  <1>4. CASE PatchRefused(s, c)
      BY <1>2, <1>4 DEF PatchRefused, exitVars
  <1>5. ASSUME NEW refused, SaveFails(s, c, refused) PROVE ShareInv'
      BY <1>5, WokenSlots, EndedShares DEF SaveFails
  <1>6. CASE PatchFailed(s, c)
      BY <1>5, <1>6 DEF PatchFailed
  <1>7. CASE PreviewRead(s, c)
      BY <1>5, <1>7, SaveEndsWellShares DEF PreviewRead
  <1>8. CASE ServerAnswers(s, c)
    <2>1. CASE calls' = [calls EXCEPT ![s][c].phase = "accepted",
                                      ![s][c].base = server[DocOf[s]].rev + 1]
      <3>1. \A t \in Sheets, w \in Slots : calls'[t][w].for = calls[t][w].for
          BY <2>1 DEF TypeOK, CallTypeOK, CallRecords
      <3>2. QED
          BY <1>8, <3>1, ShareKept DEF ExitCalls, ServerAnswers, exitVars
    <2>2. CASE calls' = [calls EXCEPT ![s][c] = Settled(@, "refused")]
        BY <1>2, <1>8, <2>2 DEF ServerAnswers, exitVars
    <2>3. QED
        BY <1>8, <2>1, <2>2 DEF ServerAnswers
  <1>9. CASE RequestFails(s, c)
      BY <1>2, <1>9 DEF RequestFails, exitVars
  <1>10. QED
      BY <1>3, <1>4, <1>6, <1>7, <1>8, <1>9 DEF CallStep

LEMMA SheetStepShares ==
    ASSUME TypeOK, ShareInv, NEW s \in Sheets, SheetStep(s)
    PROVE  ShareInv'
  <1>1. ASSUME UNCHANGED <<calls, flush>> PROVE ShareInv'
      BY <1>1, ShareKept DEF ExitCalls
  <1>2. CASE Mount(s) \/ Edit(s) \/ ExcelOpens(s) \/ ExcelCloses(s)
      BY <1>1, <1>2 DEF Mount, Edit, ExcelOpens, ExcelCloses, saveVars, exitVars
  <1>3. CASE DebounceFires(s)
      BY <1>1, <1>3, BeginShares, ShareKept DEF DebounceFires, exitVars, Purposes
  <1>4. CASE Unmount(s)
      BY <1>1, <1>4, BeginShares, ShareKept DEF Unmount, exitVars, Purposes
  <1>5. CASE OpenExcel(s)
      BY <1>1, <1>5, BeginShares, ShareKept DEF OpenExcel, exitVars, Purposes
  <1>6. CASE HandlerTimesOut(s)
    <2>1. ExitCalls(s)' = {}
      <3>1. \A c \in Slots : calls[s][c] \in CallRecords
          BY DEF TypeOK, CallTypeOK
      <3>2. \A c \in Slots : [calls[s][c] EXCEPT !.for = "timer"].for = "timer"
          BY <3>1 DEF CallRecords
      <3>3. \A c \in Slots : calls'[s][c] = IF calls[s][c].for = "exit"
                THEN [calls[s][c] EXCEPT !.for = "timer"] ELSE calls[s][c]
          BY <1>6 DEF TypeOK, CallTypeOK, HandlerTimesOut
      <3>4. QED
          BY <3>2, <3>3 DEF ExitCalls
    <2>2. \A t \in Sheets \ {s} : ExitCalls(t)' = ExitCalls(t)
        BY <1>6 DEF TypeOK, CallTypeOK, HandlerTimesOut, ExitCalls
    <2>3. flush'.open = flush.open /\ flush'.waits = flush.waits \ {s}
        BY <1>6 DEF TypeOK, ExitTypeOK, HandlerTimesOut
    <2>4. QED
        BY <2>1, <2>2, <2>3 DEF ShareInv
  <1>7. CASE Reload(s)
      BY <1>1, <1>7, BeginShares, ShareKept DEF Reload, exitVars, Purposes
  <1>8. QED
      BY <1>2, <1>3, <1>4, <1>5, <1>6, <1>7 DEF SheetStep

\* A flush that starts finds no call of an earlier one.
LEMMA FlushStartsShares ==
    ASSUME TypeOK, ShareInv, FlushStarts
    PROVE  ShareInv'
  <1>1. CASE Shared
      BY <1>1, ShareKept DEF FlushStarts, ExitCalls
  <1>2. CASE ~Shared
    <2>1. \A s \in Sheets : ExitCalls(s) = {}
        BY <1>2 DEF ShareInv, Shared
    <2>2. \A s \in Sheets : ExitCalls(s)' \subseteq (IF s \in Due THEN {FirstSlot(s)} ELSE {})
        BY <1>2, <2>1 DEF FlushStarts, ExitCalls, TypeOK, CallTypeOK
    <2>3. flush'.open = TRUE /\ flush'.waits = Due
        BY <1>2 DEF FlushStarts
    <2>4. QED
        BY <2>2, <2>3 DEF ShareInv
  <1>3. QED
      BY <1>1, <1>2

LEMMA ExitStepShares ==
    ASSUME TypeOK, ShareInv, NEW x \in Ways, ExitStep(x)
    PROVE  ShareInv'
  <1>1. ASSUME UNCHANGED <<calls, flush>> PROVE ShareInv'
      BY <1>1, ShareKept DEF ExitCalls
  <1>2. CASE Leave(x)
      BY <1>1, <1>2, FlushStartsShares DEF Leave
  <1>3. CASE Departs(x)
      BY <1>3 DEF Departs, ShareInv, ExitCalls, Free
  <1>4. CASE Stays(x) \/ LeaveUnsaved(x) \/ ReturnToApp(x)
      BY <1>1, <1>4 DEF Stays, LeaveUnsaved, ReturnToApp, saveVars
  <1>5. QED
      BY <1>2, <1>3, <1>4 DEF ExitStep

LEMMA NextShares ==
    ASSUME TypeOK, ShareInv, [Next]_vars
    PROVE  ShareInv'
  <1>1. CASE FlushEnds
    <2>1. \A s \in Sheets : ExitCalls(s)' = {}
        BY <1>1 DEF FlushEnds, ShareInv, saveVars, ExitCalls
    <2>2. QED
        BY <2>1 DEF ShareInv
  <1>2. CASE (\E d \in Docs : OtherSurfaceWrites(d)) \/ UNCHANGED vars
    <2>1. UNCHANGED <<calls, flush>>
        BY <1>2 DEF OtherSurfaceWrites, vars, saveVars, exitVars
    <2>2. QED
        BY <2>1, ShareKept DEF ExitCalls
  <1>3. QED
      BY <1>1, <1>2, SheetStepShares, CallStepShares, ExitStepShares DEF Next

LEMMA ShareInvariant == Spec => []ShareInv
  <1>1. Init => ShareInv
      BY DEF Init, ShareInv, ExitCalls, Free
  <1>2. TypeOK /\ ShareInv /\ [Next]_vars => ShareInv'
      BY NextShares
  <1>3. QED
      BY <1>1, <1>2, TypeCorrect, PTL DEF Spec

\* No sheet's handler runs twice for exits, however many of them are under
\* way, fail, time out and are tried again.
THEOREM OneFlush == Spec => []ExitsShareFlush
  <1>1. ShareInv => ExitsShareFlush
    <2> SUFFICES ASSUME ShareInv, NEW s \in Sheets
                 PROVE  Cardinality(ExitCalls(s)) <= 1
        BY DEF ExitsShareFlush, ExitCalls
    <2>1. CASE ExitCalls(s) = {}
        BY <2>1, FS_EmptySet
    <2>2. CASE ExitCalls(s) # {}
      <3>1. PICK c \in ExitCalls(s) : ExitCalls(s) = {c}
          BY <2>2 DEF ShareInv
      <3>2. Cardinality(ExitCalls(s)) = 1
          BY <3>1, FS_Singleton, Zenon
      <3>3. QED
          BY <3>2
    <2>3. QED
        BY <2>1, <2>2
  <1>2. QED
      BY <1>1, ShareInvariant, PTL

-----------------------------------------------------------------------------
(* An unsent cell has a save handler.                                      *)

\* A mounted sheet is registered, and so is one that is gone with a cell to
\* send; only a sheet that is gone makes a call to leave the registry.
Guarded(s) ==
    /\ cell[s] # None \/ life[s] = "mounted" => handlers[DocOf[s]] = s
    /\ \A c \in Slots : calls[s][c].for = "leave" => life[s] = "gone"

GuardInv == \A s \in Sheets : Guarded(s)

\* No call to leave begins, no cell is typed, no sheet is mounted.
LEMMA GuardKept ==
    ASSUME GuardInv, UNCHANGED <<life, handlers>>,
           \A s \in Sheets : cell'[s] # None => cell[s] # None,
           \A s \in Sheets, c \in Slots : calls'[s][c].for = "leave" => calls[s][c].for = "leave"
    PROVE  GuardInv'
  BY DEF GuardInv, Guarded

LEMMA BeginGuards ==
    ASSUME TypeOK, NEW s \in Sheets, NEW f \in Purposes \ {"leave"}, Begin(s, f)
    PROVE  \A t \in Sheets, c \in Slots :
               calls'[t][c].for = "leave" => calls[t][c].for = "leave"
  <1>1. Begun(s, f).for = f
      BY DEF Begun, Sent, Free
  <1>2. QED
      BY <1>1 DEF Begin, TypeOK, CallTypeOK

\* A call to leave that ends well takes an unmounted sheet with nothing left
\* to send out of the registry.
LEMMA EndedGuards ==
    ASSUME TypeOK, GuardInv, NEW s \in Sheets, NEW ends \in SUBSET Slots, NEW ok \in BOOLEAN,
           Ended(s, ends, ok), ok => cell[s] = None,
           calls' = [calls EXCEPT ![s] = [w \in Slots |-> IF w \in ends THEN Free ELSE @[w]]],
           \A t \in Sheets : cell'[t] # None => cell[t] # None,
           UNCHANGED life
    PROVE  GuardInv'
  <1>1. \A t \in Sheets, c \in Slots :
            calls'[t][c].for = "leave" => calls[t][c].for = "leave"
      BY DEF TypeOK, CallTypeOK, Free
  <1>2. CASE ok /\ (\E w \in ends : calls[s][w].for = "leave") /\ handlers[DocOf[s]] = s
    <2>1. life[s] = "gone" /\ cell[s] = None
        BY <1>2 DEF GuardInv, Guarded
    <2>2. handlers' = [handlers EXCEPT ![DocOf[s]] = None]
        BY <1>2 DEF Ended
    <2>3. \A t \in Sheets : handlers[DocOf[t]] = t => t = s \/ handlers'[DocOf[t]] = t
        BY <1>2, <2>2, DocOfSheet DEF TypeOK, BookTypeOK
    <2>4. QED
        BY <1>1, <2>1, <2>3 DEF GuardInv, Guarded
  <1>3. CASE ~(ok /\ (\E w \in ends : calls[s][w].for = "leave") /\ handlers[DocOf[s]] = s)
    <2>1. handlers' = handlers
        BY <1>3, DocOfSheet DEF Ended, TypeOK, BookTypeOK
    <2>2. QED
        BY <1>1, <2>1, GuardKept
  <1>4. QED
      BY <1>2, <1>3

\* What a reload drops is not typed.
LEMMA SaveFailsDrops ==
    ASSUME TypeOK, NEW s \in Sheets, NEW c, NEW refused, SaveFails(s, c, refused)
    PROVE  /\ given \subseteq given'
           /\ \A t \in Sheets :
                  cell'[t] = cell[t] \/ (cell'[t] = None /\ DocOf[t] \in given')
  BY DEF SaveFails, GivesUp, TypeOK, SheetTypeOK

LEMMA SaveEndsWellGuards ==
    ASSUME TypeOK, GuardInv, NEW s \in Sheets, NEW c \in Slots, SaveEndsWell(s, c),
           UNCHANGED <<cell, life>>
    PROVE  GuardInv'
  <1>1. CASE cell[s] = None
      BY <1>1, WokenSlots, EndedGuards DEF SaveEndsWell
  <1>2. CASE cell[s] # None
    <2>2. \A t \in Sheets, w \in Slots : calls'[t][w].for = calls[t][w].for
        BY <1>2, SentAgain
    <2>3. handlers' = handlers
        BY <1>2 DEF SaveEndsWell
    <2>4. QED
        BY <2>2, <2>3, GuardKept
  <1>3. QED
      BY <1>1, <1>2

LEMMA CallStepGuards ==
    ASSUME TypeOK, GuardInv, NEW s \in Sheets, NEW c \in Slots, CallStep(s, c)
    PROVE  GuardInv'
  <1>1. \A ph : Settled(calls[s][c], ph).for = calls[s][c].for
      BY DEF Settled, Free
  <1>2. ASSUME NEW ph, calls' = [calls EXCEPT ![s][c] = Settled(@, ph)],
               UNCHANGED <<life, handlers>>,
               \A t \in Sheets : cell'[t] # None => cell[t] # None
        PROVE  GuardInv'
    <2>1. \A t \in Sheets, w \in Slots : calls'[t][w].for = calls[t][w].for
        BY <1>1, <1>2 DEF TypeOK, CallTypeOK
    <2>2. QED
        BY <1>2, <2>1, GuardKept
  <1>3. CASE PatchAccepted(s, c)
    <2>1. \A t \in Sheets : cell'[t] # None => cell[t] # None
        BY <1>3 DEF PatchAccepted, Unsent, TypeOK, SheetTypeOK
    <2>2. QED
        BY <1>2, <1>3, <2>1 DEF PatchAccepted
  <1>4. CASE PatchRefused(s, c)
      BY <1>2, <1>4 DEF PatchRefused, sheetVars
  <1>5. ASSUME NEW refused, SaveFails(s, c, refused), UNCHANGED life PROVE GuardInv'
    <2>1. \A t \in Sheets : cell'[t] # None => cell[t] # None
        BY <1>5, SaveFailsDrops
    <2>2. QED
        BY <1>5, <2>1, WokenSlots, EndedGuards DEF SaveFails
  <1>6. CASE PatchFailed(s, c)
      BY <1>5, <1>6 DEF PatchFailed
  <1>7. CASE PreviewRead(s, c)
      BY <1>5, <1>7, SaveEndsWellGuards DEF PreviewRead
  <1>8. CASE ServerAnswers(s, c)
    <2>1. CASE calls' = [calls EXCEPT ![s][c].phase = "accepted",
                                      ![s][c].base = server[DocOf[s]].rev + 1]
      <3>1. \A t \in Sheets, w \in Slots : calls'[t][w].for = calls[t][w].for
          BY <2>1 DEF TypeOK, CallTypeOK, CallRecords
      <3>2. QED
          BY <1>8, <3>1, GuardKept DEF ServerAnswers, sheetVars
    <2>2. CASE calls' = [calls EXCEPT ![s][c] = Settled(@, "refused")]
        BY <1>2, <1>8, <2>2 DEF ServerAnswers, sheetVars
    <2>3. QED
        BY <1>8, <2>1, <2>2 DEF ServerAnswers
  <1>9. CASE RequestFails(s, c)
      BY <1>2, <1>9 DEF RequestFails, sheetVars
  <1>10. QED
      BY <1>3, <1>4, <1>6, <1>7, <1>8, <1>9 DEF CallStep

LEMMA MountGuards ==
    ASSUME "reopen" \notin Habits, TypeOK, GuardInv, NEW s \in Sheets, Mount(s)
    PROVE  GuardInv'
  <1>1. handlers[DocOf[s]] = None
      BY DEF Mount
  <1>2. handlers'[DocOf[s]] = s
      BY DocOfSheet DEF Mount, TypeOK, BookTypeOK
  <1>3. \A t \in Sheets \ {s} :
            handlers[DocOf[t]] = t => handlers'[DocOf[t]] = t /\ life'[t] = life[t]
      BY <1>1, NoneIsNoValue, DocOfSheet DEF Mount, TypeOK, BookTypeOK, SheetTypeOK
  <1>4. \A t \in Sheets \ {s} : life'[t] = life[t]
      BY DEF Mount, TypeOK, SheetTypeOK
  <1>5. \A c \in Slots : calls[s][c].for # "leave"
      BY DEF Mount, GuardInv, Guarded
  <1>6. UNCHANGED <<cell, calls>>
      BY DEF Mount
  <1>7. QED
      BY <1>2, <1>3, <1>4, <1>5, <1>6 DEF GuardInv, Guarded

LEMMA UnmountGuards ==
    ASSUME TypeOK, GuardInv, NEW s \in Sheets, Unmount(s)
    PROVE  GuardInv'
  <1>1. life'[s] = "gone" /\ \A t \in Sheets \ {s} : life'[t] = life[t] /\ cell'[t] = cell[t]
      BY DEF Unmount, TypeOK, SheetTypeOK
  <1>2. \A t \in Sheets \ {s}, c \in Slots : calls'[t][c] = calls[t][c]
      BY DEF Unmount, Begin, TypeOK, CallTypeOK
  <1>3. handlers[DocOf[s]] = s
      BY DEF Unmount, GuardInv, Guarded
  <1>4. \A t \in Sheets \ {s} : handlers[DocOf[t]] = t => handlers'[DocOf[t]] = t
      BY <1>3, DocOfSheet DEF Unmount, TypeOK, BookTypeOK
  <1>5. cell'[s] # None => handlers'[DocOf[s]] = s
    <2>1. CASE NothingToFlush(s)
        BY <2>1 DEF NothingToFlush, Unsendable, Unmount, TypeOK, SheetTypeOK
    <2>2. CASE ~NothingToFlush(s)
        BY <1>3, <2>2, DocOfSheet DEF Unmount, UnmountsFreely, TypeOK, BookTypeOK
    <2>3. QED
        BY <2>1, <2>2
  <1>6. QED
      BY <1>1, <1>2, <1>4, <1>5 DEF GuardInv, Guarded

LEMMA SheetStepGuards ==
    ASSUME "reopen" \notin Habits, TypeOK, GuardInv, NEW s \in Sheets, SheetStep(s)
    PROVE  GuardInv'
  <1>1. CASE Mount(s)
      BY <1>1, MountGuards
  <1>2. CASE Edit(s)
    <2>1. UNCHANGED <<life, handlers, calls>> /\ life[s] = "mounted"
        BY <1>2 DEF Edit
    <2>2. \A t \in Sheets \ {s} : cell'[t] = cell[t]
        BY <1>2 DEF Edit, TypeOK, SheetTypeOK
    <2>3. QED
        BY <2>1, <2>2 DEF GuardInv, Guarded
  <1>3. CASE DebounceFires(s)
    <2>1. \A t \in Sheets, c \in Slots :
              calls'[t][c].for = "leave" => calls[t][c].for = "leave"
        BY <1>3, BeginGuards DEF DebounceFires, Purposes
    <2>2. QED
        BY <1>3, <2>1, GuardKept DEF DebounceFires
  <1>4. CASE Unmount(s)
      BY <1>4, UnmountGuards
  <1>5. CASE Reload(s)
    <2>1. \A t \in Sheets : cell'[t] # None => cell[t] # None
        BY <1>5 DEF Reload, GivesUp, TypeOK, SheetTypeOK
    <2>2. \A t \in Sheets, c \in Slots :
              calls'[t][c].for = "leave" => calls[t][c].for = "leave"
        BY <1>5, BeginGuards DEF Reload, Purposes
    <2>3. QED
        BY <1>5, <2>1, <2>2, GuardKept DEF Reload
  <1>6. CASE OpenExcel(s)
    <2>1. \A t \in Sheets, c \in Slots :
              calls'[t][c].for = "leave" => calls[t][c].for = "leave"
        BY <1>6, BeginGuards DEF OpenExcel, Purposes
    <2>2. QED
        BY <1>6, <2>1, GuardKept DEF OpenExcel
  <1>7. CASE ExcelOpens(s) \/ ExcelCloses(s)
      BY <1>7, GuardKept DEF ExcelOpens, ExcelCloses, saveVars
  <1>8. CASE HandlerTimesOut(s)
    <2>1. \A t \in Sheets, c \in Slots :
              calls'[t][c].for = "leave" => calls[t][c].for = "leave"
      <3>1. \A c \in Slots : [calls[s][c] EXCEPT !.for = "timer"].for = "timer"
          BY DEF TypeOK, CallTypeOK, CallRecords
      <3>2. QED
          BY <1>8, <3>1 DEF HandlerTimesOut, TypeOK, CallTypeOK
    <2>2. QED
        BY <1>8, <2>1, GuardKept DEF HandlerTimesOut, sheetVars
  <1>9. QED
      BY <1>1, <1>2, <1>3, <1>4, <1>5, <1>6, <1>7, <1>8 DEF SheetStep

LEMMA ExitStepGuards ==
    ASSUME TypeOK, GuardInv, NEW x \in Ways, ExitStep(x)
    PROVE  GuardInv'
  <1>1. CASE Leave(x)
    <2>1. \A t \in Sheets, c \in Slots :
              calls'[t][c].for = "leave" => calls[t][c].for = "leave"
      <3>1. CASE UNCHANGED calls
          BY <3>1
      <3>2. CASE FlushStarts /\ ~Shared
        <4>1. \A t : Begun(t, "exit").for = "exit"
            BY DEF Begun, Sent, Free
        <4>2. \A t \in Sheets : calls'[t] = IF t \in Due
                  THEN [calls[t] EXCEPT ![FirstSlot(t)] = Begun(t, "exit")] ELSE calls[t]
            BY <3>2 DEF FlushStarts
        <4>3. \A t \in Sheets : calls[t] \in [Slots -> CallRecords]
            BY DEF TypeOK, CallTypeOK
        <4>4. QED
            BY <4>1, <4>2, <4>3
      <3>3. QED
          BY <1>1, <3>1, <3>2 DEF Leave, FlushStarts
    <2>2. QED
        BY <1>1, <2>1, GuardKept DEF Leave, sheetVars
  <1>2. CASE Departs(x)
      BY <1>2, GuardKept DEF Departs, Free
  <1>3. CASE Stays(x) \/ LeaveUnsaved(x) \/ ReturnToApp(x)
      BY <1>3, GuardKept DEF Stays, LeaveUnsaved, ReturnToApp, saveVars, sheetVars
  <1>4. QED
      BY <1>1, <1>2, <1>3 DEF ExitStep

LEMMA NextGuards ==
    ASSUME "reopen" \notin Habits, TypeOK, GuardInv, [Next]_vars
    PROVE  GuardInv'
  <1>1. CASE FlushEnds \/ (\E d \in Docs : OtherSurfaceWrites(d)) \/ UNCHANGED vars
      BY <1>1, GuardKept DEF FlushEnds, OtherSurfaceWrites, vars, sheetVars, saveVars
  <1>2. QED
      BY <1>1, SheetStepGuards, CallStepGuards, ExitStepGuards DEF Next

LEMMA GuardInvariant ==
    ASSUME "reopen" \notin Habits
    PROVE  Spec => []GuardInv
  <1>1. Init => GuardInv
      BY DEF Init, GuardInv, Guarded, Free
  <1>2. TypeOK /\ GuardInv /\ [Next]_vars => GuardInv'
      BY NextGuards
  <1>3. QED
      BY <1>1, <1>2, TypeCorrect, PTL DEF Spec

\* An operator who does not open a document again whose last surface could not
\* save has a save handler for every unsent cell, before and after its surface
\* is gone, whatever calls overlap or fail.
THEOREM UnsentCellsGuarded ==
    ASSUME "reopen" \notin Habits
    PROVE  Spec => []EditsGuarded
  <1>1. GuardInv => EditsGuarded
      BY DEF GuardInv, Guarded, EditsGuarded, Registered
  <1>2. QED
      BY <1>1, GuardInvariant, PTL

-----------------------------------------------------------------------------
(* An exit that succeeds loses nothing.                                    *)

\* The cell of a sheet is sent, or was typed after the edits that n counts.
SentSince(s, n) == cell[s] = None \/ cell[s] > n

\* A discard is in force only behind a dialog, which the installer has not, and
\* under Excel nothing is left to send; a flush whose handlers have all ended
\* well has sent what it found.
LossInv ==
    /\ exit["update"] # "decision"
    /\ discard /\ app = "running" => exit["close"] = "discarding" \/ exit["logout"] = "discarding"
    /\ \A s \in Sheets : excel[s] \in {"opening", "open"} => cell[s] = None
    /\ flush.from <= edits /\ \A x \in Exits : covered[x] <= edits
    /\ flush.open /\ ~flush.failed => \A s \in Sheets \ flush.waits : SentSince(s, flush.from)
    /\ \A x \in Exits : exit[x] = "confirming" => \A s \in Sheets : SentSince(s, covered[x])
    /\ app \in Exits => \A s \in Sheets : SentSince(s, covered[app])

\* What holds of the flush and the exits is kept by a step that types nothing
\* and settles no handler.
LEMMA LossKept ==
    ASSUME TypeOK, LossInv, app = "running", UNCHANGED <<flush, discard, exit, covered, app, edits>>,
           \A s \in Sheets : cell'[s] = cell[s] \/ cell'[s] = None,
           \A s \in Sheets : excel'[s] \in {"opening", "open"} =>
                                excel[s] \in {"opening", "open"} \/ cell'[s] = None
    PROVE  LossInv'
  <1>1. \A n : \A s \in Sheets : SentSince(s, n) => SentSince(s, n)'
      BY DEF SentSince
  <1>2. \A s \in Sheets : excel'[s] \in {"opening", "open"} => cell'[s] = None
      BY DEF LossInv
  <1>3. QED
      BY <1>1, <1>2 DEF LossInv

\* A handler that ends well has nothing left to send; one that does not fails
\* the flush.
LEMMA EndedLoses ==
    ASSUME TypeOK, LossInv, app = "running", NEW s \in Sheets, NEW ends \in SUBSET Slots,
           NEW ok \in BOOLEAN, Ended(s, ends, ok), ok => cell[s] = None,
           \A t \in Sheets : cell'[t] = cell[t] \/ cell'[t] = None,
           UNCHANGED <<discard, exit, covered, app, edits>>
    PROVE  LossInv'
  <1>1. \A t \in Sheets : excel'[t] \in {"opening", "open"} =>
            excel[t] \in {"opening", "open"} \/ cell'[t] = None
      BY DEF Ended, TypeOK, SheetTypeOK
  <1>2. CASE \E w \in ends : calls[s][w].for = "exit"
    <2>1. /\ flush'.open = flush.open /\ flush'.waits = flush.waits \ {s}
          /\ flush'.failed = (flush.failed \/ ~ok) /\ flush'.from = flush.from
        BY <1>2 DEF Ended, TypeOK, ExitTypeOK
    <2>2. flush'.open /\ ~flush'.failed =>
              \A t \in Sheets \ flush'.waits : SentSince(t, flush.from)'
        BY <2>1 DEF LossInv, SentSince
    <2>3. \A n : \A t \in Sheets : SentSince(t, n) => SentSince(t, n)'
        BY DEF SentSince
    <2>4. QED
        BY <1>1, <2>1, <2>2, <2>3 DEF LossInv
  <1>3. CASE ~\E w \in ends : calls[s][w].for = "exit"
    <2>1. flush' = flush
        BY <1>3 DEF Ended
    <2>2. QED
        BY <1>1, <2>1, LossKept
  <1>4. QED
      BY <1>2, <1>3

LEMMA SaveEndsWellLoses ==
    ASSUME TypeOK, LossInv, app = "running", NEW s \in Sheets, NEW c \in Slots,
           SaveEndsWell(s, c), UNCHANGED <<cell, discard, exit, covered, app, edits>>
    PROVE  LossInv'
  <1>1. CASE cell[s] = None
      BY <1>1, WokenSlots, EndedLoses DEF SaveEndsWell
  <1>2. CASE cell[s] # None
      BY <1>2, LossKept DEF SaveEndsWell
  <1>3. QED
      BY <1>1, <1>2

LEMMA CallStepLoses ==
    ASSUME TypeOK, LossInv, NEW s \in Sheets, NEW c \in Slots, CallStep(s, c)
    PROVE  LossInv'
  <1>1. CASE PatchAccepted(s, c)
    <2>1. \A t \in Sheets : cell'[t] = cell[t] \/ cell'[t] = None
        BY <1>1 DEF PatchAccepted, Unsent, TypeOK, SheetTypeOK
    <2>2. QED
        BY <1>1, <2>1, LossKept DEF PatchAccepted, exitVars
  <1>2. ASSUME NEW refused, app = "running", SaveFails(s, c, refused),
               UNCHANGED <<discard, exit, covered, app, edits>>
        PROVE  LossInv'
      BY <1>2, WokenSlots, SaveFailsDrops, EndedLoses DEF SaveFails
  <1>3. CASE PatchFailed(s, c)
      BY <1>2, <1>3 DEF PatchFailed
  <1>4. CASE PreviewRead(s, c)
      BY <1>2, <1>4, SaveEndsWellLoses DEF PreviewRead
  <1>5. CASE PatchRefused(s, c) \/ ServerAnswers(s, c) \/ RequestFails(s, c)
      BY <1>5, LossKept DEF PatchRefused, ServerAnswers, RequestFails, sheetVars, exitVars
  <1>6. QED
      BY <1>1, <1>3, <1>4, <1>5 DEF CallStep

LEMMA EditLoses ==
    ASSUME "excelType" \notin Habits, TypeOK, LossInv, NEW s \in Sheets, Edit(s)
    PROVE  LossInv'
  <1>1. cell'[s] = edits + 1 /\ \A t \in Sheets \ {s} : cell'[t] = cell[t]
      BY DEF Edit, TypeOK, SheetTypeOK
  <1>2. edits \in Nat /\ flush.from \in Nat /\ \A x \in Exits : covered[x] \in Nat
      BY DEF TypeOK, BookTypeOK, ExitTypeOK, Values
  <1>3. \A t \in Sheets, n \in Nat : n <= edits /\ SentSince(t, n) => SentSince(t, n)'
      BY <1>1, <1>2 DEF SentSince
  <1>4. \A n \in Nat : n <= edits => SentSince(s, n)'
      BY <1>1, <1>2 DEF SentSince
  <1>5. excel[s] = "closed" /\ app = "running"
      BY DEF Edit
  <1>6. edits' = edits + 1 /\ UNCHANGED <<flush, discard, exit, covered, app, excel>>
      BY DEF Edit, exitVars
  <1>7. \A t \in Sheets : excel'[t] \in {"opening", "open"} => cell'[t] = None
      BY <1>1, <1>5, <1>6 DEF LossInv
  <1>8. flush'.from <= edits' /\ \A x \in Exits : covered'[x] <= edits'
      BY <1>2, <1>6 DEF LossInv
  <1>9. app' \notin Exits
      BY <1>5, <1>6 DEF Exits
  <1>10. QED
      BY <1>2, <1>3, <1>6, <1>7, <1>8, <1>9 DEF LossInv

\* A discard in force keeps the pointer from the sheets.
LEMMA NoDiscard ==
    ASSUME LossInv, app = "running", Points
    PROVE  ~discard
  BY DEF LossInv, Points, Modal

LEMMA SheetStepLoses ==
    ASSUME "excelType" \notin Habits, TypeOK, LossInv, NEW s \in Sheets, SheetStep(s)
    PROVE  LossInv'
  <1>1. CASE Mount(s)
    <2>1. ~discard /\ discard' = FALSE
        BY <1>1, NoDiscard DEF Mount
    <2>2. discard' = discard
        BY <2>1 DEF TypeOK, ExitTypeOK
    <2>3. QED
        BY <1>1, <2>2, LossKept DEF Mount
  <1>2. CASE Edit(s)
      BY <1>2, EditLoses
  <1>3. CASE DebounceFires(s)
      BY <1>3, LossKept DEF DebounceFires, exitVars
  <1>4. CASE Unmount(s) \/ Reload(s)
    <2>1. \A t \in Sheets : cell'[t] = cell[t] \/ cell'[t] = None
        BY <1>4 DEF Unmount, Reload, GivesUp, TypeOK, SheetTypeOK
    <2>2. QED
        BY <1>4, <2>1, LossKept DEF Unmount, Reload, exitVars
  <1>5. CASE OpenExcel(s)
    <2>1. \A t \in Sheets : excel'[t] \in {"opening", "open"} =>
              excel[t] \in {"opening", "open"} \/ cell'[t] = None
      <3>1. CASE NothingToFlush(s)
        <4>1. cell[s] = None
            BY <1>5, <3>1, NoDiscard DEF OpenExcel, NothingToFlush, Unsendable
        <4>2. QED
            BY <1>5, <3>1, <4>1 DEF OpenExcel, TypeOK, SheetTypeOK
      <3>2. CASE ~NothingToFlush(s)
          BY <1>5, <3>2 DEF OpenExcel, TypeOK, SheetTypeOK
      <3>3. QED
          BY <3>1, <3>2
    <2>2. QED
        BY <1>5, <2>1, LossKept DEF OpenExcel, exitVars
  <1>6. CASE ExcelOpens(s) \/ ExcelCloses(s)
    <2>1. \A t \in Sheets : excel'[t] \in {"opening", "open"} =>
              excel[t] \in {"opening", "open"} \/ cell'[t] = None
        BY <1>6 DEF ExcelOpens, ExcelCloses, TypeOK, SheetTypeOK
    <2>2. QED
        BY <1>6, <2>1, LossKept DEF ExcelOpens, ExcelCloses, saveVars, exitVars
  <1>7. CASE HandlerTimesOut(s)
    <2>1. flush'.failed = TRUE /\ flush'.from = flush.from
        BY <1>7 DEF HandlerTimesOut, TypeOK, ExitTypeOK
    <2>2. UNCHANGED <<cell, excel, discard, exit, covered, app, edits>>
        BY <1>7 DEF HandlerTimesOut, sheetVars
    <2>3. \A n : \A t \in Sheets : SentSince(t, n)' = SentSince(t, n)
        BY <2>2 DEF SentSince
    <2>4. QED
        BY <2>1, <2>2, <2>3 DEF LossInv
  <1>8. QED
      BY <1>1, <1>2, <1>3, <1>4, <1>5, <1>6, <1>7 DEF SheetStep

\* A sheet whose handler is not called has nothing to send: if it had, it
\* would be registered, and could send it.
LEMMA FlushStartsLoses ==
    ASSUME TypeOK, GuardInv, LossInv, FlushStarts, UNCHANGED <<cell, edits>>
    PROVE  /\ flush'.from <= edits'
           /\ flush'.open /\ ~flush'.failed =>
                  \A s \in Sheets \ flush'.waits : SentSince(s, flush.from)'
  <1>1. CASE Shared
      BY <1>1 DEF FlushStarts, LossInv, SentSince
  <1>2. CASE ~Shared
    <2>1. \A s \in Sheets \ Due : cell[s] = None
        BY DEF Due, Registered, Unsendable, GuardInv, Guarded, LossInv
    <2>2. flush' = [open |-> TRUE, waits |-> Due, failed |-> FALSE, from |-> edits]
        BY <1>2 DEF FlushStarts
    <2>3. edits \in Nat
        BY DEF TypeOK, BookTypeOK, Values
    <2>4. QED
        BY <2>1, <2>2, <2>3 DEF SentSince
  <1>3. QED
      BY <1>1, <1>2

LEMMA ExitStepLoses ==
    ASSUME TypeOK, GuardInv, LossInv, NEW x \in Ways, ExitStep(x)
    PROVE  LossInv'
  <1>1. x \in Exits
      BY WaysAssumption
  <1>2. app = "running" /\ UNCHANGED <<cell, excel, edits>>
      BY DEF ExitStep, Leave, Departs, Stays, LeaveUnsaved, ReturnToApp, sheetVars, saveVars
  <1>3. \A n : \A t \in Sheets : SentSince(t, n)' = SentSince(t, n)
      BY <1>2 DEF SentSince
  <1>4. exit \in [Exits -> {"idle", "flushing", "confirming", "discarding", "decision"}]
        /\ covered \in [Exits -> Values] /\ app \notin Exits /\ edits \in Nat
      BY <1>2 DEF TypeOK, BookTypeOK, ExitTypeOK, Exits, Values
  <1>5. CASE Leave(x)
    <2>1. CASE x = "update" /\ discard
      <3>1. /\ UNCHANGED <<flush, discard, covered, app>>
            /\ exit' = [exit EXCEPT ![x] = "discarding"]
          BY <1>5, <2>1 DEF Leave
      <3>2. QED
          BY <1>1, <1>2, <1>3, <1>4, <2>1, <3>1 DEF LossInv
    <2>2. CASE ~(x = "update" /\ discard)
      <3>1. /\ UNCHANGED <<covered, app>> /\ discard' = FALSE
            /\ exit' = [exit EXCEPT ![x] = "flushing"] /\ FlushStarts
          BY <1>5, <2>2 DEF Leave
      <3>2. /\ flush'.from <= edits'
            /\ flush'.open /\ ~flush'.failed =>
                   \A s \in Sheets \ flush'.waits : SentSince(s, flush.from)'
          BY <1>2, <3>1, FlushStartsLoses
      <3>3. exit'["update"] # "decision"
          BY <1>1, <1>4, <3>1 DEF LossInv, Exits
      <3>4. \A y \in Exits : exit'[y] = "confirming" => exit[y] = "confirming"
          BY <1>1, <1>4, <3>1
      <3>5. QED
          BY <1>2, <1>3, <1>4, <3>1, <3>2, <3>3, <3>4 DEF LossInv
    <2>3. QED
        BY <2>1, <2>2
  <1>6. CASE Departs(x)
    <2>1. /\ app' = IF exit[x] = "confirming" THEN x ELSE "abandoned"
          /\ flush' = NoFlush /\ exit' = [y \in Exits |-> "idle"] /\ UNCHANGED covered
        BY <1>6 DEF Departs
    <2>2. app' # "running" /\ "abandoned" \notin Exits /\ flush'.open = FALSE /\ flush'.from = 0
        BY <1>1, <2>1 DEF Exits, NoFlush
    <2>3. /\ \A y \in Exits : exit'[y] = "idle"
          /\ "update" \in Exits
        BY <2>1 DEF Exits
    <2>4. app' \in Exits => \A s \in Sheets : SentSince(s, covered[app])'
      <3> SUFFICES ASSUME app' \in Exits, NEW s \in Sheets
                   PROVE  SentSince(s, covered[app])'
          OBVIOUS
      <3>1. app' = x /\ exit[x] = "confirming"
          BY <2>1, <2>2
      <3>2. SentSince(s, covered[x])
          BY <1>1, <3>1 DEF LossInv
      <3>3. QED
          BY <1>2, <2>1, <3>1, <3>2 DEF SentSince
    <2>5. flush'.from <= edits' /\ \A y \in Exits : covered'[y] <= edits'
        BY <1>2, <1>4, <2>1, <2>2 DEF LossInv
    <2>6. QED
        BY <1>2, <2>2, <2>3, <2>4, <2>5 DEF LossInv
  <1>7. CASE Stays(x)
    <2>1. /\ UNCHANGED <<flush, app>>
          /\ exit' = [exit EXCEPT ![x] = Asked(x)]
          /\ covered' = [covered EXCEPT ![x] = 0]
          /\ discard' => discard /\ (x = "update" \/ exit[x] = "confirming")
        BY <1>7 DEF Stays
    <2>2. /\ \A y \in Exits : exit'[y] = "confirming" =>
                  exit[y] = "confirming" /\ covered'[y] = covered[y]
          /\ exit'["update"] # "decision"
        BY <1>1, <1>4, <2>1 DEF Asked, LossInv, Exits
    <2>3. discard' => exit'["close"] = "discarding" \/ exit'["logout"] = "discarding"
        BY <1>1, <1>2, <1>4, <2>1 DEF LossInv, Exits
    <2>4. \A y \in Exits : covered'[y] <= edits'
        BY <1>1, <1>2, <1>4, <2>1 DEF LossInv
    <2>5. QED
        BY <1>2, <1>3, <1>4, <2>1, <2>2, <2>3, <2>4 DEF LossInv
  <1>8. CASE LeaveUnsaved(x)
    <2>1. /\ UNCHANGED <<flush, covered, app>> /\ exit[x] = "decision"
          /\ exit' = [exit EXCEPT ![x] = "discarding"]
        BY <1>8 DEF LeaveUnsaved
    <2>2. x # "update"
        BY <2>1 DEF LossInv
    <2>3. exit'["close"] = "discarding" \/ exit'["logout"] = "discarding"
        BY <1>1, <1>4, <2>1, <2>2 DEF Exits
    <2>4. /\ exit'["update"] # "decision"
          /\ \A y \in Exits : exit'[y] = "confirming" => exit[y] = "confirming"
        BY <1>1, <1>4, <2>1 DEF LossInv, Exits
    <2>5. QED
        BY <1>2, <1>3, <1>4, <2>1, <2>3, <2>4 DEF LossInv
  <1>9. CASE ReturnToApp(x)
    <2>1. /\ UNCHANGED <<flush, covered, app>> /\ discard' = FALSE
          /\ exit' = [exit EXCEPT ![x] = "idle"]
        BY <1>9 DEF ReturnToApp
    <2>2. QED
        BY <1>1, <1>2, <1>3, <1>4, <2>1 DEF LossInv
  <1>10. QED
      BY <1>5, <1>6, <1>7, <1>8, <1>9 DEF ExitStep

\* A flush that ends with no failed handler has sent all it found.
LEMMA FlushEndsLoses ==
    ASSUME TypeOK, LossInv, FlushEnds
    PROVE  LossInv'
  <1>1. /\ app = "running" /\ flush.open /\ flush.waits = {} /\ flush' = NoFlush
        /\ UNCHANGED <<cell, excel, discard, app, edits>>
      BY DEF FlushEnds, sheetVars, saveVars
  <1>2. \A n : \A t \in Sheets : SentSince(t, n)' = SentSince(t, n)
      BY <1>1 DEF SentSince
  <1>3. \A x \in Exits : exit'[x] = "confirming" =>
            \/ exit[x] = "confirming" /\ covered'[x] = covered[x]
            \/ ~flush.failed /\ covered'[x] = flush.from
      BY DEF FlushEnds, FlushFailed, Asked
  <1>4. \A x \in Exits : covered'[x] \in {covered[x], flush.from}
      BY DEF FlushEnds
  <1>5. /\ \A x \in Exits : exit[x] = "discarding" => exit'[x] = "discarding"
        /\ exit'["update"] # "decision"
      BY DEF FlushEnds, Asked, LossInv, Exits
  <1>6. NoFlush.open = FALSE /\ NoFlush.from = 0 /\ edits \in Nat /\ app \notin Exits
      BY <1>1 DEF NoFlush, TypeOK, BookTypeOK, Values, Exits
  <1>7. QED
      BY <1>1, <1>2, <1>3, <1>4, <1>5, <1>6 DEF LossInv, Exits

LEMMA NextLoses ==
    ASSUME "excelType" \notin Habits, TypeOK, GuardInv, LossInv, [Next]_vars
    PROVE  LossInv'
  <1>1. CASE \E d \in Docs : OtherSurfaceWrites(d)
      BY <1>1, LossKept DEF OtherSurfaceWrites, sheetVars, saveVars, exitVars
  <1>2. CASE UNCHANGED vars
      BY <1>2 DEF LossInv, SentSince, vars, sheetVars, saveVars, exitVars
  <1>3. QED
      BY <1>1, <1>2, SheetStepLoses, CallStepLoses, ExitStepLoses, FlushEndsLoses DEF Next

\* The program goes away without the operator's discard only when everything
\* typed before the flush that let it go is sent: for an operator who neither
\* types while Excel opens nor opens a document again whose last surface could
\* not save.
THEOREM NothingLost ==
    ASSUME "reopen" \notin Habits, "excelType" \notin Habits
    PROVE  Spec => []ExitLosesNothing
  <1>1. Init => LossInv
      BY BoundAssumption DEF Init, LossInv, NoFlush, Exits
  <1>2. TypeOK /\ GuardInv /\ LossInv /\ [Next]_vars => LossInv'
      BY NextLoses
  <1>3. LossInv => ExitLosesNothing
      BY DEF LossInv, SentSince, ExitLosesNothing
  <1>4. QED
      BY <1>1, <1>2, <1>3, TypeCorrect, GuardInvariant, PTL DEF Spec

-----------------------------------------------------------------------------
(* Nothing is forgotten.                                                   *)

UnsentIn(d) == \E s \in Sheets : DocOf[s] = d /\ cell[s] # None

\* An accepted last value is about to clear its cell.
Settling(d) ==
    \E s \in Sheets, c \in Slots :
        /\ DocOf[s] = d
        /\ calls[s][c].phase = "accepted" /\ calls[s][c].val = typed[d]

\* The server may have a last value by half, which the sheet does not know.
Loose(d) == (d \in given \/ UnsentIn(d)) /\ ~Settling(d)

\* What the request of a call carries is no news to the server: its revision is
\* not ahead of the document's.  An accepted last value is still the server's
\* value, and a request that could still be accepted does not undo it; where a
\* last value was taken by half it may, but then the cell is still to be sent.
CallFits(s, c) ==
    LET call == calls[s][c]
        doc == server[DocOf[s]]
    IN
    /\ call.base <= doc.rev
    /\ call.val <= edits
    /\ call.phase = "accepted" /\ call.val = typed[DocOf[s]] => doc.val = call.val
    /\ call.phase = "sent" /\ call.base = doc.rev /\ doc.val = typed[DocOf[s]]
            => call.val = doc.val \/ Loose(DocOf[s])

\* An unsent cell holds the last value typed.
CellFits(s) ==
    /\ base[s] <= server[DocOf[s]].rev
    /\ cell[s] # None => cell[s] = typed[DocOf[s]]

DocFits(d) ==
    /\ server[d].val <= edits /\ typed[d] <= edits
    /\ \/ d \in given
       \/ server[d].val = typed[d]
       \/ UnsentIn(d)

KeepInv ==
    /\ \A s \in Sheets : CellFits(s)
    /\ \A s \in Sheets, c \in Slots : CallFits(s, c)
    /\ \A d \in Docs : DocFits(d)

\* A step that commits nothing: a request goes on as it is, is over, or is sent
\* with the cell and the revision of its sheet.
CallGoesOn(s, c) ==
    \/ /\ calls'[s][c].phase = calls[s][c].phase
       /\ calls'[s][c].val = calls[s][c].val
       /\ calls'[s][c].base = calls[s][c].base
    \/ /\ calls'[s][c].phase \notin {"sent", "accepted"}
       /\ calls'[s][c].val = 0 /\ calls'[s][c].base = 0
    \/ /\ calls'[s][c].phase = "sent" /\ cell[s] # None
       /\ calls'[s][c].val = cell[s] /\ calls'[s][c].base = base[s]

CallsGoOn == \A s \in Sheets, c \in Slots : CallGoesOn(s, c)

\* The numbers that are compared.
LEMMA Numbers ==
    ASSUME TypeOK
    PROVE  /\ edits \in Nat
           /\ \A d \in Docs : server[d].rev \in Nat /\ server[d].val \in Nat /\ typed[d] \in Nat
           /\ \A s \in Sheets : base[s] \in Nat /\ DocOf[s] \in Docs /\ cell[s] \in Nat \cup {None}
           /\ \A s \in Sheets, c \in Slots : calls[s][c].val \in Nat /\ calls[s][c].base \in Nat
  <1>1. Values \subseteq Nat
      BY BoundAssumption DEF Values
  <1>2. edits \in Nat
        /\ \A d \in Docs : server[d].rev \in Nat /\ server[d].val \in Nat /\ typed[d] \in Nat
      BY <1>1 DEF TypeOK, BookTypeOK
  <1>3. \A s \in Sheets : base[s] \in Nat /\ DocOf[s] \in Docs /\ cell[s] \in Nat \cup {None}
      BY <1>1, DocOfSheet DEF TypeOK, SheetTypeOK
  <1>4. \A s \in Sheets, c \in Slots : calls[s][c] \in CallRecords
      BY DEF TypeOK, CallTypeOK
  <1>5. \A s \in Sheets, c \in Slots : calls[s][c].val \in Nat /\ calls[s][c].base \in Nat
      BY <1>1, <1>4 DEF CallRecords
  <1>6. QED
      BY <1>2, <1>3, <1>5

\* An accepted last value is what the server has.
LEMMA SettledValue ==
    ASSUME KeepInv, NEW d \in Docs, Settling(d)
    PROVE  server[d].val = typed[d]
  BY DEF KeepInv, CallFits, Settling

\* What is loose stays so while calls only go on and cells only go by the
\* operator's will.
LEMMA LooseKept ==
    ASSUME NEW d, CallsGoOn, UNCHANGED typed, given \subseteq given', Loose(d),
           \A s \in Sheets :
               \/ cell'[s] = cell[s]
               \/ DocOf[s] \in given'
               \/ Settling(DocOf[s])
    PROVE  Loose(d)'
  <1>1. ~Settling(d)'
    <2> SUFFICES ASSUME NEW s \in Sheets, NEW c \in Slots, DocOf[s] = d,
                        calls'[s][c].phase = "accepted", calls'[s][c].val = typed[d]
                 PROVE  Settling(d)
        BY DEF Settling, Loose
    <2>1. CallGoesOn(s, c)
        BY DEF CallsGoOn
    <2>2. calls[s][c].phase = "accepted" /\ calls[s][c].val = typed[d]
        BY <2>1 DEF CallGoesOn
    <2>3. QED
        BY <2>2 DEF Settling
  <1>2. d \in given' \/ UnsentIn(d)'
      BY DEF Loose, UnsentIn
  <1>3. QED
      BY <1>1, <1>2 DEF Loose

\* Nothing is committed or typed, and a cell that is cleared was given up or is
\* what the server has.
LEMMA KeepKept ==
    ASSUME TypeOK, KeepInv, CallsGoOn, UNCHANGED <<server, typed, edits>>,
           given \subseteq given',
           \A s \in Sheets : base'[s] = base[s] \/ base'[s] <= server[DocOf[s]].rev,
           \A s \in Sheets :
               \/ cell'[s] = cell[s]
               \/ /\ cell'[s] = None
                  /\ DocOf[s] \in given' \/ Settling(DocOf[s])
    PROVE  KeepInv'
  <1>1. \A s \in Sheets : CellFits(s)'
      BY DEF KeepInv, CellFits
  <1>2. ASSUME NEW s \in Sheets, NEW c \in Slots PROVE CallFits(s, c)'
    <2>1. CallFits(s, c) /\ CellFits(s) /\ DocFits(DocOf[s]) /\ CallGoesOn(s, c)
        BY DocOfSheet DEF KeepInv, CallsGoOn
    <2>2. /\ edits \in Nat /\ base[s] \in Nat /\ server[DocOf[s]].rev \in Nat
        BY Numbers
    <2>3. CASE cell[s] # None /\ calls'[s][c].val = cell[s] /\ calls'[s][c].base = base[s]
               /\ calls'[s][c].phase = "sent"
        BY <2>1, <2>3 DEF CallFits, CellFits, DocFits
    <2>4. CASE /\ calls'[s][c].phase \notin {"sent", "accepted"}
               /\ calls'[s][c].val = 0 /\ calls'[s][c].base = 0
        BY <2>2, <2>4 DEF CallFits
    <2>5. CASE /\ calls'[s][c].phase = calls[s][c].phase
               /\ calls'[s][c].val = calls[s][c].val
               /\ calls'[s][c].base = calls[s][c].base
      <3>1. Loose(DocOf[s]) => Loose(DocOf[s])'
          BY LooseKept
      <3>2. QED
          BY <2>1, <2>5, <3>1 DEF CallFits
    <2>6. QED
        BY <2>1, <2>3, <2>4, <2>5 DEF CallGoesOn
  <1>3. ASSUME NEW d \in Docs PROVE DocFits(d)'
    <2>1. DocFits(d) /\ (Settling(d) => server[d].val = typed[d])
        BY SettledValue DEF KeepInv
    <2>2. QED
        BY <2>1 DEF DocFits, UnsentIn
  <1>4. QED
      BY <1>1, <1>2, <1>3 DEF KeepInv

\* The same with the sheets left alone.
LEMMA CallsKeep ==
    ASSUME TypeOK, KeepInv, CallsGoOn, UNCHANGED <<server, typed, given, base, cell, edits>>
    PROVE  KeepInv'
  BY KeepKept

LEMMA Untouched ==
    ASSUME UNCHANGED calls
    PROVE  CallsGoOn
  BY DEF CallsGoOn, CallGoesOn

-----------------------------------------------------------------------------
(* Calls that begin, go on and end.                                        *)

LEMMA BegunGoesOn ==
    ASSUME TypeOK, NEW s \in Sheets, NEW f, ~Unsendable(s)
    PROVE  \/ /\ Begun(s, f).phase \notin {"sent", "accepted"}
              /\ Begun(s, f).val = 0 /\ Begun(s, f).base = 0
           \/ /\ Begun(s, f).phase = "sent" /\ cell[s] # None
              /\ Begun(s, f).val = cell[s] /\ Begun(s, f).base = base[s]
  <1>1. CASE saving[s] # None
      BY <1>1 DEF Begun, Free
  <1>2. CASE saving[s] = None
      BY <1>2 DEF Begun, Sent, Free, Unsendable
  <1>3. QED
      BY <1>1, <1>2

LEMMA BeginGoesOn ==
    ASSUME TypeOK, NEW s \in Sheets, NEW f, ~NothingToFlush(s), Begin(s, f)
    PROVE  CallsGoOn
  <1> SUFFICES ASSUME NEW t \in Sheets, NEW c \in Slots
               PROVE  CallGoesOn(t, c)
      BY DEF CallsGoOn
  <1>1. calls' = [calls EXCEPT ![s][FirstSlot(s)] = Begun(s, f)]
      BY DEF Begin
  <1>2. calls[t] \in [Slots -> CallRecords] /\ calls \in [Sheets -> [Slots -> CallRecords]]
      BY DEF TypeOK, CallTypeOK
  <1>3. calls'[t][c] = IF t = s /\ c = FirstSlot(s) THEN Begun(s, f) ELSE calls[t][c]
      BY <1>1, <1>2
  <1>4. QED
      BY <1>3, BegunGoesOn DEF NothingToFlush, CallGoesOn

LEMMA SettledGoesOn ==
    ASSUME TypeOK, NEW s \in Sheets, NEW c \in Slots,
           NEW ph \in {"refused", "failed", "reading", "conflict"},
           calls' = [calls EXCEPT ![s][c] = Settled(@, ph)]
    PROVE  CallsGoOn
  <1> SUFFICES ASSUME NEW t \in Sheets, NEW w \in Slots
               PROVE  CallGoesOn(t, w)
      BY DEF CallsGoOn
  <1>1. calls[t] \in [Slots -> CallRecords] /\ calls \in [Sheets -> [Slots -> CallRecords]]
      BY DEF TypeOK, CallTypeOK
  <1>2. calls'[t][w] = IF t = s /\ w = c THEN Settled(calls[s][c], ph) ELSE calls[t][w]
      BY <1>1
  <1>3. /\ Settled(calls[s][c], ph).phase = ph
        /\ Settled(calls[s][c], ph).val = 0 /\ Settled(calls[s][c], ph).base = 0
      BY DEF Settled, Free
  <1>4. QED
      BY <1>2, <1>3 DEF CallGoesOn

LEMMA EndedGoesOn ==
    ASSUME TypeOK, NEW s \in Sheets, NEW ends,
           calls' = [calls EXCEPT ![s] = [w \in Slots |-> IF w \in ends THEN Free ELSE @[w]]]
    PROVE  CallsGoOn
  <1> SUFFICES ASSUME NEW t \in Sheets, NEW w \in Slots
               PROVE  CallGoesOn(t, w)
      BY DEF CallsGoOn
  <1>1. calls'[t][w] = Free \/ calls'[t][w] = calls[t][w]
      BY DEF TypeOK, CallTypeOK
  <1>2. QED
      BY <1>1 DEF Free, CallGoesOn

LEMMA SaveEndsWellGoesOn ==
    ASSUME TypeOK, NEW s \in Sheets, NEW c \in Slots, SaveEndsWell(s, c)
    PROVE  CallsGoOn
  <1>1. CASE cell[s] = None
      BY <1>1, EndedGoesOn DEF SaveEndsWell
  <1>2. CASE cell[s] # None
    <2> SUFFICES ASSUME NEW t \in Sheets, NEW w \in Slots
                 PROVE  CallGoesOn(t, w)
        BY DEF CallsGoOn
    <2>1. calls'[t][w] = calls[t][w] \/ (t = s /\ calls'[t][w] = Sent(s, calls[s][w].for))
        BY <1>2 DEF SaveEndsWell, TypeOK, CallTypeOK
    <2>2. /\ Sent(s, calls[s][w].for).phase = "sent"
          /\ Sent(s, calls[s][w].for).val = cell[s]
          /\ Sent(s, calls[s][w].for).base = base[s]
        BY DEF Sent, Free
    <2>3. QED
        BY <1>2, <2>1, <2>2 DEF CallGoesOn
  <1>3. QED
      BY <1>1, <1>2

LEMMA FlushGoesOn ==
    ASSUME TypeOK, FlushStarts
    PROVE  CallsGoOn
  <1>1. CASE Shared
      BY <1>1, Untouched DEF FlushStarts
  <1>2. CASE ~Shared
    <2> SUFFICES ASSUME NEW t \in Sheets, NEW w \in Slots
                 PROVE  CallGoesOn(t, w)
        BY DEF CallsGoOn
    <2>1. calls'[t] = IF t \in Due
              THEN [calls[t] EXCEPT ![FirstSlot(t)] = Begun(t, "exit")] ELSE calls[t]
        BY <1>2 DEF FlushStarts
    <2>2. calls[t] \in [Slots -> CallRecords]
        BY DEF TypeOK, CallTypeOK
    <2>3. calls'[t][w] = calls[t][w] \/ (t \in Due /\ calls'[t][w] = Begun(t, "exit"))
        BY <2>1, <2>2
    <2>4. QED
        BY <2>3, BegunGoesOn DEF Due, CallGoesOn
  <1>3. QED
      BY <1>1, <1>2

-----------------------------------------------------------------------------
(* What commits and what is typed.                                         *)

\* A request that is accepted makes every other one too old, and carries the
\* last value if the server has it.
LEMMA CommitKeeps ==
    ASSUME TypeOK, KeepInv, NEW s \in Sheets, NEW c \in Slots,
           calls[s][c].phase = "sent", Commit(s, c),
           UNCHANGED <<typed, given, base, cell, edits>>,
           \A t \in Sheets, w \in Slots : t # s \/ w # c => calls'[t][w] = calls[t][w],
           \/ /\ calls'[s][c].phase \notin {"sent", "accepted"}
              /\ calls'[s][c].val = 0 /\ calls'[s][c].base = 0
           \/ /\ calls'[s][c].phase = "accepted" /\ calls'[s][c].val = calls[s][c].val
              /\ calls'[s][c].base = server[DocOf[s]].rev + 1
    PROVE  KeepInv'
  <1> DEFINE d == DocOf[s]
             n == server[d].rev
             v == calls[s][c].val
  <1>1. d \in Docs /\ n \in Nat /\ v \in Nat /\ edits \in Nat
      BY Numbers
  <1>2. calls[s][c].base = n /\ CallFits(s, c)
      BY DEF Commit, KeepInv
  <1>3. /\ v <= edits
        /\ server[d].val = typed[d] =>
               v = server[d].val \/ ((d \in given \/ UnsentIn(d)) /\ ~Settling(d))
      BY <1>2 DEF CallFits, Loose
  <1>4. server' = [server EXCEPT ![d] = [val |-> v, rev |-> n + 1]]
      BY DEF Commit
  <1>5. /\ server'[d].val = v /\ server'[d].rev = n + 1
        /\ \A e \in Docs \ {d} : server'[e] = server[e]
      BY <1>1, <1>4 DEF TypeOK, BookTypeOK
  <1>6. \A t \in Sheets : DocOf[t] \in Docs /\ base[t] \in Nat
      BY Numbers
  <1> HIDE DEF d, n, v
  <1>7. ASSUME NEW t \in Sheets PROVE CellFits(t)'
    <2>1. CellFits(t)
        BY DEF KeepInv
    <2>2. base[t] <= server'[DocOf[t]].rev
      <3>1. CASE DocOf[t] = d
          BY <1>1, <1>5, <1>6, <2>1, <3>1 DEF CellFits, n
      <3>2. CASE DocOf[t] # d
          BY <1>5, <1>6, <2>1, <3>2 DEF CellFits
      <3>3. QED
          BY <3>1, <3>2
    <2>3. QED
        BY <2>1, <2>2 DEF CellFits
  <1>8. ASSUME NEW t \in Sheets, NEW w \in Slots PROVE CallFits(t, w)'
    <2>1. CASE t # s \/ w # c
      <3>1. CallFits(t, w) /\ calls'[t][w] = calls[t][w] /\ calls[t][w].base \in Nat
          BY <2>1, Numbers DEF KeepInv
      <3>2. CASE DocOf[t] = d
        <4>1. calls[t][w].base <= n
            BY <3>1, <3>2 DEF CallFits, n
        <4>2. calls[t][w].base <= n + 1 /\ calls[t][w].base # n + 1
            BY <1>1, <3>1, <4>1
        <4>3. calls[t][w].phase = "accepted" /\ calls[t][w].val = typed[d] =>
                  server[d].val = calls[t][w].val
            BY <3>1, <3>2 DEF CallFits
        <4>4. calls[t][w].phase = "accepted" /\ calls[t][w].val = typed[d] =>
                  v = calls[t][w].val
            BY <1>3, <3>2, <4>3 DEF Settling
        <4>5. QED
            BY <1>5, <3>1, <3>2, <4>2, <4>4 DEF CallFits
      <3>3. CASE DocOf[t] # d
        <4>1. Loose(DocOf[t])' = Loose(DocOf[t])
            BY <3>3 DEF Loose, UnsentIn, Settling, d
        <4>2. QED
            BY <1>5, <1>6, <3>1, <3>3, <4>1 DEF CallFits
      <3>4. QED
          BY <3>2, <3>3
    <2>2. CASE t = s /\ w = c
      <3>1. DocOf[t] = d
          BY <2>2 DEF d
      <3>2. CASE calls'[s][c].phase = "accepted" /\ calls'[s][c].val = v
                 /\ calls'[s][c].base = n + 1
          BY <1>1, <1>3, <1>5, <2>2, <3>1, <3>2 DEF CallFits
      <3>3. CASE /\ calls'[s][c].phase \notin {"sent", "accepted"}
                 /\ calls'[s][c].val = 0 /\ calls'[s][c].base = 0
          BY <1>1, <1>5, <2>2, <3>1, <3>3 DEF CallFits
      <3>4. QED
          BY <3>2, <3>3 DEF d, n, v
    <2>3. QED
        BY <2>1, <2>2
  <1>9. ASSUME NEW e \in Docs PROVE DocFits(e)'
    <2>1. DocFits(e)
        BY DEF KeepInv
    <2>2. UnsentIn(e)' = UnsentIn(e)
        BY DEF UnsentIn
    <2>3. CASE e = d
      <3>1. server[d].val = typed[d] => v = typed[d] \/ d \in given \/ UnsentIn(d)
          BY <1>3
      <3>2. QED
          BY <1>3, <1>5, <2>1, <2>2, <2>3, <3>1 DEF DocFits
    <2>4. CASE e # d
        BY <1>5, <2>1, <2>2, <2>4 DEF DocFits
    <2>5. QED
        BY <2>3, <2>4
  <1>10. QED
      BY <1>7, <1>8, <1>9 DEF KeepInv

\* A value taken without its revision is the last one only where the sheet has
\* still to send it, or where the server has it already.
LEMMA CommitValuesKeeps ==
    ASSUME TypeOK, KeepInv, NEW s \in Sheets, NEW c \in Slots,
           calls[s][c].phase = "sent", CommitValues(s, c),
           UNCHANGED <<typed, given, base, cell, edits>>,
           \A t \in Sheets, w \in Slots : t # s \/ w # c => calls'[t][w] = calls[t][w],
           calls'[s][c].phase \notin {"sent", "accepted"},
           calls'[s][c].val = 0, calls'[s][c].base = 0
    PROVE  KeepInv'
  <1> DEFINE d == DocOf[s]
             v == calls[s][c].val
  <1>1. /\ d \in Docs /\ v \in Nat /\ edits \in Nat
        /\ \A t \in Sheets : DocOf[t] \in Docs
        /\ \A e \in Docs : server[e].rev \in Nat
      BY Numbers
  <1>2. /\ server'[d].val = v /\ server'[d].rev = server[d].rev
        /\ \A e \in Docs \ {d} : server'[e] = server[e]
      BY <1>1 DEF CommitValues, TypeOK, BookTypeOK
  <1>3. /\ calls[s][c].base = server[d].rev /\ v <= edits
        /\ server[d].val = typed[d] => v = server[d].val \/ Loose(d)
      BY DEF CommitValues, KeepInv, CallFits
  <1>4. ASSUME NEW e
        PROVE  UnsentIn(e)' = UnsentIn(e) /\ (Settling(e)' => Settling(e))
      BY DEF UnsentIn, Settling
  <1>5. \A e : Loose(e) => Loose(e)'
      BY <1>4 DEF Loose
  <1>6. Settling(d) => v = server[d].val /\ server[d].val = typed[d]
      BY <1>1, <1>3, SettledValue DEF Loose
  <1>7. v = typed[d] => server[d].val = typed[d] \/ Loose(d)
      BY <1>1, <1>6 DEF KeepInv, DocFits, Loose
  <1> HIDE DEF d, v
  <1>8. ASSUME NEW t \in Sheets PROVE CellFits(t)'
    <2>1. CellFits(t) /\ server'[DocOf[t]].rev = server[DocOf[t]].rev
        BY <1>1, <1>2 DEF KeepInv
    <2>2. QED
        BY <2>1 DEF CellFits
  <1>9. ASSUME NEW t \in Sheets, NEW w \in Slots PROVE CallFits(t, w)'
    <2>1. CallFits(t, w) /\ server'[DocOf[t]].rev = server[DocOf[t]].rev
        BY <1>1, <1>2 DEF KeepInv
    <2>2. CASE t = s /\ w = c
        BY <1>1, <2>1, <2>2 DEF CallFits
    <2>3. CASE (t # s \/ w # c) /\ DocOf[t] # d
        BY <1>1, <1>2, <1>5, <2>1, <2>3 DEF CallFits
    <2>4. CASE (t # s \/ w # c) /\ DocOf[t] = d
      <3>1. calls'[t][w] = calls[t][w]
          BY <2>4
      <3>2. calls[t][w].phase = "accepted" /\ calls[t][w].val = typed[d] => v = calls[t][w].val
          BY <1>6, <2>1, <2>4 DEF Settling, CallFits
      <3>3. calls[t][w].phase = "sent" /\ calls[t][w].base = server[d].rev /\ v = typed[d]
                => calls[t][w].val = v \/ Loose(d)
          BY <1>7, <2>1, <2>4 DEF CallFits
      <3>4. QED
          BY <1>2, <1>5, <2>1, <2>4, <3>1, <3>2, <3>3 DEF CallFits
    <2>5. QED
        BY <2>2, <2>3, <2>4
  <1>10. ASSUME NEW e \in Docs PROVE DocFits(e)'
    <2>1. DocFits(e) /\ UnsentIn(e)' = UnsentIn(e)
        BY <1>4 DEF KeepInv
    <2>2. CASE e = d
        BY <1>2, <1>3, <2>1, <2>2 DEF DocFits, Loose
    <2>3. CASE e # d
        BY <1>2, <2>1, <2>3 DEF DocFits
    <2>4. QED
        BY <2>2, <2>3
  <1>11. QED
      BY <1>8, <1>9, <1>10 DEF KeepInv

\* What is typed is newer than everything sent, and in the only sheet of the
\* document that has an unsent cell.
LEMMA EditKeeps ==
    ASSUME TypeOK, GuardInv, KeepInv, NEW s \in Sheets, Edit(s)
    PROVE  KeepInv'
  <1> DEFINE d == DocOf[s]
  <1>1. /\ UNCHANGED <<server, base, calls>> /\ edits' = edits + 1
        /\ cell' = [cell EXCEPT ![s] = edits + 1]
        /\ typed' = [typed EXCEPT ![d] = edits + 1]
        /\ given' = given \ {d} /\ life[s] = "mounted"
      BY DEF Edit
  <1>2. d \in Docs /\ edits \in Nat /\ edits + 1 # None
    <2>1. edits + 1 \in Nat
        BY Numbers
    <2>2. QED
        BY <2>1, Numbers, NoneAssumption
  <1>3. /\ cell'[s] = edits + 1 /\ \A t \in Sheets \ {s} : cell'[t] = cell[t]
        /\ typed'[d] = edits + 1 /\ \A e \in Docs \ {d} : typed'[e] = typed[e]
      BY <1>1, <1>2 DEF TypeOK, BookTypeOK, SheetTypeOK
  <1>4. handlers[d] = s
      BY <1>1 DEF GuardInv, Guarded
  <1>5. \A t \in Sheets : DocOf[t] \in Docs
      BY Numbers
  <1>6. \A e \in Docs : server[e].val \in Nat /\ server[e].val <= edits
                        /\ typed[e] \in Nat /\ typed[e] <= edits
      BY Numbers DEF KeepInv, DocFits
  <1>7. ASSUME NEW t \in Sheets PROVE CellFits(t)'
    <2>1. CellFits(t) /\ (t = s => DocOf[t] = d)
        BY DEF KeepInv
    <2> HIDE DEF d
    <2>2. CASE t = s
        BY <1>1, <1>3, <2>1, <2>2 DEF CellFits
    <2>3. CASE t # s
      <3>1. cell[t] # None => DocOf[t] # d
          BY <1>4, <2>3 DEF GuardInv, Guarded
      <3>2. QED
          BY <1>1, <1>3, <1>5, <2>1, <2>3, <3>1 DEF CellFits
    <2>4. QED
        BY <2>2, <2>3
  <1>8. ASSUME NEW t \in Sheets, NEW w \in Slots PROVE CallFits(t, w)'
    <2>1. CallFits(t, w) /\ calls[t][w].val \in Nat
        BY Numbers DEF KeepInv
    <2> HIDE DEF d
    <2>2. calls[t][w].val <= edits
        BY <2>1 DEF CallFits
    <2>3. CASE DocOf[t] = d
        BY <1>1, <1>2, <1>3, <1>6, <2>1, <2>2, <2>3 DEF CallFits
    <2>4. CASE DocOf[t] # d
      <3>1. Loose(DocOf[t]) => Loose(DocOf[t])'
        <4>1. \A u \in Sheets : DocOf[u] = DocOf[t] => cell'[u] = cell[u]
            BY <1>3, <2>4 DEF d
        <4>2. typed'[DocOf[t]] = typed[DocOf[t]] /\ (DocOf[t] \in given => DocOf[t] \in given')
            BY <1>1, <1>3, <1>5, <2>4
        <4>3. QED
            BY <1>1, <4>1, <4>2 DEF Loose, UnsentIn, Settling
      <3>2. QED
          BY <1>1, <1>2, <1>3, <1>5, <2>1, <2>2, <2>4, <3>1 DEF CallFits
    <2>5. QED
        BY <2>3, <2>4
  <1>9. ASSUME NEW e \in Docs PROVE DocFits(e)'
    <2>1. DocFits(e)
        BY DEF KeepInv
    <2>2. server'[e].val <= edits' /\ typed'[e] <= edits'
        BY <1>1, <1>2, <1>3, <1>6
    <2>3. CASE e = d
      <3>1. cell'[s] # None
          BY <1>2, <1>3
      <3>2. QED
          BY <2>2, <2>3, <3>1 DEF DocFits, UnsentIn
    <2>4. CASE e # d
      <3>1. \A t \in Sheets : DocOf[t] = e => cell'[t] = cell[t]
          BY <1>3, <2>4
      <3>2. e \in given => e \in given'
          BY <1>1, <2>4
      <3>3. typed'[e] = typed[e] /\ server' = server
          BY <1>1, <1>3, <2>4
      <3>4. QED
          BY <2>1, <2>2, <3>1, <3>2, <3>3 DEF DocFits, UnsentIn
    <2>5. QED
        BY <2>3, <2>4
  <1>10. QED
      BY <1>7, <1>8, <1>9 DEF KeepInv

LEMMA OtherSurfaceKeeps ==
    ASSUME TypeOK, KeepInv, NEW d \in Docs, OtherSurfaceWrites(d)
    PROVE  KeepInv'
  <1>1. UNCHANGED <<base, cell, typed, given, calls, edits>>
        /\ server' = [server EXCEPT ![d].rev = @ + 1]
      BY DEF OtherSurfaceWrites, sheetVars, saveVars
  <1>2. \A e \in Docs : /\ server'[e].val = server[e].val
                        /\ server'[e].rev \in {server[e].rev, server[e].rev + 1}
      BY <1>1 DEF TypeOK, BookTypeOK
  <1>3. \A e \in Docs : server[e].rev \in Nat
      BY Numbers
  <1>4. ASSUME NEW s \in Sheets PROVE CellFits(s)'
    <2>1. CellFits(s) /\ base[s] \in Nat /\ DocOf[s] \in Docs
        BY Numbers DEF KeepInv
    <2>2. base[s] <= server'[DocOf[s]].rev
        BY <1>2, <1>3, <2>1 DEF CellFits
    <2>3. QED
        BY <1>1, <2>1, <2>2 DEF CellFits
  <1>5. ASSUME NEW s \in Sheets, NEW c \in Slots PROVE CallFits(s, c)'
    <2>1. CallFits(s, c) /\ calls[s][c].base \in Nat /\ DocOf[s] \in Docs
        BY Numbers DEF KeepInv
    <2>2. /\ calls[s][c].base <= server'[DocOf[s]].rev
          /\ calls[s][c].base = server'[DocOf[s]].rev => calls[s][c].base = server[DocOf[s]].rev
        BY <1>2, <1>3, <2>1 DEF CallFits
    <2>3. Loose(DocOf[s])' = Loose(DocOf[s])
        BY <1>1 DEF Loose, UnsentIn, Settling
    <2>4. QED
        BY <1>1, <1>2, <2>1, <2>2, <2>3 DEF CallFits
  <1>6. ASSUME NEW e \in Docs PROVE DocFits(e)'
      BY <1>1, <1>2 DEF KeepInv, DocFits, UnsentIn
  <1>7. QED
      BY <1>4, <1>5, <1>6 DEF KeepInv

-----------------------------------------------------------------------------
(* One step per action.                                                    *)

\* A cell that still holds the accepted value is what the server has.
LEMMA PatchAcceptedKeeps ==
    ASSUME TypeOK, KeepInv, NEW s \in Sheets, NEW c \in Slots, PatchAccepted(s, c)
    PROVE  KeepInv'
  <1>1. /\ UNCHANGED <<server, typed, given, edits>> /\ calls[s][c].phase = "accepted"
        /\ cell' = [cell EXCEPT ![s] = Unsent(s, c)]
        /\ base' = [base EXCEPT ![s] = calls[s][c].base]
      BY DEF PatchAccepted
  <1>2. CallsGoOn
      BY SettledGoesOn DEF PatchAccepted
  <1>3. CallFits(s, c) /\ CellFits(s)
      BY DEF KeepInv
  <1>4. \A t \in Sheets : base'[t] = base[t] \/ base'[t] <= server[DocOf[t]].rev
      BY <1>1, <1>3 DEF TypeOK, SheetTypeOK, CallFits
  <1>5. \A t \in Sheets \ {s} : cell'[t] = cell[t]
      BY <1>1 DEF TypeOK, SheetTypeOK
  <1>6. \/ cell'[s] = cell[s]
        \/ cell'[s] = None /\ Settling(DocOf[s])
    <2>1. cell'[s] = Unsent(s, c)
        BY <1>1 DEF TypeOK, SheetTypeOK
    <2>2. CASE cell[s] # None /\ cell[s] = calls[s][c].val
        BY <1>1, <1>3, <2>1, <2>2 DEF Unsent, CellFits, Settling
    <2>3. CASE cell[s] = None \/ cell[s] # calls[s][c].val
        BY <2>1, <2>3 DEF Unsent
    <2>4. QED
        BY <2>2, <2>3
  <1>7. QED
      BY <1>1, <1>2, <1>4, <1>5, <1>6, KeepKept

LEMMA CallStepKeeps ==
    ASSUME TypeOK, KeepInv, NEW s \in Sheets, NEW c \in Slots, CallStep(s, c)
    PROVE  KeepInv'
  <1>1. CASE PatchRefused(s, c)
      BY <1>1, SettledGoesOn, CallsKeep DEF PatchRefused, sheetVars
  <1>2. ASSUME NEW refused, SaveFails(s, c, refused)
        PROVE  CallsGoOn
      BY <1>2, EndedGoesOn DEF SaveFails
  <1>3. CASE PatchFailed(s, c)
      BY <1>2, <1>3, SaveFailsDrops, KeepKept DEF PatchFailed
  <1>4. CASE PreviewRead(s, c)
    <2>1. CallsGoOn
        BY <1>2, <1>4, SaveEndsWellGoesOn DEF PreviewRead
    <2>2. PICK b \in {base[s]} \cup {server[DocOf[s]].rev} : base' = [base EXCEPT ![s] = b]
        BY <1>4 DEF PreviewRead
    <2>3. server[DocOf[s]].rev \in Nat
        BY Numbers
    <2>4. \A t \in Sheets : base'[t] = base[t] \/ base'[t] <= server[DocOf[t]].rev
        BY <2>2, <2>3 DEF TypeOK, SheetTypeOK
    <2>5. given \subseteq given' /\ \A t \in Sheets :
              cell'[t] = cell[t] \/ (cell'[t] = None /\ DocOf[t] \in given')
        BY <1>4, SaveFailsDrops DEF PreviewRead
    <2>6. QED
        BY <1>4, <2>1, <2>4, <2>5, KeepKept DEF PreviewRead
  <1>5. /\ calls \in [Sheets -> [Slots -> CallRecords]]
        /\ calls[s][c] \in CallRecords
      BY DEF TypeOK, CallTypeOK
  <1>6. CASE ServerAnswers(s, c)
    <2>1. CASE calls' = [calls EXCEPT ![s][c] = Settled(@, "refused")] /\ UNCHANGED server
        BY <1>6, <2>1, SettledGoesOn, CallsKeep DEF ServerAnswers, sheetVars
    <2>2. CASE /\ Commit(s, c)
               /\ calls' = [calls EXCEPT ![s][c].phase = "accepted",
                                         ![s][c].base = server[DocOf[s]].rev + 1]
      <3>1. \A t \in Sheets, w \in Slots : t # s \/ w # c => calls'[t][w] = calls[t][w]
          BY <1>5, <2>2
      <3>2. calls'[s][c] = [calls[s][c] EXCEPT !.phase = "accepted",
                                               !.base = server[DocOf[s]].rev + 1]
          BY <1>5, <2>2
      <3>3. /\ calls'[s][c].phase = "accepted" /\ calls'[s][c].val = calls[s][c].val
            /\ calls'[s][c].base = server[DocOf[s]].rev + 1
          BY <1>5, <3>2 DEF CallRecords
      <3>4. QED
          BY <1>6, <2>2, <3>1, <3>3, CommitKeeps DEF ServerAnswers, sheetVars
    <2>3. QED
        BY <1>6, <2>1, <2>2 DEF ServerAnswers
  <1>7. CASE RequestFails(s, c)
    <2>1. calls' = [calls EXCEPT ![s][c] = Settled(@, "failed")]
        BY <1>7 DEF RequestFails
    <2>2. CASE UNCHANGED server
        BY <1>7, <2>1, <2>2, SettledGoesOn, CallsKeep DEF RequestFails, sheetVars
    <2>3. CASE Commit(s, c) \/ CommitValues(s, c)
      <3>1. \A t \in Sheets, w \in Slots : t # s \/ w # c => calls'[t][w] = calls[t][w]
          BY <1>5, <2>1
      <3>2. calls'[s][c] = Settled(calls[s][c], "failed")
          BY <1>5, <2>1
      <3>3. /\ calls'[s][c].phase \notin {"sent", "accepted"}
            /\ calls'[s][c].val = 0 /\ calls'[s][c].base = 0
          BY <3>2 DEF Settled, Free
      <3>4. QED
          BY <1>7, <2>3, <3>1, <3>3, CommitKeeps, CommitValuesKeeps DEF RequestFails, sheetVars
    <2>4. QED
        BY <1>7, <2>2, <2>3 DEF RequestFails
  <1>8. QED
      BY <1>1, <1>3, <1>4, <1>6, <1>7, PatchAcceptedKeeps DEF CallStep

LEMMA SheetStepKeeps ==
    ASSUME TypeOK, GuardInv, KeepInv, NEW s \in Sheets, SheetStep(s)
    PROVE  KeepInv'
  <1>1. server[DocOf[s]].rev \in Nat
      BY Numbers
  <1>2. ASSUME base' = [base EXCEPT ![s] = server[DocOf[s]].rev]
        PROVE  \A t \in Sheets : base'[t] = base[t] \/ base'[t] <= server[DocOf[t]].rev
      BY <1>1, <1>2 DEF TypeOK, SheetTypeOK
  <1>3. CASE Mount(s)
      BY <1>2, <1>3, Untouched, KeepKept DEF Mount
  <1>4. CASE DebounceFires(s) \/ OpenExcel(s)
    <2>1. CallsGoOn
        BY <1>4, Untouched, BeginGoesOn DEF DebounceFires, OpenExcel
    <2>2. QED
        BY <1>4, <2>1, CallsKeep DEF DebounceFires, OpenExcel
  <1>5. CASE Unmount(s)
    <2>1. CallsGoOn
        BY <1>5, Untouched, BeginGoesOn DEF Unmount
    <2>2. \A t \in Sheets :
              cell'[t] = cell[t] \/ (cell'[t] = None /\ DocOf[t] \in given')
        BY <1>5 DEF Unmount, TypeOK, SheetTypeOK
    <2>3. given \subseteq given'
        BY <1>5 DEF Unmount
    <2>4. QED
        BY <1>5, <2>1, <2>2, <2>3, KeepKept DEF Unmount
  <1>6. CASE Reload(s)
    <2>1. \A t \in Sheets :
              cell'[t] = cell[t] \/ (cell'[t] = None /\ DocOf[t] \in given')
        BY <1>6 DEF Reload, GivesUp, TypeOK, SheetTypeOK
    <2>2. given \subseteq given'
        BY <1>6 DEF Reload, GivesUp
    <2>3. CallsGoOn
        BY <1>6, Untouched, BeginGoesOn DEF Reload
    <2>4. \A t \in Sheets : base'[t] = base[t] \/ base'[t] <= server[DocOf[t]].rev
        BY <1>1, <1>6 DEF Reload, TypeOK, SheetTypeOK
    <2>5. UNCHANGED <<server, typed, edits>>
        BY <1>6 DEF Reload
    <2>6. QED
        BY <2>1, <2>2, <2>3, <2>4, <2>5, KeepKept
  <1>7. CASE ExcelOpens(s)
      BY <1>7, Untouched, CallsKeep DEF ExcelOpens, saveVars
  <1>8. CASE ExcelCloses(s)
      BY <1>2, <1>8, Untouched, KeepKept DEF ExcelCloses
  <1>9. CASE HandlerTimesOut(s)
    <2>1. CallsGoOn
      <3> SUFFICES ASSUME NEW t \in Sheets, NEW c \in Slots
                   PROVE  CallGoesOn(t, c)
          BY DEF CallsGoOn
      <3>1. calls[t][c] \in CallRecords
          BY DEF TypeOK, CallTypeOK
      <3>2. calls'[t][c] = calls[t][c] \/ calls'[t][c] = [calls[t][c] EXCEPT !.for = "timer"]
          BY <1>9 DEF HandlerTimesOut, TypeOK, CallTypeOK
      <3>3. QED
          BY <3>1, <3>2 DEF CallGoesOn, CallRecords
    <2>2. QED
        BY <1>9, <2>1, CallsKeep DEF HandlerTimesOut, sheetVars
  <1>10. QED
      BY <1>3, <1>4, <1>5, <1>6, <1>7, <1>8, <1>9, EditKeeps DEF SheetStep

LEMMA ExitStepKeeps ==
    ASSUME TypeOK, KeepInv, NEW x \in Ways, ExitStep(x)
    PROVE  KeepInv'
  <1>1. CASE Leave(x)
    <2>1. CallsGoOn
        BY <1>1, Untouched, FlushGoesOn DEF Leave
    <2>2. QED
        BY <1>1, <2>1, CallsKeep DEF Leave, sheetVars
  <1>2. CASE Departs(x)
    <2>1. \A t \in Sheets, c \in Slots : calls'[t][c] = Free
        BY <1>2 DEF Departs
    <2>2. CallsGoOn
        BY <2>1 DEF CallsGoOn, CallGoesOn, Free
    <2>3. QED
        BY <1>2, <2>2, CallsKeep DEF Departs
  <1>3. CASE Stays(x) \/ LeaveUnsaved(x) \/ ReturnToApp(x)
      BY <1>3, Untouched, CallsKeep DEF Stays, LeaveUnsaved, ReturnToApp, saveVars, sheetVars
  <1>4. QED
      BY <1>1, <1>2, <1>3 DEF ExitStep

LEMMA NextKeeps ==
    ASSUME TypeOK, GuardInv, KeepInv, [Next]_vars
    PROVE  KeepInv'
  <1>1. CASE FlushEnds \/ UNCHANGED vars
      BY <1>1, Untouched, CallsKeep DEF FlushEnds, vars, sheetVars, saveVars
  <1>2. QED
      BY <1>1, SheetStepKeeps, CallStepKeeps, ExitStepKeeps, OtherSurfaceKeeps DEF Next

\* A document none of whose surfaces has anything left to send has its last
\* value on the server, unless the operator gave it up: saves that overlap,
\* answers that come late, requests that fail after they were committed and
\* other surfaces that write in between included.
THEOREM LastValueKept ==
    ASSUME "reopen" \notin Habits
    PROVE  Spec => []NothingForgotten
  <1>1. Init => KeepInv
    <2> SUFFICES ASSUME Init PROVE KeepInv
        OBVIOUS
    <2>1. \A s \in Sheets : CellFits(s)
        BY DocOfSheet DEF Init, CellFits
    <2>2. \A s \in Sheets, c \in Slots : CallFits(s, c)
        BY DocOfSheet DEF Init, CallFits, Free
    <2>3. \A d \in Docs : DocFits(d)
        BY DEF Init, DocFits, UnsentIn
    <2>4. QED
        BY <2>1, <2>2, <2>3 DEF KeepInv
  <1>2. TypeOK /\ GuardInv /\ KeepInv /\ [Next]_vars => KeepInv'
      BY NextKeeps
  <1>3. KeepInv => NothingForgotten
      BY DEF KeepInv, DocFits, UnsentIn, NothingForgotten
  <1>4. QED
      BY <1>1, <1>2, <1>3, TypeCorrect, GuardInvariant, PTL DEF Spec
=============================================================================
