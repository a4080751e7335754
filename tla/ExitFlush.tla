------------------------------ MODULE ExitFlush ------------------------------
(***************************************************************************)
(* Leaving the desktop program with unsaved workbook cells: what the close *)
(* guard, the logout button and the update installer do before the program *)
(* goes away.                                                              *)
(*                                                                         *)
(* Source: src/frontend/src-v2/lib/saveCoordinator.ts (the registry of     *)
(* save handlers and the shared flush), make/embedded/                     *)
(* useEmbeddedWorkbookState.ts (a workbook surface: its unsent cells, its  *)
(* debounce and its flush loop), components/DesktopLifecycle.tsx,          *)
(* SessionLogoutControl.tsx and SettingsWorkspace.tsx (the three ways      *)
(* out); src/backend/app/services/document_artifact_edit.py (what a PATCH  *)
(* of cells commits).  A sheet is one mounted instance of a workbook       *)
(* surface; its cells are all treated alike and are one cell here.         *)
(*                                                                         *)
(* Several calls of one sheet's flush can be under way, for its debounce,  *)
(* its unmount and an exit.  A call that finds a save under way awaits it; *)
(* when a save ends, the call that made it and those that await it go on   *)
(* in one burst of continuations, which is one step here.                  *)
(***************************************************************************)
EXTENDS Integers, FiniteSets

CONSTANTS
    Sheets,       \* mounted instances of a workbook surface
    Docs,         \* the documents they show
    DocOf,        \* the document of a sheet
    Ways,         \* the ways out the operator uses
    Slots,        \* bound: flush calls under way for a sheet at a time
    None,         \* no cell, no call, no handler
    Habits,       \* what the operator may do beyond the ordinary, see HabitNames
    MaxEdits,     \* bound: values ever typed
    MaxFaults     \* bound: failed requests, rejected cells, failed exits and
                  \* writes of another surface

\* Go on working while an exit is awaited, type while Excel opens, and open a
\* document again whose last surface could not save.
HabitNames == {"typeOn", "excelType", "reopen"}

Exits == {"close", "logout", "update"}

ASSUME DocAssumption == DocOf \in [Sheets -> Docs]
ASSUME WaysAssumption == Ways \subseteq Exits
ASSUME NoneAssumption == None \notin Sheets /\ None \notin Slots /\ None \notin Nat
ASSUME BoundAssumption ==
    MaxEdits \in Nat /\ MaxFaults \in Nat /\ Habits \subseteq HabitNames

VARIABLES
    server,    \* per document: the cell's value and the revision
    life,      \* per sheet: not mounted yet, mounted, unmounted
    cell,      \* per sheet: cellEditsRef, the value not sent yet
    typed,     \* per document: the last value typed into it
    given,     \* documents whose unsent cell the operator gave up
    base,      \* per sheet: revisionRef
    timer,     \* per sheet: the debounce timer is running
    conflict,  \* per sheet: saveState is 'conflict'
    excel,     \* per sheet: the managed Excel session
    calls,     \* per sheet: its flush calls under way
    saving,    \* per sheet: savePromiseRef, the call whose save it is
    handlers,  \* per document: the sheet whose save handler is registered
    flush,     \* activeFlush, with the number of edits when it began
    discard,   \* discardRequested
    exit,      \* per way out: how far it is
    covered,   \* per way out: the edits made before the flush that let it go on
    app,       \* the program: running, gone by an exit, or left unsaved
    edits, faults

sheetVars == <<life, typed, given, timer, excel>>
saveVars == <<cell, base, conflict, calls, saving>>
exitVars == <<flush, discard, exit, covered, app>>
vars == <<server, sheetVars, saveVars, handlers, exitVars, edits, faults>>

Values == 0..MaxEdits
Free == [phase |-> "free", for |-> "timer", on |-> None, val |-> 0, base |-> 0]
NoFlush == [open |-> FALSE, waits |-> {}, failed |-> FALSE, from |-> 0]

CallRecords ==
    [phase : {"free", "waits", "sent", "accepted", "refused", "failed", "reading", "conflict"},
     for : {"timer", "leave", "excel", "reload", "exit"}, on : Slots \cup {None},
     val : Values, base : Nat]

BookTypeOK ==
    /\ server \in [Docs -> [val : Values, rev : Nat]]
    /\ typed \in [Docs -> Values]
    /\ given \subseteq Docs
    /\ handlers \in [Docs -> Sheets \cup {None}]
    /\ edits \in Values /\ faults \in Nat

SheetTypeOK ==
    /\ life \in [Sheets -> {"new", "mounted", "gone"}]
    /\ cell \in [Sheets -> Values \cup {None}]
    /\ base \in [Sheets -> Nat]
    /\ timer \in [Sheets -> BOOLEAN]
    /\ conflict \in [Sheets -> BOOLEAN]
    /\ excel \in [Sheets -> {"closed", "flushing", "opening", "open"}]

CallTypeOK ==
    /\ calls \in [Sheets -> [Slots -> CallRecords]]
    /\ saving \in [Sheets -> Slots \cup {None}]

ExitTypeOK ==
    /\ flush \in [open : BOOLEAN, waits : SUBSET Sheets, failed : BOOLEAN, from : Values]
    /\ discard \in BOOLEAN
    /\ exit \in [Exits -> {"idle", "flushing", "confirming", "discarding", "decision"}]
    /\ covered \in [Exits -> Values]
    /\ app \in {"running", "abandoned"} \cup Exits

TypeOK == BookTypeOK /\ SheetTypeOK /\ CallTypeOK /\ ExitTypeOK

Init ==
    /\ server = [d \in Docs |-> [val |-> 0, rev |-> 1]]
    /\ life = [s \in Sheets |-> "new"]
    /\ cell = [s \in Sheets |-> None]
    /\ typed = [d \in Docs |-> 0]
    /\ given = {}
    /\ base = [s \in Sheets |-> 0]
    /\ timer = [s \in Sheets |-> FALSE]
    /\ conflict = [s \in Sheets |-> FALSE]
    /\ excel = [s \in Sheets |-> "closed"]
    /\ calls = [s \in Sheets |-> [c \in Slots |-> Free]]
    /\ saving = [s \in Sheets |-> None]
    /\ handlers = [d \in Docs |-> None]
    /\ flush = NoFlush
    /\ discard = FALSE
    /\ exit = [x \in Exits |-> "idle"]
    /\ covered = [x \in Exits |-> 0]
    /\ app = "running"
    /\ edits = 0 /\ faults = 0

FreeSlots(s) == {c \in Slots : calls[s][c].phase = "free"}
FirstSlot(s) == CHOOSE c \in Slots : calls[s][c].phase = "free"
Registered == {s \in Sheets : handlers[DocOf[s]] = s}
Leaving == \E x \in Exits : exit[x] # "idle"

\* A dialog covers the window for the whole of a close, and once a logout has
\* failed; a logout and an installer that are under way leave it usable.
Modal == exit["close"] # "idle" \/ exit["logout"] \in {"decision", "discarding"}

\* The operator waits for an exit, unless used to going on: then the keyboard
\* still reaches the cell in focus behind a dialog, the pointer nothing.
Types == Leaving => "typeOn" \in Habits
Points == Types /\ ~Modal

-----------------------------------------------------------------------------
(* A sheet's flush.                                                        *)

\* The call returns at once: nothing is saved after a discard, under Excel, or
\* when there is nothing to save.
Unsendable(s) == excel[s] = "open" \/ (saving[s] = None /\ cell[s] = None)
NothingToFlush(s) == discard \/ Unsendable(s)

Sent(s, for) == [Free EXCEPT !.phase = "sent", !.for = for, !.val = cell[s], !.base = base[s]]

\* What a request asked is forgotten once its fate is known.
Settled(call, phase) == [Free EXCEPT !.phase = phase, !.for = call.for]

\* Mutant: a call does not look for a save under way.
BegunAlone(s, for) == Sent(s, for)

\* A call begins on behalf of a timer, an unmount, Excel, a reload or an exit.
Begun(s, for) ==
    IF saving[s] # None
    THEN [Free EXCEPT !.phase = "waits", !.for = for, !.on = saving[s]]
    ELSE Sent(s, for)

Begin(s, for) ==
    LET c == FirstSlot(s) IN
    /\ calls' = [calls EXCEPT ![s][c] = Begun(s, for)]
    /\ saving' = [saving EXCEPT ![s] = IF @ = None THEN c ELSE @]
    /\ conflict' = [conflict EXCEPT ![s] = @ /\ saving[s] # None]

\* The slots that go on when the save of slot c ends: its own call and those
\* that await it.
Awaiting(s, c) == {w \in Slots : calls[s][w].phase = "waits" /\ calls[s][w].on = c}
Woken(s, c) == {c} \cup Awaiting(s, c)

\* What the end of some calls means to those they were made for: a timer's
\* call ends unheard, an unmounted sheet leaves the registry once it is saved,
\* Excel goes on opening or not, an exit hears of its handler.
Ended(s, ends, ok) ==
    LET done(for) == \E w \in ends : calls[s][w].for = for IN
    /\ handlers' = [handlers EXCEPT ![DocOf[s]] =
                        IF ok /\ done("leave") /\ @ = s THEN None ELSE @]
    /\ excel' = [excel EXCEPT ![s] =
                        IF ~done("excel") THEN @ ELSE IF ok THEN "opening" ELSE "closed"]
    /\ flush' = IF done("exit")
                THEN [flush EXCEPT !.waits = @ \ {s}, !.failed = @ \/ ~ok]
                ELSE flush

\* A save ended well and cells were typed meanwhile: every woken call sends
\* them, since only the call that made the save asks again whether one is
\* under way, and it does so before the others have gone on.
SaveEndsWell(s, c) ==
    LET woken == Woken(s, c) IN
    IF cell[s] = None
    THEN /\ calls' = [calls EXCEPT ![s] = [w \in Slots |-> IF w \in woken THEN Free ELSE @[w]]]
         /\ saving' = [saving EXCEPT ![s] = None]
         /\ Ended(s, woken, TRUE)
         /\ UNCHANGED conflict
    ELSE /\ calls' = [calls EXCEPT ![s] =
                [w \in Slots |-> IF w \in woken THEN Sent(s, @[w].for) ELSE @[w]]]
         /\ \E w \in (IF Awaiting(s, c) = {} THEN {c} ELSE Awaiting(s, c)) :
                saving' = [saving EXCEPT ![s] = w]
         /\ conflict' = [conflict EXCEPT ![s] = FALSE]
         /\ UNCHANGED <<handlers, excel, flush>>

\* The operator lets a reload drop what is not sent.
GivesUp(s) ==
    /\ given' = IF cell[s] = None THEN given ELSE given \cup {DocOf[s]}
    /\ cell' = [cell EXCEPT ![s] = None]
    /\ timer' = [timer EXCEPT ![s] = FALSE]
    /\ conflict' = [conflict EXCEPT ![s] = FALSE]

\* A failed save ends the calls; a reload among them asks whether the cells
\* may go.
SaveFails(s, c, refused) ==
    LET woken == Woken(s, c) IN
    /\ calls' = [calls EXCEPT ![s] = [w \in Slots |-> IF w \in woken THEN Free ELSE @[w]]]
    /\ saving' = [saving EXCEPT ![s] = None]
    /\ Ended(s, woken, FALSE)
    /\ \/ /\ conflict' = [conflict EXCEPT ![s] = refused]
          /\ UNCHANGED <<given, cell, timer>>
       \/ (\E w \in woken : calls[s][w].for = "reload") /\ GivesUp(s)

\* Mutant: the accepted value is not compared with what the cell holds by now.
UnsentForgetful(s, c) == None

\* What is left to send when the answer to the save of slot c has come.
Unsent(s, c) == IF cell[s] = calls[s][c].val THEN None ELSE cell[s]

PatchAccepted(s, c) ==
    /\ app = "running" /\ calls[s][c].phase = "accepted"
    /\ cell' = [cell EXCEPT ![s] = Unsent(s, c)]
    /\ base' = [base EXCEPT ![s] = calls[s][c].base]
    /\ conflict' = [conflict EXCEPT ![s] = FALSE]
    /\ timer' = [timer EXCEPT ![s] =
                    life[s] = "mounted" /\ excel[s] # "open" /\ Unsent(s, c) # None]
    /\ calls' = [calls EXCEPT ![s][c] = Settled(@, "reading")]
    /\ UNCHANGED <<server, life, typed, given, excel, saving, handlers, exitVars,
                   edits, faults>>

\* A 409: the cells stay and the preview is read again.
PatchRefused(s, c) ==
    /\ app = "running" /\ calls[s][c].phase = "refused"
    /\ conflict' = [conflict EXCEPT ![s] = TRUE]
    /\ calls' = [calls EXCEPT ![s][c] = Settled(@, "conflict")]
    /\ UNCHANGED <<server, sheetVars, cell, base, saving, handlers, exitVars,
                   edits, faults>>

\* A rejected cell or a failed request.
PatchFailed(s, c) ==
    /\ app = "running" /\ calls[s][c].phase = "failed"
    /\ SaveFails(s, c, FALSE)
    /\ UNCHANGED <<server, life, typed, base, discard, exit, covered, app, edits, faults>>

\* The preview that a save invalidates has been read again, or could not be.
\* The calls go on before the render in which the sheet takes its revision.
PreviewRead(s, c) ==
    /\ app = "running" /\ calls[s][c].phase \in {"reading", "conflict"}
    /\ \E b \in {base[s]} \cup (IF life[s] = "mounted" THEN {server[DocOf[s]].rev} ELSE {}) :
        base' = [base EXCEPT ![s] = b]
    /\ IF calls[s][c].phase = "reading"
       THEN SaveEndsWell(s, c) /\ UNCHANGED <<given, cell, timer>>
       ELSE SaveFails(s, c, conflict[s])
    /\ UNCHANGED <<server, life, typed, discard, exit, covered, app, edits, faults>>

-----------------------------------------------------------------------------
(* A workbook surface.                                                     *)

Mount(s) ==
    /\ app = "running" /\ Points
    /\ life[s] = "new"
    /\ handlers[DocOf[s]] = None \/ "reopen" \in Habits
    /\ \A t \in Sheets \ {s} : DocOf[t] = DocOf[s] => life[t] # "mounted"
    /\ life' = [life EXCEPT ![s] = "mounted"]
    /\ base' = [base EXCEPT ![s] = server[DocOf[s]].rev]
    /\ handlers' = [handlers EXCEPT ![DocOf[s]] = s]
    /\ discard' = FALSE
    /\ UNCHANGED <<server, cell, typed, given, timer, conflict, excel, calls, saving,
                   flush, exit, covered, app, edits, faults>>

\* onCellChange.
Edit(s) ==
    /\ app = "running" /\ Types
    /\ life[s] = "mounted" /\ excel[s] # "open"
    /\ excel[s] # "closed" => "excelType" \in Habits
    /\ edits < MaxEdits
    /\ edits' = edits + 1
    /\ cell' = [cell EXCEPT ![s] = edits + 1]
    /\ typed' = [typed EXCEPT ![DocOf[s]] = edits + 1]
    /\ given' = given \ {DocOf[s]}
    /\ timer' = [timer EXCEPT ![s] = TRUE]
    /\ UNCHANGED <<server, life, base, conflict, excel, calls, saving, handlers, exitVars,
                   faults>>

\* One slot is kept for an exit.
DebounceFires(s) ==
    /\ app = "running" /\ timer[s]
    /\ timer' = [timer EXCEPT ![s] = FALSE]
    /\ IF NothingToFlush(s) THEN UNCHANGED <<calls, saving, conflict>>
       ELSE Cardinality(FreeSlots(s)) > 1 /\ Begin(s, "timer")
    /\ UNCHANGED <<server, life, cell, typed, given, base, excel, handlers, exitVars,
                   edits, faults>>

\* Mutant: an unmounted surface leaves the registry at once.
UnmountsForgetting(s) == TRUE

\* The cleanup leaves the registry at once when there is nothing it may save;
\* what a discard keeps from being saved is given up.
UnmountsFreely(s) == NothingToFlush(s)

Unmount(s) ==
    /\ app = "running" /\ Points
    /\ life[s] = "mounted" /\ excel[s] = "closed"
    /\ life' = [life EXCEPT ![s] = "gone"]
    /\ timer' = [timer EXCEPT ![s] = FALSE]
    /\ IF NothingToFlush(s) THEN UNCHANGED <<calls, saving, conflict>>
       ELSE Cardinality(FreeSlots(s)) > 1 /\ Begin(s, "leave")
    /\ handlers' = [handlers EXCEPT ![DocOf[s]] =
                        IF UnmountsFreely(s) /\ @ = s THEN None ELSE @]
    /\ cell' = [cell EXCEPT ![s] = IF discard THEN None ELSE @]
    /\ given' = IF discard THEN given \cup {DocOf[s]} ELSE given
    /\ UNCHANGED <<server, typed, base, excel, exitVars,
                   edits, faults>>

\* onReload: in a conflict the operator gives the cells up and the preview is
\* read again, or cannot be; otherwise they are flushed first, and a flush that
\* has sent them leaves the reload nothing to drop.
Reload(s) ==
    /\ app = "running" /\ Points
    /\ life[s] = "mounted"
    /\ \/ /\ conflict[s] \/ NothingToFlush(s)
          /\ GivesUp(s)
          /\ \E b \in {base[s], server[DocOf[s]].rev} : base' = [base EXCEPT ![s] = b]
          /\ UNCHANGED <<calls, saving>>
       \/ /\ ~conflict[s] /\ ~NothingToFlush(s)
          /\ Cardinality(FreeSlots(s)) > 1
          /\ Begin(s, "reload")
          /\ UNCHANGED <<given, cell, timer, base>>
    /\ UNCHANGED <<server, life, typed, excel, handlers, exitVars,
                   edits, faults>>

\* onOpenExcel flushes before it asks for a working copy.
OpenExcel(s) ==
    /\ app = "running" /\ Points
    /\ life[s] = "mounted" /\ excel[s] = "closed"
    /\ IF NothingToFlush(s)
       THEN /\ excel' = [excel EXCEPT ![s] = "opening"]
            /\ UNCHANGED <<calls, saving, conflict>>
       ELSE /\ excel' = [excel EXCEPT ![s] = "flushing"]
            /\ Cardinality(FreeSlots(s)) > 1
            /\ Begin(s, "excel")
    /\ UNCHANGED <<server, life, typed, given, timer, cell, base, handlers, exitVars,
                   edits, faults>>

\* The bridge runs, or the working copy or the bridge fails.
ExcelOpens(s) ==
    /\ app = "running" /\ excel[s] = "opening"
    /\ \/ /\ excel' = [excel EXCEPT ![s] = "open"]
          /\ timer' = [timer EXCEPT ![s] = FALSE]
       \/ /\ excel' = [excel EXCEPT ![s] = "closed"]
          /\ UNCHANGED timer
    /\ UNCHANGED <<server, life, typed, given, saveVars, handlers, exitVars,
                   edits, faults>>

\* The session ends and the grid takes cells again, under the revision the
\* last poll has read.
ExcelCloses(s) ==
    /\ app = "running" /\ Points
    /\ excel[s] = "open"
    /\ excel' = [excel EXCEPT ![s] = "closed"]
    /\ timer' = [timer EXCEPT ![s] = cell[s] # None]
    /\ base' = [base EXCEPT ![s] = server[DocOf[s]].rev]
    /\ UNCHANGED <<server, life, typed, given, cell, conflict, calls, saving, handlers,
                   exitVars, edits, faults>>

-----------------------------------------------------------------------------
(* The ways out.                                                           *)

\* The handlers that have something to save; the others are done at once.
Due == {s \in Registered : ~Unsendable(s)}

\* Mutant: every caller runs a flush of its own.
SharedNever == FALSE

\* A flush under way is shared.
Shared == flush.open

\* flushPendingSaves: a new flush calls every registered handler.
FlushStarts ==
    IF Shared THEN UNCHANGED <<flush, calls, saving, conflict>>
    ELSE /\ \A s \in Due : FreeSlots(s) # {}
         /\ flush' = [open |-> TRUE, waits |-> Due, failed |-> FALSE, from |-> edits]
         /\ calls' = [s \in Sheets |-> IF s \in Due
                        THEN [calls[s] EXCEPT ![FirstSlot(s)] = Begun(s, "exit")]
                        ELSE calls[s]]
         /\ saving' = [s \in Sheets |-> IF s \in Due /\ saving[s] = None
                        THEN FirstSlot(s) ELSE saving[s]]
         /\ conflict' = [s \in Sheets |-> conflict[s] /\ (s \in Due => saving[s] # None)]

\* A first attempt or a retry.  Close guard and logout take back an earlier
\* discard; the installer does not, and a discard in force leaves nothing to
\* flush.
Leave(x) ==
    /\ app = "running"
    /\ \/ exit[x] = "idle" /\ (Modal => x = "close")
       \/ exit[x] = "decision" /\ x # "update" /\ (x = "logout" => exit["close"] = "idle")
    /\ IF x = "update" /\ discard
       THEN /\ exit' = [exit EXCEPT ![x] = "discarding"]
            /\ UNCHANGED <<flush, calls, saving, conflict, discard>>
       ELSE /\ exit' = [exit EXCEPT ![x] = "flushing"]
            /\ discard' = FALSE
            /\ FlushStarts
    /\ UNCHANGED <<server, sheetVars, cell, base, handlers, covered, app,
                   edits, faults>>

\* Mutant: a handler is awaited however long it takes.
OverdueNever(s) == FALSE

\* A handler that has not settled can be overdue.
Overdue(s) == s \in flush.waits

\* runWithTimeout: the handler counts as failed, and its late end is not heard.
HandlerTimesOut(s) ==
    /\ app = "running" /\ Overdue(s)
    /\ flush' = [flush EXCEPT !.waits = @ \ {s}, !.failed = TRUE]
    /\ calls' = [calls EXCEPT ![s] = [c \in Slots |->
                    IF @[c].for = "exit" THEN [@[c] EXCEPT !.for = "timer"] ELSE @[c]]]
    /\ UNCHANGED <<server, sheetVars, cell, base, conflict, saving, handlers, discard, exit,
                   covered, app, edits, faults>>

Asked(x) == IF x = "update" THEN "idle" ELSE "decision"

\* Mutant: a failed handler does not fail the flush.
FlushFailedNever == FALSE

FlushFailed == flush.failed

FlushEnds ==
    /\ app = "running" /\ flush.open /\ flush.waits = {}
    /\ flush' = NoFlush
    /\ covered' = [x \in Exits |->
                     IF exit[x] = "flushing" /\ ~FlushFailed THEN flush.from ELSE covered[x]]
    /\ exit' = [x \in Exits |->
                  IF exit[x] # "flushing" THEN exit[x]
                  ELSE IF FlushFailed THEN Asked(x) ELSE "confirming"]
    /\ UNCHANGED <<server, sheetVars, saveVars, handlers, discard, app, edits, faults>>

\* The native shell closes or installs, the logout clears the session: nothing
\* is left of what was under way.
Departs(x) ==
    /\ app = "running" /\ exit[x] \in {"confirming", "discarding"}
    /\ app' = IF exit[x] = "confirming" THEN x ELSE "abandoned"
    /\ calls' = [s \in Sheets |-> [c \in Slots |-> Free]]
    /\ saving' = [s \in Sheets |-> None]
    /\ timer' = [s \in Sheets |-> FALSE]
    /\ flush' = NoFlush
    /\ exit' = [y \in Exits |-> "idle"]
    /\ UNCHANGED <<server, life, typed, given, excel, cell, base, conflict, handlers, discard,
                   covered, edits, faults>>

\* Excel's last save cannot be verified, or the shell fails.  A logout that
\* discards cannot fail.
Stays(x) ==
    /\ app = "running" /\ exit[x] \in {"confirming", "discarding"}
    /\ ~(x = "logout" /\ exit[x] = "discarding")
    /\ faults < MaxFaults
    /\ faults' = faults + 1
    /\ exit' = [exit EXCEPT ![x] = Asked(x)]
    /\ covered' = [covered EXCEPT ![x] = 0]
    /\ discard' = (discard /\ (x = "update" \/ exit[x] = "confirming"))
    /\ UNCHANGED <<server, sheetVars, saveVars, handlers, flush, app, edits>>

\* The operator leaves without saving, or returns to the program.
LeaveUnsaved(x) ==
    /\ app = "running" /\ exit[x] = "decision"
    /\ exit' = [exit EXCEPT ![x] = "discarding"]
    /\ discard' = TRUE
    /\ UNCHANGED <<server, sheetVars, saveVars, handlers, flush, covered, app,
                   edits, faults>>

ReturnToApp(x) ==
    /\ app = "running" /\ exit[x] = "decision"
    /\ exit' = [exit EXCEPT ![x] = "idle"]
    /\ discard' = FALSE
    /\ UNCHANGED <<server, sheetVars, saveVars, handlers, flush, covered, app,
                   edits, faults>>

-----------------------------------------------------------------------------
(* The server, the network and other surfaces.                             *)

\* Under the document's lock its revision is compared with the request's.
Commit(s, c) ==
    /\ calls[s][c].base = server[DocOf[s]].rev
    /\ server' = [server EXCEPT ![DocOf[s]] = [val |-> calls[s][c].val, rev |-> @.rev + 1]]

\* The cells' values and the document's revision are committed one after the
\* other, and the second can fail.
CommitValues(s, c) ==
    /\ calls[s][c].base = server[DocOf[s]].rev
    /\ server' = [server EXCEPT ![DocOf[s]].val = calls[s][c].val]

ServerAnswers(s, c) ==
    /\ app = "running" /\ calls[s][c].phase = "sent"
    /\ \/ /\ Commit(s, c)
          /\ calls' = [calls EXCEPT ![s][c].phase = "accepted",
                                    ![s][c].base = server[DocOf[s]].rev + 1]
       \/ /\ calls[s][c].base # server[DocOf[s]].rev
          /\ calls' = [calls EXCEPT ![s][c] = Settled(@, "refused")]
          /\ UNCHANGED server
    /\ UNCHANGED <<sheetVars, cell, base, conflict, saving, handlers, exitVars,
                   edits, faults>>

\* The server rejects the cell or fails half-way, or the request or its answer
\* is lost.
RequestFails(s, c) ==
    /\ app = "running" /\ calls[s][c].phase = "sent"
    /\ faults < MaxFaults
    /\ faults' = faults + 1
    /\ calls' = [calls EXCEPT ![s][c] = Settled(@, "failed")]
    /\ Commit(s, c) \/ CommitValues(s, c) \/ UNCHANGED server
    /\ UNCHANGED <<sheetVars, cell, base, conflict, saving, handlers, exitVars, edits>>

\* Excel or another desktop writes other cells of the document.
OtherSurfaceWrites(d) ==
    /\ app = "running"
    /\ faults < MaxFaults
    /\ faults' = faults + 1
    /\ server' = [server EXCEPT ![d].rev = @ + 1]
    /\ UNCHANGED <<sheetVars, saveVars, handlers, exitVars, edits>>

-----------------------------------------------------------------------------
SheetStep(s) ==
    \/ Mount(s) \/ Edit(s) \/ DebounceFires(s) \/ Unmount(s) \/ Reload(s)
    \/ OpenExcel(s) \/ ExcelOpens(s) \/ ExcelCloses(s)
    \/ HandlerTimesOut(s)

CallStep(s, c) ==
    \/ PatchAccepted(s, c) \/ PatchRefused(s, c) \/ PatchFailed(s, c) \/ PreviewRead(s, c)
    \/ ServerAnswers(s, c) \/ RequestFails(s, c)

ExitStep(x) == Leave(x) \/ Departs(x) \/ Stays(x) \/ LeaveUnsaved(x) \/ ReturnToApp(x)

Next ==
    \/ \E s \in Sheets : SheetStep(s) \/ \E c \in Slots : CallStep(s, c)
    \/ \E x \in Ways : ExitStep(x)
    \/ FlushEnds
    \/ \E d \in Docs : OtherSurfaceWrites(d)

Spec == Init /\ [][Next]_vars

\* Timers fire, promises that are settled are heard, the native shell answers.
\* Nothing is assumed of the server.
Fairness ==
    /\ WF_vars(FlushEnds)
    /\ \A s \in Sheets : WF_vars(HandlerTimesOut(s))
    /\ \A x \in Ways : WF_vars(Departs(x) \/ Stays(x))

FairSpec == Spec /\ Fairness

-----------------------------------------------------------------------------
(* Properties.                                                             *)

\* A cell that is not sent yet has a save handler that an exit will call, also
\* after its surface is gone.
EditsGuarded == \A s \in Sheets : cell[s] # None => s \in Registered

\* A document whose surfaces have nothing left to send has its last value on
\* the server, whatever saves overlapped, failed or were answered late.
NothingForgotten ==
    \A d \in Docs \ given :
        (\A s \in Sheets : DocOf[s] = d => cell[s] = None) => server[d].val = typed[d]

\* The program goes away without the operator's discard only when everything
\* typed before the flush that let it go is sent.
ExitLosesNothing ==
    app \in Exits => \A s \in Sheets : cell[s] = None \/ cell[s] > covered[app]

\* Callers share one flush: no sheet's handler runs twice for exits.
ExitsShareFlush ==
    \A s \in Sheets : Cardinality({c \in Slots : calls[s][c].for = "exit"}) <= 1

\* A close never hangs on a server that does not answer: the program goes, or
\* the operator is asked.
ExitsResolve ==
    exit["close"] \in {"flushing", "confirming", "discarding"}
        ~> (exit["close"] \in {"idle", "decision"} \/ app # "running")
=============================================================================
