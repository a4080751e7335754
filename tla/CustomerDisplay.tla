-------------------------- MODULE CustomerDisplay --------------------------
(***************************************************************************)
(* The customer display: from the clerk's keystrokes to the kiosk window.  *)
(*                                                                         *)
(* Source: src/frontend/src-v2/make/alis/useAlisMakeState.ts (the clerk's  *)
(* preview socket), src/backend/app/api/pos.py (the two socket handlers),  *)
(* services/realtime.py (the hub), services/pos_service.py and             *)
(* pos_display_service.py (the snapshot and its broadcast), and            *)
(* src/frontend/src-v2/make/display/ (the kiosk page).                     *)
(*                                                                         *)
(* One purchase session under one display token, one clerk and one kiosk.  *)
(* The content of the form is the number of the last keystroke in it.      *)
(* Frames of one socket arrive in the order they were sent in.  A step of  *)
(* the hub is the code from one await to the next, or several such pieces  *)
(* where nothing else that runs in between reads or writes what they do    *)
(* (said at each).  A save is never refused here (AlisAutosave is about    *)
(* that); one whose answer a restart of the backend has swallowed is taken *)
(* as answered.  Where building a snapshot raises, the handlers' own        *)
(* fallbacks are taken, and the fallbacks are taken to succeed.            *)
(***************************************************************************)
EXTENDS Integers, Sequences

CONSTANTS
    None,         \* no frame, no payload, nothing shown
    Failed,       \* the answer of a poll that failed
    MaxEdits,     \* bound: keystrokes
    MaxWire,      \* bound: previews on their way to the backend
    MaxFaults     \* bound: dropped sockets, late polls, restarts, page reloads, snapshots
                  \* that cannot be built

ASSUME NoneAssumption ==
    None # Failed /\ {None, Failed} \cap [rev : Nat, val : Int, seq : Nat] = {}
ASSUME BoundAssumption == MaxEdits \in Nat \ {0} /\ MaxWire \in Nat /\ MaxFaults \in Nat

VARIABLES
    row,       \* the session's row: revision, content, still a draft
    book,      \* the content committed as each revision
    form,      \* clerk: the content on screen
    crev,      \* clerk: the workspace revision known
    cseq,      \* clerk: previewSequenceRef
    cpend,     \* clerk: pendingPreviewPayloadRef
    ctimer,    \* clerk: the payload the preview debounce will send
    csock,     \* clerk: the preview socket is open
    cwire,     \* previews on their way to the backend
    put,       \* the save under way: none, committed, answered
    emit,      \* _emit_session_state is due
    preview,   \* hub: _display_preview
    counter,   \* hub: _display_preview_counters
    joined,    \* hub: the kiosk's socket is registered
    zombie,    \* hub: a dead socket of the kiosk is still registered
    init,      \* display_socket: its first snapshot is being built
    initRow,   \* from this row
    closing,   \* close_display_token is due
    sock,      \* kiosk: its socket is closed or up
    inbox,     \* frames on their way to the kiosk
    conn,      \* kiosk: connection
    polling,   \* kiosk: the sync interval runs
    poll,      \* kiosk: the late answer of a poll, on its way
    shown,     \* kiosk: snapshot
    faults

clerkVars == <<form, crev, cseq, cpend, ctimer, csock, cwire>>
saveVars == <<put, emit>>
hubVars == <<preview, counter, joined, zombie, init, initRow, closing>>
kioskVars == <<sock, inbox, conn, polling, poll, shown>>
vars == <<row, book, clerkVars, saveVars, hubVars, kioskVars, faults>>

Content == 0..MaxEdits

\* The content of a snapshot without the workspace's rows: its totals are those
\* of the stored lines, of whatever age.
Bare == -1

Snapshots == [rev : Nat \ {0}, val : Content \cup {Bare}, seq : Nat]
Rows == [rev : Nat, val : Content, open : BOOLEAN]
FrameKinds == {"init", "update", "preview", "close"}
NoRow == [rev |-> 0, val |-> 0, open |-> FALSE]

SessionTypeOK ==
    /\ row \in Rows
    /\ book \in Seq(Content) /\ Len(book) = row.rev
    /\ put \in {"none", "committed", "answered"} /\ emit \in BOOLEAN

ClerkTypeOK ==
    /\ form \in Content /\ crev \in Nat /\ cseq \in Nat
    /\ cpend \in Snapshots \cup {None}
    /\ ctimer \in [rev : Nat, val : Content] \cup {None}
    /\ csock \in BOOLEAN
    /\ cwire \in Seq(Snapshots)

HubTypeOK ==
    /\ preview \in Snapshots \cup {None} /\ counter \in Nat
    /\ joined \in BOOLEAN /\ zombie \in BOOLEAN
    /\ init \in BOOLEAN /\ initRow \in Rows
    /\ closing \in BOOLEAN

KioskTypeOK ==
    /\ sock \in {"closed", "up"}
    /\ inbox \in Seq([kind : FrameKinds, snap : Snapshots \cup {None}])
    /\ conn \in {"connecting", "live", "offline"}
    /\ polling \in BOOLEAN
    /\ poll \in Snapshots \cup {None, Failed}
    /\ shown \in Snapshots \cup {None}

TypeOK ==
    /\ SessionTypeOK /\ ClerkTypeOK /\ HubTypeOK /\ KioskTypeOK
    /\ faults \in 0..MaxFaults

\* The clerk's page has loaded a session of revision 1, which starts the preview
\* debounce; the kiosk's page has just been loaded.
Init ==
    /\ row = [rev |-> 1, val |-> 0, open |-> TRUE] /\ book = <<0>>
    /\ form = 0 /\ crev = 1 /\ cseq = 0 /\ cpend = None /\ ctimer = [rev |-> 1, val |-> 0]
    /\ csock = FALSE /\ cwire = <<>>
    /\ put = "none" /\ emit = FALSE
    /\ preview = None /\ counter = 0 /\ joined = FALSE /\ zombie = FALSE
    /\ init = FALSE /\ initRow = NoRow /\ closing = FALSE
    /\ sock = "closed" /\ inbox = <<>> /\ conn = "connecting" /\ polling = TRUE
    /\ poll = None /\ shown = None
    /\ faults = 0

-----------------------------------------------------------------------------
(* The hub and the snapshot.                                               *)

Frame(kind, snap) == [kind |-> kind, snap |-> snap]
Committed(r, c) == [rev |-> r.rev, val |-> c, seq |-> 0]

\* Mutant: a cached preview is served whatever has been committed since.
CurrentAlways(r) == preview # None

\* The cached preview is newer than the row a snapshot was built from.
Current(r) == preview # None /\ r.open /\ preview.rev >= r.rev

\* _attach_display_workspace_rows adds the rows and the totals of the workspace,
\* or returns the snapshot as it is when the workspace cannot be built.
Attaches(c) ==
    IF c = Bare THEN faults < MaxFaults /\ faults' = faults + 1 ELSE UNCHANGED faults

\* display_snapshot of a row read a moment ago: the cached preview, if it is
\* current; otherwise the cache and its counter are dropped.
Snapshot(r, c) == IF Current(r) THEN preview ELSE Committed(r, c)
Overlaid(r) ==
    /\ preview' = IF Current(r) THEN preview ELSE None
    /\ counter' = IF preview # None /\ ~Current(r) THEN 0 ELSE counter

Forgotten == preview' = None /\ counter' = 0

NoInit == init' = FALSE /\ initRow' = NoRow

Broadcast(frame) == inbox' = IF joined THEN Append(inbox, frame) ELSE inbox

Greater(a, b) == IF a > b THEN a ELSE b

\* Mutant: the number the clerk's page counts with is taken as it is.
SequencedAsSent(p) == p.seq

\* set_display_preview: the next number, or the clerk's when it is ahead.
Sequenced(p) == Greater(counter + 1, p.seq)

\* Mutant: a preview is labelled with the revision the row has by now.
LabelledAnew(p) == row.rev

\* Mutant: a preview counts revisions from 0.
LabelledFromZero(p) == p.rev - 1

\* A preview carries the revision its clerk knew.
Labelled(p) == p.rev

\* clerk_socket handles a preview and broadcasts it.
PreviewHandled ==
    LET p == Head(cwire)
        snap == [rev |-> Labelled(p), val |-> p.val, seq |-> Sequenced(p)]
    IN
    /\ cwire # <<>>
    /\ cwire' = Tail(cwire)
    /\ preview' = snap
    /\ counter' = snap.seq
    /\ Broadcast(Frame("preview", snap))
    /\ UNCHANGED <<row, book, form, crev, cseq, cpend, ctimer, csock, saveVars, joined, zombie,
                   init, initRow, closing, sock, conn, polling, poll, shown, faults>>

-----------------------------------------------------------------------------
(* The clerk.                                                              *)

Payload(n) == [rev |-> crev, val |-> n, seq |-> cseq + 1]

\* sendClerkPreview: the payload is kept for a reconnect and sent if possible.
Sends(p) ==
    /\ cseq' = cseq + 1
    /\ cpend' = p
    /\ Len(cwire) < MaxWire
    /\ cwire' = IF csock THEN Append(cwire, p) ELSE cwire

\* A row is previewed at once and again after the debounce, the customer after
\* the debounce only.
Edit ==
    /\ row.open /\ form < MaxEdits
    /\ form' = form + 1
    /\ ctimer' = [rev |-> crev, val |-> form + 1]
    /\ Sends(Payload(form + 1)) \/ UNCHANGED <<cseq, cpend, cwire>>
    /\ UNCHANGED <<row, book, crev, csock, saveVars, hubVars, kioskVars, faults>>

PreviewDebounceFires ==
    /\ ctimer # None
    /\ ctimer' = None
    /\ Sends([rev |-> ctimer.rev, val |-> ctimer.val, seq |-> cseq + 1])
    /\ UNCHANGED <<row, book, form, crev, csock, saveVars, hubVars, kioskVars, faults>>

\* The socket opens, at first or 1.5 s after it closed, and says again what was
\* said last.
ClerkConnects ==
    /\ ~csock /\ row.open
    /\ csock' = TRUE
    /\ cwire' = IF cpend = None THEN cwire ELSE Append(cwire, cpend)
    /\ UNCHANGED <<row, book, form, crev, cseq, cpend, ctimer, saveVars, hubVars, kioskVars,
                   faults>>

ClerkDrops ==
    /\ csock /\ faults < MaxFaults
    /\ faults' = faults + 1
    /\ csock' = FALSE
    /\ cwire' = <<>>
    /\ UNCHANGED <<row, book, form, crev, cseq, cpend, ctimer, saveVars, hubVars, kioskVars>>

\* The clerk leaves a saved session and comes back to it: the page counts from
\* the start again.
ClerkReopens ==
    /\ row.open /\ put = "none" /\ form = row.val /\ crev = row.rev
    /\ cseq > 0 /\ faults < MaxFaults
    /\ faults' = faults + 1
    /\ cseq' = 0 /\ cpend' = None /\ ctimer' = [rev |-> row.rev, val |-> form]
    /\ csock' = FALSE
    /\ UNCHANGED <<row, book, form, crev, cwire, saveVars, hubVars, kioskVars>>

\* The autosave of AlisAutosave, seen from here: one save at a time.
\* update_purchase_workspace commits and goes on to tell the viewers.
SaveCommits ==
    /\ row.open /\ put = "none" /\ form # row.val
    /\ put' = "committed"
    /\ row' = [row EXCEPT !.rev = @ + 1, !.val = form]
    /\ book' = Append(book, form)
    /\ emit' = TRUE
    /\ UNCHANGED <<clerkVars, hubVars, kioskVars, faults>>

\* The answer: the form takes the revision, and its rows when nothing was
\* typed meanwhile, which starts the debounce again.
SaveAnswered ==
    /\ put = "answered"
    /\ put' = "none"
    /\ crev' = row.rev
    /\ ctimer' = IF form = row.val THEN [rev |-> row.rev, val |-> form] ELSE ctimer
    /\ UNCHANGED <<row, book, form, cseq, cpend, csock, cwire, emit, hubVars, kioskVars,
                   faults>>

Answered == IF put = "committed" THEN "answered" ELSE put

\* The snapshot that is broadcast, with the rows c of the workspace.
Emits(c) ==
    Attaches(c) /\ Broadcast(Frame("update", Snapshot(row, c))) /\ Overlaid(row)

\* Its fallback: the session as the request holds it, without lines or rows and
\* without a look at the cached preview.
EmitsFallback ==
    /\ Attaches(Bare)
    /\ Broadcast(Frame("update", Committed(row, Bare)))
    /\ UNCHANGED <<preview, counter>>

\* _emit_session_state: nothing is built when nobody watches; the clerk's own
\* socket is a watcher too.  Nothing is committed between its reading the row
\* and its broadcast: the save under way holds back the next one.
StateEmitted ==
    /\ emit
    /\ emit' = FALSE
    /\ put' = Answered
    /\ IF joined \/ zombie \/ csock
       THEN (\E c \in {row.val, Bare} : Emits(c)) \/ EmitsFallback
       ELSE UNCHANGED <<inbox, preview, counter, faults>>
    /\ UNCHANGED <<row, book, clerkVars, joined, zombie, init, initRow, closing, sock, conn,
                   polling, poll, shown>>

\* The page leaves the session; what it has sent may still arrive.
ClerkLeaves ==
    /\ form' = 0 /\ crev' = 1 /\ cseq' = 0 /\ cpend' = None /\ ctimer' = None
    /\ csock' = FALSE
    /\ UNCHANGED cwire

\* Finalize, and a clerk who revokes the token, close it once they have
\* committed.
SessionCloses ==
    /\ row.open /\ put = "none"
    /\ row' = [row EXCEPT !.open = FALSE]
    /\ closing' = TRUE
    /\ ClerkLeaves
    /\ UNCHANGED <<book, saveVars, preview, counter, joined, zombie, init, initRow, kioskVars,
                   faults>>

\* Cancel forgets the preview and tells the viewers, but leaves the sockets.
SessionCancelled ==
    /\ row.open /\ put = "none" /\ ~emit
    /\ row' = [row EXCEPT !.open = FALSE]
    /\ Forgotten
    /\ emit' = TRUE
    /\ ClerkLeaves
    /\ UNCHANGED <<book, put, joined, zombie, init, initRow, closing, kioskVars,
                   faults>>

\* close_display_token; finalize goes on to tell the viewers there may be.
TokenClosed ==
    /\ closing
    /\ closing' = FALSE
    /\ emit' \in BOOLEAN
    /\ Forgotten
    /\ joined' = FALSE /\ zombie' = FALSE /\ NoInit
    /\ Broadcast(Frame("close", None))
    /\ UNCHANGED <<row, book, clerkVars, put, sock, conn, polling, poll, shown, faults>>

-----------------------------------------------------------------------------
(* The kiosk's socket.                                                     *)

\* onclose: offline, polling, and a new attempt in 1.5 s.
Offline ==
    /\ sock' = "closed" /\ inbox' = <<>>
    /\ conn' = "offline"
    /\ polling' = TRUE

\* Mutant: the socket is registered only with its first snapshot.
RegisteredLate == FALSE

\* connect_display registers the socket first of all.
Registered == TRUE

\* 1.5 s after it closed, the page opens its socket: display_socket refuses an
\* unknown token and accepts a known one, and with onopen the polling stops.
\* The socket is registered before the row of its first snapshot is read.
Connect ==
    /\ sock = "closed"
    /\ IF row.open
       THEN /\ sock' = "up" /\ conn' = "live" /\ polling' = FALSE
            /\ joined' = Registered
            /\ init' = TRUE /\ initRow' = row
            /\ UNCHANGED inbox
       ELSE /\ Offline
            /\ UNCHANGED <<joined, init, initRow>>
    /\ UNCHANGED <<row, book, clerkVars, saveVars, preview, counter, zombie, closing, poll,
                   shown, faults>>

InitSends ==
    /\ init
    /\ NoInit
    /\ joined' = TRUE
    /\ \E c \in {initRow.val, Bare} :
           Attaches(c) /\ inbox' = Append(inbox, Frame("init", Snapshot(initRow, c)))
    /\ Overlaid(initRow)
    /\ UNCHANGED <<row, book, clerkVars, saveVars, zombie, closing, sock, conn, polling, poll,
                   shown>>

\* disconnect_display: the last socket of the token takes the preview with it.
LastLeaves(others) == IF others THEN UNCHANGED <<preview, counter>> ELSE Forgotten

\* The first snapshot cannot be built: the socket is closed with 1011.
InitFails ==
    /\ init /\ faults < MaxFaults
    /\ faults' = faults + 1
    /\ NoInit
    /\ joined' = FALSE
    /\ LastLeaves(zombie)
    /\ inbox' = Append(inbox, Frame("close", None))
    /\ UNCHANGED <<row, book, clerkVars, saveVars, zombie, closing, sock, conn, polling, poll,
                   shown>>

\* The kiosk loses its socket; the backend finds out later.
KioskDrops ==
    /\ sock = "up" /\ faults < MaxFaults
    /\ faults' = faults + 1
    /\ Offline
    /\ joined' = FALSE /\ NoInit
    /\ zombie' = (zombie \/ joined)
    /\ UNCHANGED <<row, book, clerkVars, saveVars, preview, counter, closing, poll, shown>>

\* disconnect_display of a dead socket.
DropNoticed ==
    /\ zombie
    /\ zombie' = FALSE
    /\ LastLeaves(joined)
    /\ UNCHANGED <<row, book, clerkVars, saveVars, joined, init, initRow, closing, kioskVars,
                   faults>>

\* A restart of the backend: the hub is empty, sockets and broadcasts are gone.
Restart ==
    /\ faults < MaxFaults
    /\ faults' = faults + 1
    /\ Forgotten
    /\ joined' = FALSE /\ zombie' = FALSE /\ NoInit
    /\ closing' = FALSE
    /\ emit' = FALSE
    /\ put' = Answered
    /\ csock' = FALSE /\ cwire' = <<>>
    /\ IF sock = "closed" THEN UNCHANGED <<sock, inbox, conn, polling>> ELSE Offline
    /\ UNCHANGED <<row, book, form, crev, cseq, cpend, ctimer, poll, shown>>

-----------------------------------------------------------------------------
(* The kiosk page.                                                         *)

Older(snap) == snap.rev < shown.rev

\* applyIncomingDisplaySnapshot: a preview has to be newer than what is shown,
\* a committed snapshot may replace a preview of its revision.
Ignored(kind, snap) ==
    /\ shown # None
    /\ \/ Older(snap)
       \/ snap.rev = shown.rev /\ kind = "preview" /\ snap.seq <= shown.seq

Applied(kind, snap) == shown' = IF Ignored(kind, snap) THEN shown ELSE snap

FrameArrives ==
    LET f == Head(inbox) IN
    /\ inbox # <<>>
    /\ IF f.kind = "close"
       THEN Offline /\ UNCHANGED shown
       ELSE /\ inbox' = Tail(inbox)
            /\ Applied(f.kind, f.snap)
            /\ UNCHANGED <<sock, conn, polling>>
    /\ UNCHANGED <<row, book, clerkVars, saveVars, hubVars, poll, faults>>

Unknown == conn' = "offline" /\ UNCHANGED shown

\* A poll the backend answers, or refuses when it no longer knows the token.
PollAnswered ==
    /\ polling
    /\ IF row.open
       THEN /\ \E c \in {row.val, Bare} : Attaches(c) /\ Applied("update", Snapshot(row, c))
            /\ Overlaid(row) /\ UNCHANGED conn
       ELSE Unknown /\ UNCHANGED <<preview, counter, faults>>
    /\ UNCHANGED <<row, book, clerkVars, saveVars, joined, zombie, init, initRow, closing, sock,
                   inbox, polling, poll>>

\* A poll that fails or whose answer is late: the socket may be up by then.
PollLate ==
    /\ polling /\ poll = None /\ faults < MaxFaults
    /\ faults' = faults + 1
    /\ \/ poll' = Failed /\ UNCHANGED <<preview, counter>>
       \/ row.open /\ Overlaid(row) /\ \E c \in {row.val, Bare} : poll' = Snapshot(row, c)
    /\ UNCHANGED <<row, book, clerkVars, saveVars, joined, zombie, init, initRow, closing, sock,
                   inbox, conn, polling, shown>>

LatePollArrives ==
    /\ poll # None
    /\ poll' = None
    /\ IF poll = Failed THEN Unknown ELSE Applied("update", poll) /\ UNCHANGED conn
    /\ UNCHANGED <<row, book, clerkVars, saveVars, hubVars, sock, inbox, polling, faults>>

\* Mutant: an open socket is not probed.
ProbedNever == FALSE

\* A kiosk that takes itself for connected asks for its token every 5 s.
Probed == sock = "up" /\ ~polling

\* The answer is not applied, but display_snapshot has dropped an old preview.
ProbeAnswered ==
    /\ Probed /\ row.open
    /\ Overlaid(row)
    /\ UNCHANGED <<row, book, clerkVars, saveVars, joined, zombie, init, initRow, closing,
                   kioskVars, faults>>

\* The token is gone: the kiosk closes its socket, and the backend notices.
ProbeFails ==
    /\ Probed /\ ~row.open
    /\ Offline
    /\ joined' = FALSE /\ NoInit
    /\ LastLeaves(zombie \/ ~joined)
    /\ UNCHANGED <<row, book, clerkVars, saveVars, zombie, closing, poll, shown, faults>>

-----------------------------------------------------------------------------
ClerkStep ==
    \/ PreviewDebounceFires \/ ClerkConnects
    \/ SaveCommits \/ SaveAnswered

BackendStep ==
    \/ PreviewHandled \/ StateEmitted \/ TokenClosed
    \/ InitSends \/ DropNoticed

KioskStep ==
    \/ Connect \/ FrameArrives
    \/ PollAnswered \/ LatePollArrives \/ ProbeAnswered \/ ProbeFails

Operator == Edit \/ ClerkReopens \/ SessionCloses \/ SessionCancelled
Fault == ClerkDrops \/ KioskDrops \/ Restart \/ PollLate \/ InitFails

Next == ClerkStep \/ BackendStep \/ KioskStep \/ Operator \/ Fault

Spec == Init /\ [][Next]_vars

\* Timers fire, requests and frames arrive unless a fault takes them, the event
\* loop runs every task.  Nothing is assumed of the operator.
Fairness ==
    /\ WF_vars(PreviewDebounceFires) /\ WF_vars(ClerkConnects)
    /\ WF_vars(SaveCommits) /\ WF_vars(SaveAnswered)
    /\ WF_vars(PreviewHandled) /\ WF_vars(StateEmitted)
    /\ WF_vars(TokenClosed) /\ WF_vars(InitSends)
    /\ WF_vars(Connect) /\ WF_vars(FrameArrives)
    /\ WF_vars(PollAnswered) /\ WF_vars(LatePollArrives) /\ WF_vars(ProbeFails)

FairSpec == Spec /\ Fairness

-----------------------------------------------------------------------------
(* Properties.                                                             *)

\* What the kiosk shows under a revision is what was committed as that
\* revision, or what the clerk has typed since: never something older.  Where
\* the workspace's rows could not be built it shows no rows, and a total that
\* may be older.
ShowsItsRevision ==
    shown # None =>
        /\ shown.rev <= row.rev
        /\ shown.val # Bare => shown.val >= book[shown.rev]

\* A kiosk whose socket has had its first snapshot, with nothing on its way to
\* it, shows the last save: no commit falls between the first snapshot and the
\* broadcasts.
NoSaveMissed ==
    (joined /\ ~init /\ inbox = <<>> /\ ~emit /\ row.open)
        => shown # None /\ shown.rev = row.rev

\* Previews of the revision the row has reach the kiosk under growing numbers,
\* also when the clerk's page counts anew: none is taken for an old one.
PreviewsInOrder ==
    row.open => \A i, j \in 1..Len(inbox) :
        (i < j /\ inbox[i].kind = "preview" /\ inbox[j].kind = "preview"
            /\ inbox[i].snap.rev = row.rev /\ inbox[j].snap.rev = row.rev)
        => inbox[i].snap.seq < inbox[j].snap.seq

\* When the clerk stops, the kiosk of an open session ends up at the last saved
\* revision and shows what is saved, and all that was typed is; only a last
\* snapshot whose rows could not be built stays as it is.
CatchesUp ==
    <>[](row.open => shown # None /\ shown.rev = row.rev /\ shown.val \in {form, Bare})

\* The kiosk of a session that is over does not go on looking connected.
GoesOffline == <>[](~row.open => conn # "live")
=============================================================================
