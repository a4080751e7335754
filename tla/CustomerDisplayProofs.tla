----------------------- MODULE CustomerDisplayProofs -----------------------
(***************************************************************************)
(* The customer display shows nothing older than the revision it is        *)
(* labelled with, whatever sockets drop, whenever the backend restarts and *)
(* in whatever order previews, broadcasts and polls reach the kiosk.       *)
(*                                                                         *)
(* The argument follows a snapshot from the form to the window: whatever   *)
(* is queued, cached, on a wire or shown is faithful to the book of        *)
(* committed revisions, and a commit, which only appends to the book,      *)
(* leaves faithful snapshots faithful.  Two more invariants rest on it:     *)
(* that the last save is on its way to a registered kiosk, and that the    *)
(* previews under way are numbered upwards.                                *)
(***************************************************************************)
EXTENDS CustomerDisplay, SequenceTheorems, TLAPS

\* The content x carries, if any, is at least what book b has under its revision.
Faithful(b, x) == x.rev \in 1..Len(b) /\ (x.val # Bare => x.val >= b[x.rev])

GoodSnapshots(b) == {x \in Snapshots : Faithful(b, x)}

\* A frame that closes the socket carries nothing.
GoodFrames(b) ==
    {f \in [kind : FrameKinds, snap : Snapshots \cup {None}] :
        IF f.kind = "close" THEN f.snap = None ELSE f.snap \in GoodSnapshots(b)}

\* A row as it was read once.
GoodRows(b) == {r \in Rows : r.rev \in 1..Len(b) /\ b[r.rev] = r.val}

\* The page that leaves a session holds the content of its first revision.
SessionOK ==
    /\ SessionTypeOK
    /\ row \in GoodRows(book)
    /\ 1 \in 1..Len(book) /\ book[1] = 0

\* What the clerk's page holds and has sent.
ClerkOK ==
    /\ ClerkTypeOK
    /\ crev \in 1..Len(book) /\ form >= book[crev]
    /\ row.open => form >= row.val
    /\ put # "none" => row.open
    /\ cpend \in GoodSnapshots(book) \cup {None}
    /\ ctimer # None => Faithful(book, ctimer)
    /\ cwire \in Seq(GoodSnapshots(book))

HubOK ==
    /\ HubTypeOK
    /\ preview \in GoodSnapshots(book) \cup {None}
    /\ init => initRow \in GoodRows(book)

\* What the kiosk holds and is sent.
KioskOK ==
    /\ KioskTypeOK
    /\ inbox \in Seq(GoodFrames(book))
    /\ poll \in GoodSnapshots(book) \cup {None, Failed}
    /\ shown \in GoodSnapshots(book) \cup {None}

FaultsOK == faults \in 0..MaxFaults

IInv == SessionOK /\ ClerkOK /\ HubOK /\ KioskOK /\ FaultsOK

-----------------------------------------------------------------------------

LEMMA NotASnapshot == None \notin Snapshots /\ Failed \notin Snapshots /\ None # Failed
  BY NoneAssumption, SMT DEF Snapshots, Content, Bare

\* What is made of a row that was read once is faithful: the row itself, with or
\* without the workspace's rows, and display_snapshot of it.
LEMMA SnapshotGood ==
    ASSUME IInv, NEW r \in GoodRows(book), NEW c \in {r.val, Bare}
    PROVE  Committed(r, c) \in GoodSnapshots(book) /\ Snapshot(r, c) \in GoodSnapshots(book)
  <1>1. Committed(r, c) \in GoodSnapshots(book)
      BY DEF Committed, GoodSnapshots, GoodRows, Faithful, Snapshots, Rows, Content
  <1>2. Current(r) => preview \in GoodSnapshots(book)
      BY DEF IInv, HubOK, Current
  <1>3. QED
      BY <1>1, <1>2 DEF Snapshot

LEMMA NothingSent ==
    /\ \A b : <<>> \in Seq(GoodSnapshots(b)) /\ <<>> \in Seq(GoodFrames(b))
    /\ <<>> \in Seq(Snapshots)
  BY EmptySeq

\* A cached preview that is kept, replaced or forgotten, with no snapshot being
\* built.
LEMMA CacheGood ==
    ASSUME IInv, NoInit, Forgotten \/ UNCHANGED <<preview, counter>>,
           joined' \in BOOLEAN, zombie' \in BOOLEAN, closing' \in BOOLEAN, UNCHANGED book
    PROVE  HubOK'
  <1>1. NoRow \in Rows
      BY BoundAssumption DEF NoRow, Rows, Content
  <1>2. preview' \in GoodSnapshots(book) \cup {None} /\ counter' \in Nat
        /\ preview' \in Snapshots \cup {None}
      BY DEF IInv, HubOK, HubTypeOK, Forgotten
  <1>3. QED
      BY <1>1, <1>2 DEF HubOK, HubTypeOK, NoInit

\* The overlay keeps the cached preview or drops it.
LEMMA OverlaidGood ==
    ASSUME IInv, NEW r, Overlaid(r)
    PROVE  /\ preview' \in GoodSnapshots(book) \cup {None}
           /\ preview' \in Snapshots \cup {None}
           /\ counter' \in Nat
  BY DEF IInv, HubOK, HubTypeOK, Overlaid, Current

LEMMA QueuedGood ==
    ASSUME IInv, NEW f \in GoodFrames(book), inbox' = inbox \/ inbox' = Append(inbox, f)
    PROVE  /\ inbox' \in Seq(GoodFrames(book))
           /\ inbox' \in Seq([kind : FrameKinds, snap : Snapshots \cup {None}])
  <1>1. inbox' \in Seq(GoodFrames(book))
      BY DEF IInv, KioskOK
  <1>2. GoodFrames(book) \subseteq [kind : FrameKinds, snap : Snapshots \cup {None}]
      BY DEF GoodFrames
  <1>3. QED
      BY <1>1, <1>2, SeqMonotonic

LEMMA BroadcastGood ==
    ASSUME IInv, NEW f \in GoodFrames(book), Broadcast(f)
    PROVE  /\ inbox' \in Seq(GoodFrames(book))
           /\ inbox' \in Seq([kind : FrameKinds, snap : Snapshots \cup {None}])
  BY QueuedGood DEF Broadcast

LEMMA FrameGood ==
    ASSUME IInv, NEW x \in GoodSnapshots(book), NEW k \in {"init", "update", "preview"}
    PROVE  Frame(k, x) \in GoodFrames(book)
  BY DEF Frame, GoodFrames, GoodSnapshots, FrameKinds

\* A commit appends to the book and leaves what was faithful faithful.
LEMMA AppendGood ==
    ASSUME NEW b \in Seq(Content), NEW v \in Content
    PROVE  /\ GoodSnapshots(b) \subseteq GoodSnapshots(Append(b, v))
           /\ GoodFrames(b) \subseteq GoodFrames(Append(b, v))
           /\ GoodRows(b) \subseteq GoodRows(Append(b, v))
           /\ \A x : Faithful(b, x) => Faithful(Append(b, v), x)
           /\ Append(b, v) \in Seq(Content) /\ Len(Append(b, v)) = Len(b) + 1
           /\ \A i \in 1..Len(b) : Append(b, v)[i] = b[i]
           /\ Append(b, v)[Len(b) + 1] = v
  <1> DEFINE a == Append(b, v)
  <1>1. /\ a \in Seq(Content) /\ Len(a) = Len(b) + 1
        /\ \A i \in 1..Len(b) : a[i] = b[i]
        /\ a[Len(b) + 1] = v
        /\ Len(b) \in Nat
      BY AppendProperties, LenProperties
  <1> HIDE DEF a
  <1>2. \A x : Faithful(b, x) => Faithful(a, x)
      BY <1>1 DEF Faithful
  <1>3. GoodSnapshots(b) \subseteq GoodSnapshots(a)
      BY <1>2 DEF GoodSnapshots
  <1>4. GoodFrames(b) \subseteq GoodFrames(a)
      BY <1>3 DEF GoodFrames
  <1>5. GoodRows(b) \subseteq GoodRows(a)
      BY <1>1 DEF GoodRows
  <1>6. QED
      BY <1>1, <1>2, <1>3, <1>4, <1>5 DEF a

LEMMA FaultCounted ==
    ASSUME IInv, faults < MaxFaults, faults' = faults + 1
    PROVE  FaultsOK'
  BY BoundAssumption DEF IInv, FaultsOK

LEMMA AttachCounted ==
    ASSUME IInv, NEW c, Attaches(c)
    PROVE  FaultsOK'
  BY BoundAssumption DEF IInv, FaultsOK, Attaches

LEMMA SessionKept ==
    ASSUME IInv, UNCHANGED <<row, book, saveVars>>
    PROVE  SessionOK'
  BY DEF IInv, SessionOK, SessionTypeOK, saveVars

LEMMA ClerkKept ==
    ASSUME IInv, UNCHANGED <<row, book, put, clerkVars>>
    PROVE  ClerkOK'
  BY DEF IInv, ClerkOK, ClerkTypeOK, clerkVars

LEMMA HubKept ==
    ASSUME IInv, UNCHANGED <<book, hubVars>>
    PROVE  HubOK'
  BY DEF IInv, HubOK, HubTypeOK, hubVars

LEMMA KioskKept ==
    ASSUME IInv, UNCHANGED <<book, kioskVars>>
    PROVE  KioskOK'
  BY DEF IInv, KioskOK, KioskTypeOK, kioskVars

LEMMA FaultsKept ==
    ASSUME IInv, UNCHANGED faults
    PROVE  FaultsOK'
  BY DEF IInv, FaultsOK

-----------------------------------------------------------------------------
(* The clerk's steps.                                                      *)

\* A payload that sendClerkPreview keeps and sends.
LEMMA SendsGood ==
    ASSUME IInv, NEW p \in GoodSnapshots(book), Sends(p)
    PROVE  /\ cpend' \in GoodSnapshots(book) \cup {None}
           /\ cpend' \in Snapshots \cup {None}
           /\ cwire' \in Seq(GoodSnapshots(book)) /\ cwire' \in Seq(Snapshots)
           /\ cseq' \in Nat
  <1>1. cwire' \in Seq(GoodSnapshots(book))
      BY DEF IInv, ClerkOK, Sends
  <1>2. GoodSnapshots(book) \subseteq Snapshots
      BY DEF GoodSnapshots
  <1>3. QED
      BY <1>1, <1>2, SeqMonotonic DEF IInv, ClerkOK, ClerkTypeOK, Sends

LEMMA EditKeeps ==
    ASSUME IInv, Edit
    PROVE  IInv'
  <1>1. form + 1 \in Content /\ book[crev] \in Content
      BY BoundAssumption, ElementOfSeq
      DEF IInv, SessionOK, SessionTypeOK, ClerkOK, ClerkTypeOK, Edit, Content
  <1>2. form + 1 >= book[crev] /\ (row.open => form + 1 >= row.val)
      BY <1>1 DEF IInv, SessionOK, SessionTypeOK, ClerkOK, ClerkTypeOK, Content, Rows
  <1>3. Payload(form + 1) \in GoodSnapshots(book)
      BY <1>1, <1>2 DEF IInv, ClerkOK, ClerkTypeOK, Payload, GoodSnapshots, Snapshots, Faithful
  <1>4. /\ cpend' \in GoodSnapshots(book) \cup {None}
        /\ cpend' \in Snapshots \cup {None}
        /\ cwire' \in Seq(GoodSnapshots(book)) /\ cwire' \in Seq(Snapshots)
        /\ cseq' \in Nat
    <2>1. CASE Sends(Payload(form + 1))
        BY <1>3, <2>1, SendsGood
    <2>2. CASE UNCHANGED <<cseq, cpend, cwire>>
        BY <2>2 DEF IInv, ClerkOK, ClerkTypeOK
    <2>3. QED
        BY <2>1, <2>2 DEF Edit
  <1>5. ClerkOK'
      BY <1>1, <1>2, <1>4 DEF IInv, ClerkOK, ClerkTypeOK, Edit, Faithful, saveVars
  <1>6. QED
      BY <1>5, SessionKept, HubKept, KioskKept, FaultsKept DEF IInv, Edit

LEMMA DebounceKeeps ==
    ASSUME IInv, PreviewDebounceFires
    PROVE  IInv'
  <1>1. [rev |-> ctimer.rev, val |-> ctimer.val, seq |-> cseq + 1] \in GoodSnapshots(book)
      BY DEF IInv, ClerkOK, ClerkTypeOK, PreviewDebounceFires, GoodSnapshots, Snapshots, Faithful
  <1>2. ClerkOK'
      BY <1>1, SendsGood DEF IInv, ClerkOK, ClerkTypeOK, PreviewDebounceFires, saveVars
  <1>3. QED
      BY <1>2, SessionKept, HubKept, KioskKept, FaultsKept DEF IInv, PreviewDebounceFires

LEMMA ClerkConnectsKeeps ==
    ASSUME IInv, ClerkConnects
    PROVE  IInv'
  <1>1. cwire' \in Seq(GoodSnapshots(book))
      BY DEF IInv, ClerkOK, ClerkConnects
  <1>2. cwire' \in Seq(Snapshots)
      BY <1>1, SeqMonotonic DEF GoodSnapshots
  <1>3. ClerkOK'
      BY <1>1, <1>2 DEF IInv, ClerkOK, ClerkTypeOK, ClerkConnects, saveVars
  <1>4. QED
      BY <1>3, SessionKept, HubKept, KioskKept, FaultsKept DEF IInv, ClerkConnects

LEMMA ClerkDropsKeeps ==
    ASSUME IInv, ClerkDrops
    PROVE  IInv'
  <1>1. ClerkOK'
      BY NothingSent DEF IInv, ClerkOK, ClerkTypeOK, ClerkDrops, saveVars
  <1>2. QED
      BY <1>1, SessionKept, HubKept, KioskKept, FaultCounted DEF IInv, ClerkDrops

LEMMA ClerkReopensKeeps ==
    ASSUME IInv, ClerkReopens
    PROVE  IInv'
  <1>1. ctimer' = [rev |-> row.rev, val |-> row.val]
      BY DEF ClerkReopens
  <1>2. /\ row.rev \in Nat /\ row.val \in Content
        /\ row.rev \in 1..Len(book) /\ book[row.rev] = row.val
      BY DEF IInv, SessionOK, SessionTypeOK, Rows, GoodRows
  <1>3. ctimer' \in [rev : Nat, val : Content] /\ Faithful(book, ctimer')
      BY <1>1, <1>2 DEF Faithful, Content
  <1>4. ClerkOK'
      BY <1>3 DEF IInv, ClerkOK, ClerkTypeOK, ClerkReopens, saveVars
  <1>5. QED
      BY <1>4, SessionKept, HubKept, KioskKept, FaultCounted DEF IInv, ClerkReopens

-----------------------------------------------------------------------------
(* Saves and the end of the session.                                       *)

LEMMA SaveCommitsKeeps ==
    ASSUME IInv, SaveCommits
    PROVE  IInv'
  <1>1. book \in Seq(Content) /\ form \in Content /\ Len(book) = row.rev /\ row \in Rows
      BY DEF IInv, SessionOK, SessionTypeOK, ClerkOK, ClerkTypeOK
  <1>2. book' = Append(book, form)
      BY DEF SaveCommits
  <1>3. /\ GoodSnapshots(book) \subseteq GoodSnapshots(book')
        /\ GoodFrames(book) \subseteq GoodFrames(book')
        /\ GoodRows(book) \subseteq GoodRows(book')
        /\ \A x : Faithful(book, x) => Faithful(book', x)
        /\ book' \in Seq(Content) /\ Len(book') = Len(book) + 1
        /\ \A i \in 1..Len(book) : book'[i] = book[i]
        /\ book'[Len(book) + 1] = form
      BY <1>1, <1>2, AppendGood
  <1>4. row' \in Rows /\ row'.rev = row.rev + 1 /\ row'.val = form /\ row'.open = row.open
    <2>1. /\ row.rev \in Nat /\ row.open \in BOOLEAN
          /\ row = [rev |-> row.rev, val |-> row.val, open |-> row.open]
        BY <1>1 DEF Rows
    <2>2. row' = [rev |-> row.rev + 1, val |-> form, open |-> row.open]
        BY <2>1 DEF SaveCommits
    <2>3. QED
        BY <1>1, <2>1, <2>2 DEF Rows
  <1>5. SessionOK'
    <2>1. row' \in GoodRows(book')
        BY <1>1, <1>3, <1>4 DEF GoodRows, Rows
    <2>2. QED
        BY <1>1, <1>3, <1>4, <2>1 DEF IInv, SessionOK, SessionTypeOK, SaveCommits
  <1>6. ClerkOK'
    <2>1. cwire \in Seq(GoodSnapshots(book'))
        BY <1>3, SeqMonotonic DEF IInv, ClerkOK
    <2>2. crev \in 1..Len(book') /\ form >= book'[crev]
        BY <1>1, <1>3 DEF IInv, ClerkOK, Rows
    <2>3. form >= row'.val
        BY <1>1, <1>4 DEF Content
    <2>4. cpend \in GoodSnapshots(book') \cup {None}
        BY <1>3 DEF IInv, ClerkOK
    <2>5. ctimer # None => Faithful(book', ctimer)
        BY <1>3 DEF IInv, ClerkOK
    <2>6. ClerkTypeOK'
        BY DEF IInv, ClerkOK, ClerkTypeOK, SaveCommits, clerkVars
    <2>7. QED
        BY <1>4, <2>1, <2>2, <2>3, <2>4, <2>5, <2>6 DEF ClerkOK, SaveCommits, clerkVars
  <1>7. HubOK'
      BY <1>3 DEF IInv, HubOK, HubTypeOK, SaveCommits, hubVars
  <1>8. KioskOK'
    <2>1. inbox \in Seq(GoodFrames(book'))
        BY <1>3, SeqMonotonic DEF IInv, KioskOK
    <2>2. QED
        BY <1>3, <2>1 DEF IInv, KioskOK, KioskTypeOK, SaveCommits, kioskVars
  <1>9. QED
      BY <1>5, <1>6, <1>7, <1>8, FaultsKept DEF IInv, SaveCommits

LEMMA SaveAnsweredKeeps ==
    ASSUME IInv, SaveAnswered
    PROVE  IInv'
  <1>1. SessionOK'
      BY DEF IInv, SessionOK, SessionTypeOK, SaveAnswered
  <1>2. row.open /\ form >= row.val /\ row.rev \in 1..Len(book) /\ book[row.rev] = row.val
      BY DEF IInv, SessionOK, SessionTypeOK, ClerkOK, SaveAnswered, GoodRows
  <1>3. /\ ctimer' \in [rev : Nat, val : Content] \cup {None}
        /\ ctimer' # None => Faithful(book, ctimer')
    <2>1. CASE form = row.val
      <3>1. ctimer' = [rev |-> row.rev, val |-> form]
          BY <2>1 DEF SaveAnswered
      <3>2. QED
          BY <1>2, <3>1
          DEF IInv, SessionOK, SessionTypeOK, ClerkOK, ClerkTypeOK, Rows, Faithful
    <2>2. CASE form # row.val
        BY <2>2 DEF IInv, ClerkOK, ClerkTypeOK, SaveAnswered
    <2>3. QED
        BY <2>1, <2>2
  <1>4. ClerkOK'
      BY <1>2, <1>3
      DEF IInv, SessionOK, SessionTypeOK, ClerkOK, ClerkTypeOK, Rows, SaveAnswered
  <1>5. QED
      BY <1>1, <1>4, HubKept, KioskKept, FaultsKept DEF IInv, SaveAnswered

LEMMA StateEmittedKeeps ==
    ASSUME IInv, StateEmitted
    PROVE  IInv'
  <1>1. SessionOK'
      BY DEF IInv, SessionOK, SessionTypeOK, StateEmitted, Answered
  <1>2. ClerkOK'
      BY DEF IInv, ClerkOK, ClerkTypeOK, StateEmitted, Answered, clerkVars
  <1>3. HubOK' /\ KioskOK' /\ FaultsOK'
    <2> DEFINE Sent(f) ==
                 f \in GoodFrames(book) /\ Broadcast(f)
                 /\ (Overlaid(row) \/ UNCHANGED <<preview, counter>>)
    <2>1. CASE joined \/ zombie \/ csock
      <3>1. \E f : Sent(f) /\ FaultsOK'
        <4>1. ASSUME NEW c \in {row.val, Bare}, Emits(c)
              PROVE  Sent(Frame("update", Snapshot(row, c))) /\ FaultsOK'
            BY <4>1, SnapshotGood, FrameGood, AttachCounted DEF IInv, SessionOK, Emits
        <4>2. ASSUME EmitsFallback
              PROVE  Sent(Frame("update", Committed(row, Bare))) /\ FaultsOK'
            BY <4>2, SnapshotGood, FrameGood, AttachCounted DEF IInv, SessionOK, EmitsFallback
        <4>3. QED
            BY <2>1, <4>1, <4>2 DEF StateEmitted
      <3>2. PICK f : Sent(f) /\ FaultsOK'
          BY <3>1
      <3>3. preview' \in GoodSnapshots(book) \cup {None} /\ counter' \in Nat
            /\ preview' \in Snapshots \cup {None}
          BY <3>2, OverlaidGood DEF IInv, HubOK, HubTypeOK
      <3>4. HubOK'
          BY <3>3 DEF IInv, HubOK, HubTypeOK, StateEmitted
      <3>5. KioskOK'
          BY <3>2, BroadcastGood DEF IInv, KioskOK, KioskTypeOK, StateEmitted
      <3>6. QED
          BY <3>2, <3>4, <3>5
    <2>2. CASE ~(joined \/ zombie \/ csock)
        BY <2>2, HubKept, KioskKept, FaultsKept DEF StateEmitted, hubVars, kioskVars
    <2>3. QED
        BY <2>1, <2>2
  <1>4. QED
      BY <1>1, <1>2, <1>3 DEF IInv

\* The page leaves a session whose row is closed.
LEMMA ClerkLeavesGood ==
    ASSUME IInv, ClerkLeaves, UNCHANGED <<book, put>>, put = "none", row'.open = FALSE
    PROVE  ClerkOK'
  <1>1. 0 \in Content /\ 1 \in 1..Len(book) /\ 0 >= book[1]
      BY BoundAssumption DEF IInv, SessionOK, Content
  <1>2. QED
      BY <1>1 DEF IInv, ClerkOK, ClerkTypeOK, ClerkLeaves

\* The row closes and keeps its revision.
LEMMA RowCloses ==
    ASSUME IInv, row' = [row EXCEPT !.open = FALSE], UNCHANGED <<book, put>>, emit' \in BOOLEAN
    PROVE  SessionOK' /\ row'.open = FALSE
  <1>1. row' \in Rows /\ row'.rev = row.rev /\ row'.val = row.val /\ row'.open = FALSE
      BY DEF IInv, SessionOK, SessionTypeOK, Rows
  <1>2. QED
      BY <1>1 DEF IInv, SessionOK, SessionTypeOK, GoodRows

LEMMA SessionClosesKeeps ==
    ASSUME IInv, SessionCloses
    PROVE  IInv'
  <1>1. SessionOK' /\ row'.open = FALSE
      BY RowCloses DEF SessionCloses, saveVars, IInv, SessionOK, SessionTypeOK
  <1>2. ClerkOK'
      BY <1>1, ClerkLeavesGood DEF SessionCloses, saveVars
  <1>3. HubOK'
      BY DEF IInv, HubOK, HubTypeOK, SessionCloses
  <1>4. QED
      BY <1>1, <1>2, <1>3, KioskKept, FaultsKept DEF IInv, SessionCloses

LEMMA SessionCancelledKeeps ==
    ASSUME IInv, SessionCancelled
    PROVE  IInv'
  <1>1. SessionOK' /\ row'.open = FALSE
      BY RowCloses DEF SessionCancelled
  <1>2. ClerkOK'
      BY <1>1, ClerkLeavesGood DEF SessionCancelled
  <1>3. HubOK'
      BY DEF IInv, HubOK, HubTypeOK, SessionCancelled, Forgotten
  <1>4. QED
      BY <1>1, <1>2, <1>3, KioskKept, FaultsKept DEF IInv, SessionCancelled

LEMMA TokenClosedKeeps ==
    ASSUME IInv, TokenClosed
    PROVE  IInv'
  <1>1. Frame("close", None) \in GoodFrames(book)
      BY DEF Frame, GoodFrames, FrameKinds
  <1>2. KioskOK'
      BY <1>1, BroadcastGood DEF IInv, KioskOK, KioskTypeOK, TokenClosed
  <1>3. HubOK'
      BY CacheGood DEF TokenClosed
  <1>4. SessionOK'
      BY DEF IInv, SessionOK, SessionTypeOK, TokenClosed
  <1>5. QED
      BY <1>2, <1>3, <1>4, ClerkKept, FaultsKept DEF IInv, TokenClosed

-----------------------------------------------------------------------------
(* The hub.                                                                *)

\* A preview is labelled with the revision its clerk knew: the snapshot the
\* hub makes of it is as faithful as what was sent.
LEMMA PreviewHandledKeeps ==
    ASSUME IInv, PreviewHandled
    PROVE  IInv'
  <1> DEFINE p == Head(cwire)
             snap == [rev |-> Labelled(p), val |-> p.val, seq |-> Sequenced(p)]
  <1>1. p \in GoodSnapshots(book) /\ cwire' \in Seq(GoodSnapshots(book))
      BY HeadTailProperties DEF IInv, ClerkOK, PreviewHandled
  <1>2. snap \in GoodSnapshots(book)
      BY <1>1 DEF IInv, HubOK, HubTypeOK, Labelled, Sequenced, Greater, GoodSnapshots, Snapshots,
                  Faithful
  <1>3. cwire' \in Seq(Snapshots)
      BY <1>1, SeqMonotonic DEF GoodSnapshots
  <1>4. ClerkOK'
      BY <1>1, <1>3 DEF IInv, ClerkOK, ClerkTypeOK, PreviewHandled, saveVars
  <1>5. HubOK'
    <2>1. snap \in Snapshots /\ snap.seq \in Nat
        BY <1>2 DEF GoodSnapshots, Snapshots
    <2>2. preview' = snap /\ counter' = snap.seq
        BY DEF PreviewHandled
    <2> HIDE DEF snap
    <2>3. QED
        BY <1>2, <2>1, <2>2 DEF IInv, HubOK, HubTypeOK, PreviewHandled
  <1>6. KioskOK'
    <2>1. Frame("preview", snap) \in GoodFrames(book)
        BY <1>2, FrameGood
    <2>2. Broadcast(Frame("preview", snap))
        BY DEF PreviewHandled
    <2> HIDE DEF snap
    <2>3. QED
        BY <2>1, <2>2, BroadcastGood DEF IInv, KioskOK, KioskTypeOK, PreviewHandled
  <1>7. QED
      BY <1>4, <1>5, <1>6, SessionKept, FaultsKept DEF IInv, PreviewHandled

LEMMA NoInitGood == NoRow \in Rows
  BY BoundAssumption DEF NoRow, Rows, Content

LEMMA InitSendsKeeps ==
    ASSUME IInv, InitSends
    PROVE  IInv'
  <1>1. initRow \in GoodRows(book)
      BY DEF IInv, HubOK, InitSends
  <1>2. PICK c \in {initRow.val, Bare} :
            Attaches(c) /\ inbox' = Append(inbox, Frame("init", Snapshot(initRow, c)))
      BY DEF InitSends
  <1>3. Frame("init", Snapshot(initRow, c)) \in GoodFrames(book)
      BY <1>1, SnapshotGood, FrameGood
  <1>4. /\ inbox' \in Seq(GoodFrames(book))
        /\ inbox' \in Seq([kind : FrameKinds, snap : Snapshots \cup {None}])
      BY <1>2, <1>3, QueuedGood
  <1>5. KioskOK'
      BY <1>4 DEF IInv, KioskOK, KioskTypeOK, InitSends
  <1>6. HubOK'
      BY NoInitGood, OverlaidGood DEF IInv, HubOK, HubTypeOK, InitSends, NoInit
  <1>7. QED
      BY <1>2, <1>5, <1>6, SessionKept, ClerkKept, AttachCounted DEF IInv, InitSends, saveVars

\* The socket is closed, which carries nothing.
LEMMA InitFailsKeeps ==
    ASSUME IInv, InitFails
    PROVE  IInv'
  <1>1. Frame("close", None) \in GoodFrames(book)
      BY DEF Frame, GoodFrames, FrameKinds
  <1>2. /\ inbox' \in Seq(GoodFrames(book))
        /\ inbox' \in Seq([kind : FrameKinds, snap : Snapshots \cup {None}])
      BY <1>1, QueuedGood DEF InitFails
  <1>3. KioskOK'
      BY <1>2 DEF IInv, KioskOK, KioskTypeOK, InitFails
  <1>4. HubOK'
      BY CacheGood DEF IInv, HubOK, HubTypeOK, InitFails, LastLeaves
  <1>5. QED
      BY <1>3, <1>4, SessionKept, ClerkKept, FaultCounted DEF IInv, InitFails, saveVars

LEMMA DropNoticedKeeps ==
    ASSUME IInv, DropNoticed
    PROVE  IInv'
  <1>1. HubOK'
    <2>1. preview' \in GoodSnapshots(book) \cup {None} /\ counter' \in Nat
          /\ preview' \in Snapshots \cup {None}
        BY DEF IInv, HubOK, HubTypeOK, DropNoticed, LastLeaves, Forgotten
    <2>2. QED
        BY <2>1 DEF IInv, HubOK, HubTypeOK, DropNoticed
  <1>2. QED
      BY <1>1, SessionKept, ClerkKept, KioskKept, FaultsKept DEF IInv, DropNoticed, saveVars

\* A kiosk that has lost its socket shows what it showed.
LEMMA OfflineGood ==
    ASSUME IInv, Offline, UNCHANGED <<book, poll, shown>>
    PROVE  KioskOK'
  BY DEF IInv, KioskOK, KioskTypeOK, Offline

LEMMA RestartKeeps ==
    ASSUME IInv, Restart
    PROVE  IInv'
  <1>1. SessionOK'
      BY DEF IInv, SessionOK, SessionTypeOK, Restart, Answered
  <1>2. ClerkOK'
      BY NothingSent DEF IInv, ClerkOK, ClerkTypeOK, Restart, Answered
  <1>3. HubOK'
      BY CacheGood DEF Restart
  <1>4. KioskOK'
    <2>1. CASE sock = "closed"
        BY <2>1 DEF IInv, KioskOK, KioskTypeOK, Restart
    <2>2. CASE sock # "closed"
        BY <2>2, OfflineGood DEF Restart
    <2>3. QED
        BY <2>1, <2>2
  <1>5. QED
      BY <1>1, <1>2, <1>3, <1>4, FaultCounted DEF IInv, Restart

-----------------------------------------------------------------------------
(* The kiosk.                                                              *)

LEMMA ConnectKeeps ==
    ASSUME IInv, Connect
    PROVE  IInv'
  <1>1. HubOK'
      BY DEF IInv, SessionOK, SessionTypeOK, HubOK, HubTypeOK, Connect, Registered
  <1>2. KioskOK'
    <2>1. CASE row.open
        BY <2>1 DEF IInv, KioskOK, KioskTypeOK, Connect
    <2>2. CASE ~row.open
        BY <2>2, OfflineGood DEF Connect
    <2>3. QED
        BY <2>1, <2>2
  <1>3. QED
      BY <1>1, <1>2, SessionKept, ClerkKept, FaultsKept DEF IInv, Connect, saveVars

LEMMA KioskDropsKeeps ==
    ASSUME IInv, KioskDrops
    PROVE  IInv'
  <1>1. HubOK'
      BY CacheGood DEF IInv, HubOK, HubTypeOK, KioskDrops
  <1>2. QED
      BY <1>1, OfflineGood, SessionKept, ClerkKept, FaultCounted DEF IInv, KioskDrops, saveVars

LEMMA ProbeAnsweredKeeps ==
    ASSUME IInv, ProbeAnswered
    PROVE  IInv'
  <1>1. HubOK'
      BY OverlaidGood DEF IInv, HubOK, HubTypeOK, ProbeAnswered
  <1>2. QED
      BY <1>1, SessionKept, ClerkKept, KioskKept, FaultsKept DEF IInv, ProbeAnswered, saveVars

LEMMA ProbeFailsKeeps ==
    ASSUME IInv, ProbeFails
    PROVE  IInv'
  <1>1. HubOK'
      BY CacheGood DEF IInv, HubOK, HubTypeOK, ProbeFails, LastLeaves
  <1>2. QED
      BY <1>1, OfflineGood, SessionKept, ClerkKept, FaultsKept DEF IInv, ProbeFails, saveVars

\* What the kiosk applies or ignores.
LEMMA AppliedGood ==
    ASSUME IInv, NEW k, NEW x \in GoodSnapshots(book), Applied(k, x)
    PROVE  /\ shown' \in GoodSnapshots(book) \cup {None}
           /\ shown' \in Snapshots \cup {None}
  BY DEF IInv, KioskOK, KioskTypeOK, Applied, GoodSnapshots

LEMMA FrameArrivesKeeps ==
    ASSUME IInv, FrameArrives
    PROVE  IInv'
  <1> DEFINE f == Head(inbox)
  <1>1. /\ f \in GoodFrames(book) /\ Tail(inbox) \in Seq(GoodFrames(book))
        /\ Tail(inbox) \in Seq([kind : FrameKinds, snap : Snapshots \cup {None}])
      BY HeadTailProperties DEF IInv, KioskOK, KioskTypeOK, FrameArrives
  <1>2. KioskOK'
    <2>1. CASE f.kind = "close"
        BY <2>1, OfflineGood DEF FrameArrives
    <2>2. CASE f.kind # "close"
      <3>1. f.snap \in GoodSnapshots(book)
          BY <1>1, <2>2 DEF GoodFrames
      <3>2. Applied(f.kind, f.snap) /\ inbox' = Tail(inbox)
            /\ UNCHANGED <<book, sock, conn, polling, poll>>
          BY <2>2 DEF FrameArrives
      <3>3. /\ shown' \in GoodSnapshots(book) \cup {None}
            /\ shown' \in Snapshots \cup {None}
          BY <3>1, <3>2, AppliedGood
      <3>4. QED
          BY <1>1, <3>2, <3>3 DEF IInv, KioskOK, KioskTypeOK
    <2>3. QED
        BY <2>1, <2>2
  <1>3. QED
      BY <1>2, SessionKept, ClerkKept, HubKept, FaultsKept DEF IInv, FrameArrives, saveVars

LEMMA PollAnsweredKeeps ==
    ASSUME IInv, PollAnswered
    PROVE  IInv'
  <1>1. row \in GoodRows(book)
      BY DEF IInv, SessionOK
  <1>2. HubOK' /\ KioskOK' /\ FaultsOK'
    <2>1. CASE row.open
      <3>1. PICK c \in {row.val, Bare} : Attaches(c) /\ Applied("update", Snapshot(row, c))
          BY <2>1 DEF PollAnswered
      <3>2. HubOK'
          BY <2>1, OverlaidGood DEF IInv, HubOK, HubTypeOK, PollAnswered
      <3>3. KioskOK'
          BY <1>1, <2>1, <3>1, SnapshotGood, AppliedGood
          DEF IInv, KioskOK, KioskTypeOK, PollAnswered
      <3>4. QED
          BY <3>1, <3>2, <3>3, AttachCounted
    <2>2. CASE ~row.open
        BY <2>2, FaultsKept
        DEF IInv, HubOK, HubTypeOK, KioskOK, KioskTypeOK, PollAnswered, Unknown
    <2>3. QED
        BY <2>1, <2>2
  <1>3. QED
      BY <1>2, SessionKept, ClerkKept DEF IInv, PollAnswered, saveVars

LEMMA PollLateKeeps ==
    ASSUME IInv, PollLate
    PROVE  IInv'
  <1>1. \A c \in {row.val, Bare} : Snapshot(row, c) \in GoodSnapshots(book)
      BY SnapshotGood DEF IInv, SessionOK
  <1>2. HubOK'
    <2>1. CASE Overlaid(row)
        BY <2>1, OverlaidGood DEF IInv, HubOK, HubTypeOK, PollLate
    <2>2. CASE UNCHANGED <<preview, counter>>
        BY <2>2 DEF IInv, HubOK, HubTypeOK, PollLate
    <2>3. QED
        BY <2>1, <2>2 DEF PollLate
  <1>3. KioskOK'
      BY <1>1 DEF IInv, KioskOK, KioskTypeOK, PollLate, GoodSnapshots
  <1>4. QED
      BY <1>2, <1>3, SessionKept, ClerkKept, FaultCounted DEF IInv, PollLate, saveVars

LEMMA LatePollArrivesKeeps ==
    ASSUME IInv, LatePollArrives
    PROVE  IInv'
  <1>1. KioskOK'
    <2>1. CASE poll = Failed
        BY <2>1 DEF IInv, KioskOK, KioskTypeOK, LatePollArrives, Unknown
    <2>2. CASE poll # Failed
        BY <2>2, AppliedGood DEF IInv, KioskOK, KioskTypeOK, LatePollArrives
    <2>3. QED
        BY <2>1, <2>2
  <1>2. QED
      BY <1>1, SessionKept, ClerkKept, HubKept, FaultsKept DEF IInv, LatePollArrives, saveVars

-----------------------------------------------------------------------------

LEMMA StutterKeeps ==
    ASSUME IInv, UNCHANGED vars
    PROVE  IInv'
  BY SessionKept, ClerkKept, HubKept, KioskKept, FaultsKept DEF IInv, vars, saveVars

LEMMA NextKeeps ==
    ASSUME IInv, Next
    PROVE  IInv'
  <1>1. ASSUME ClerkStep PROVE IInv'
      BY <1>1, DebounceKeeps, ClerkConnectsKeeps, SaveCommitsKeeps, SaveAnsweredKeeps
      DEF ClerkStep
  <1>2. ASSUME BackendStep PROVE IInv'
      BY <1>2, PreviewHandledKeeps, StateEmittedKeeps, TokenClosedKeeps, InitSendsKeeps,
         DropNoticedKeeps
      DEF BackendStep
  <1>3. ASSUME KioskStep PROVE IInv'
      BY <1>3, ConnectKeeps, FrameArrivesKeeps, PollAnsweredKeeps, LatePollArrivesKeeps,
         ProbeAnsweredKeeps, ProbeFailsKeeps
      DEF KioskStep
  <1>4. ASSUME Operator PROVE IInv'
      BY <1>4, EditKeeps, ClerkReopensKeeps, SessionClosesKeeps, SessionCancelledKeeps
      DEF Operator
  <1>5. ASSUME Fault PROVE IInv'
      BY <1>5, ClerkDropsKeeps, KioskDropsKeeps, RestartKeeps, PollLateKeeps,
         InitFailsKeeps
      DEF Fault
  <1>6. QED
      BY <1>1, <1>2, <1>3, <1>4, <1>5 DEF Next

LEMMA InitGood ==
    ASSUME Init
    PROVE  IInv
  <1>1. 0 \in Content
      BY BoundAssumption DEF Content
  <1>2. /\ book \in Seq(Content) /\ Len(book) = 1 /\ book[1] = 0
        /\ row \in Rows /\ row.rev = 1 /\ row.val = 0
      BY <1>1 DEF Init, Rows
  <1>3. SessionOK
    <2>1. row \in GoodRows(book)
        BY <1>2 DEF GoodRows
    <2>2. put \in {"none", "committed", "answered"} /\ emit \in BOOLEAN
        BY DEF Init
    <2>3. Len(book) = row.rev /\ 1 \in 1..Len(book)
        BY <1>2
    <2>4. QED
        BY <1>2, <2>1, <2>2, <2>3, Zenon DEF SessionOK, SessionTypeOK
  <1>4. ctimer \in [rev : Nat, val : Content] /\ Faithful(book, ctimer)
      BY <1>1, <1>2 DEF Init, Faithful
  <1>5. ClerkOK
    <2>1. form = 0 /\ crev = 1 /\ cseq = 0 /\ cpend = None /\ csock = FALSE /\ cwire = <<>>
          /\ put = "none"
        BY DEF Init
    <2>2. ClerkTypeOK
        BY <1>1, <1>4, <2>1, NothingSent DEF ClerkTypeOK
    <2>3. QED
        BY <1>2, <1>4, <2>1, <2>2, NothingSent DEF ClerkOK
  <1>6. HubOK
      BY NoInitGood DEF Init, HubOK, HubTypeOK
  <1>7. KioskOK
      BY DEF Init, KioskOK, KioskTypeOK
  <1>8. FaultsOK
      BY BoundAssumption DEF Init, FaultsOK
  <1>9. QED
      BY <1>3, <1>5, <1>6, <1>7, <1>8 DEF IInv

LEMMA Inductive == Spec => []IInv
  <1>1. Init => IInv
      BY InitGood
  <1>2. IInv /\ [Next]_vars => IInv'
      BY NextKeeps, StutterKeeps
  <1>3. QED
      BY <1>1, <1>2, PTL DEF Spec

\* Every variable of the clerk's page, the hub and the kiosk keeps its type,
\* for any number of keystrokes, of previews on the wire and of faults.
THEOREM TypeCorrect == Spec => []TypeOK
  <1>1. IInv => TypeOK
      BY DEF IInv, TypeOK, SessionOK, ClerkOK, HubOK, KioskOK, FaultsOK
  <1>2. QED
      BY <1>1, Inductive, PTL

\* What the kiosk shows under a revision is never older than what was
\* committed as that revision: previews that overtake a save, broadcasts of
\* it, polls that answer late and sockets that come back included.  Only what is
\* built without the workspace's rows has no content of its own.
THEOREM ShownIsFaithful == Spec => []ShowsItsRevision
  <1>1. IInv => ShowsItsRevision
    <2> SUFFICES ASSUME IInv, shown # None
                 PROVE  /\ shown.rev <= row.rev
                        /\ shown.val # Bare => shown.val >= book[shown.rev]
        BY DEF ShowsItsRevision
    <2>1. shown \in GoodSnapshots(book) /\ Len(book) = row.rev /\ row.rev \in Nat
        BY DEF IInv, KioskOK, SessionOK, SessionTypeOK, Rows
    <2>2. QED
        BY <2>1 DEF GoodSnapshots, Faithful
  <1>2. QED
      BY <1>1, Inductive, PTL

-----------------------------------------------------------------------------
(* No save is missed.                                                      *)

\* The kiosk shows the row's revision; a frame on its way carries it; the
\* first snapshot that is being built will.
Caught == shown # None /\ shown.rev = row.rev
Coming == \E i \in 1..Len(inbox) : inbox[i].kind # "close" /\ inbox[i].snap.rev = row.rev
BeingRead == init /\ initRow.rev = row.rev

\* A registered kiosk of an open session has a socket that is up and is not
\* about to be closed, and shows the last save or is about to be sent it.
DeliveryInv ==
    /\ init => joined
    /\ closing => ~row.open
    /\ row.open =>
        /\ sock = "closed" => ~joined /\ inbox = <<>>
        /\ joined => \A i \in 1..Len(inbox) : inbox[i].kind # "close"
        /\ joined /\ ~emit => Caught \/ Coming \/ BeingRead

\* The revisions that are compared are numbers, none of them ahead of the row.
LEMMA Revisions ==
    ASSUME IInv
    PROVE  /\ row.rev \in Nat /\ crev \in Nat /\ cseq \in Nat /\ counter \in Nat
           /\ Len(cwire) \in Nat /\ Len(inbox) \in Nat
           /\ \A x \in GoodSnapshots(book) :
                x # None /\ x.rev \in Nat /\ x.rev <= row.rev /\ x.seq \in Nat
           /\ \A i \in 1..Len(cwire) : cwire[i] \in GoodSnapshots(book)
           /\ \A i \in 1..Len(inbox) :
                inbox[i].kind # "close" => inbox[i].snap \in GoodSnapshots(book)
           /\ preview # None => preview \in GoodSnapshots(book)
           /\ shown # None => shown \in GoodSnapshots(book)
           /\ cpend # None => cpend \in GoodSnapshots(book)
           /\ ctimer # None => ctimer.rev \in Nat
           /\ init => initRow.rev \in Nat /\ initRow.rev <= row.rev
  <1>1. row.rev \in Nat /\ Len(book) = row.rev
      BY DEF IInv, SessionOK, SessionTypeOK, Rows
  <1>2. \A x \in GoodSnapshots(book) :
            x # None /\ x.rev \in Nat /\ x.rev <= row.rev /\ x.seq \in Nat
      BY <1>1, NotASnapshot DEF GoodSnapshots, Snapshots, Faithful
  <1>3. \A i \in 1..Len(cwire) : cwire[i] \in GoodSnapshots(book)
      BY DEF IInv, ClerkOK
  <1>4. \A i \in 1..Len(inbox) : inbox[i] \in GoodFrames(book)
      BY DEF IInv, KioskOK
  <1>5. /\ preview # None => preview \in GoodSnapshots(book)
        /\ shown # None => shown \in GoodSnapshots(book)
        /\ cpend # None => cpend \in GoodSnapshots(book)
      BY DEF IInv, HubOK, KioskOK, ClerkOK
  <1>6. init => initRow.rev \in Nat /\ initRow.rev <= row.rev
      BY <1>1 DEF IInv, HubOK, GoodRows, Rows
  <1>7. ctimer # None => ctimer.rev \in Nat
      BY DEF IInv, ClerkOK, ClerkTypeOK
  <1>8. /\ crev \in Nat /\ cseq \in Nat /\ counter \in Nat
        /\ Len(cwire) \in Nat /\ Len(inbox) \in Nat
      BY LenProperties DEF IInv, ClerkOK, ClerkTypeOK, HubOK, HubTypeOK, KioskOK, KioskTypeOK
  <1>9. QED
      BY <1>1, <1>2, <1>3, <1>4, <1>5, <1>6, <1>7, <1>8 DEF GoodFrames

\* A snapshot built from a row of the last revision has the last revision.
LEMMA SnapshotOfLast ==
    ASSUME IInv, NEW r \in GoodRows(book), NEW c \in {r.val, Bare}, r.rev = row.rev
    PROVE  Snapshot(r, c) \in GoodSnapshots(book) /\ Snapshot(r, c).rev = row.rev
  <1>1. Snapshot(r, c) \in GoodSnapshots(book)
      BY SnapshotGood
  <1>2. CASE Current(r)
      BY <1>1, <1>2, Revisions DEF Snapshot, Current
  <1>3. CASE ~Current(r)
      BY <1>1, <1>3 DEF Snapshot, Committed
  <1>4. QED
      BY <1>1, <1>2, <1>3

\* Nothing the kiosk applies takes the last save away from it.
LEMMA StaysCaught ==
    ASSUME IInv, NEW k, NEW x \in GoodSnapshots(book), Applied(k, x),
           Caught \/ x.rev = row.rev, UNCHANGED row
    PROVE  Caught'
  <1>1. x # None /\ x.rev \in Nat /\ x.rev <= row.rev /\ row.rev \in Nat
        /\ (shown # None => shown.rev \in Nat /\ shown.rev <= row.rev)
      BY Revisions
  <1>2. CASE Ignored(k, x)
      BY <1>1, <1>2 DEF Applied, Ignored, Older, Caught
  <1>3. CASE ~Ignored(k, x)
      BY <1>1, <1>3 DEF Applied, Ignored, Older, Caught
  <1>4. QED
      BY <1>2, <1>3

\* A frame that is appended leaves the others where they are.
LEMMA FrameQueued ==
    ASSUME IInv, NEW f \in GoodFrames(book), inbox' = Append(inbox, f)
    PROVE  /\ Len(inbox') = Len(inbox) + 1
           /\ \A i \in 1..Len(inbox) : inbox'[i] = inbox[i]
           /\ inbox'[Len(inbox) + 1] = f
           /\ Len(inbox) \in Nat
           /\ 1..Len(inbox') = 1..Len(inbox) \cup {Len(inbox) + 1}
  BY AppendProperties, LenProperties DEF IInv, KioskOK

LEMMA DeliveryKept ==
    ASSUME DeliveryInv, UNCHANGED <<row, emit, joined, init, initRow, closing, sock, inbox, shown>>
    PROVE  DeliveryInv'
  BY DEF DeliveryInv, Caught, Coming, BeingRead

\* Of a session that is over nothing more is promised.
LEMMA DeliveryOver ==
    ASSUME row'.open = FALSE, init' => joined'
    PROVE  DeliveryInv'
  BY DEF DeliveryInv

\* Nor of a kiosk that is not registered.
LEMMA DeliveryLost ==
    ASSUME DeliveryInv, UNCHANGED row, closing' => closing, joined' = FALSE, NoInit,
           inbox' = <<>> \/ UNCHANGED <<sock, inbox>>
    PROVE  DeliveryInv'
  BY DEF DeliveryInv, NoInit

\* A frame that does not close the socket.
LEMMA DeliveryQueued ==
    ASSUME IInv, DeliveryInv, NEW f \in GoodFrames(book), f.kind # "close", joined,
           inbox' = Append(inbox, f), UNCHANGED <<row, joined, closing, sock, shown>>,
           emit' = emit \/ f.snap.rev = row.rev,
           init' => joined,
           BeingRead => BeingRead' \/ f.snap.rev = row.rev
    PROVE  DeliveryInv'
  <1>1. /\ 1..Len(inbox') = 1..Len(inbox) \cup {Len(inbox) + 1}
        /\ \A i \in 1..Len(inbox) : inbox'[i] = inbox[i]
        /\ inbox'[Len(inbox) + 1] = f
      BY FrameQueued
  <1>2. row.open => \A i \in 1..Len(inbox') : inbox'[i].kind # "close"
      BY <1>1 DEF DeliveryInv
  <1>3. (Coming \/ f.snap.rev = row.rev) => Coming'
      BY <1>1 DEF Coming
  <1>4. Caught => Caught'
      BY DEF Caught
  <1>5. QED
      BY <1>2, <1>3, <1>4 DEF DeliveryInv

\* The frame that is broadcast carries the last save.
LEMMA EmittedFrame ==
    ASSUME IInv, StateEmitted, joined \/ zombie \/ csock
    PROVE  \E f \in GoodFrames(book) :
               /\ f.kind = "update" /\ f.snap.rev = row.rev /\ Broadcast(f)
               /\ Overlaid(row) \/ UNCHANGED <<preview, counter>>
  <1>1. row \in GoodRows(book)
      BY DEF IInv, SessionOK
  <1>2. ASSUME NEW c \in {row.val, Bare}, Emits(c)
        PROVE  LET f == Frame("update", Snapshot(row, c))
               IN  /\ f \in GoodFrames(book) /\ f.kind = "update" /\ f.snap.rev = row.rev
                   /\ Broadcast(f) /\ Overlaid(row)
    <2>1. Snapshot(row, c) \in GoodSnapshots(book) /\ Snapshot(row, c).rev = row.rev
        BY <1>1, SnapshotOfLast
    <2>2. QED
        BY <1>2, <2>1, FrameGood DEF Emits, Frame
  <1>3. ASSUME EmitsFallback
        PROVE  LET f == Frame("update", Committed(row, Bare))
               IN  /\ f \in GoodFrames(book) /\ f.kind = "update" /\ f.snap.rev = row.rev
                   /\ Broadcast(f) /\ UNCHANGED <<preview, counter>>
    <2>1. Committed(row, Bare) \in GoodSnapshots(book) /\ Committed(row, Bare).rev = row.rev
        BY <1>1, SnapshotGood DEF Committed
    <2>2. QED
        BY <1>3, <2>1, FrameGood DEF EmitsFallback, Frame
  <1>4. QED
      BY <1>2, <1>3 DEF StateEmitted

LEMMA EmitDelivers ==
    ASSUME IInv, DeliveryInv, StateEmitted
    PROVE  DeliveryInv'
  <1>1. UNCHANGED <<row, joined, closing, sock, shown, init, initRow>>
      BY DEF StateEmitted
  <1>2. CASE joined
    <2>1. PICK f \in GoodFrames(book) :
              f.kind = "update" /\ f.snap.rev = row.rev /\ Broadcast(f)
        BY <1>2, EmittedFrame
    <2>2. inbox' = Append(inbox, f)
        BY <1>2, <2>1 DEF Broadcast
    <2>3. QED
        BY <1>1, <1>2, <2>1, <2>2, DeliveryQueued DEF DeliveryInv, BeingRead
  <1>3. CASE ~joined
    <2>1. inbox' = inbox
        BY <1>3 DEF StateEmitted, Emits, EmitsFallback, Broadcast
    <2>2. QED
        BY <1>1, <1>3, <2>1 DEF DeliveryInv
  <1>4. QED
      BY <1>2, <1>3

LEMMA InitDelivers ==
    ASSUME IInv, DeliveryInv, InitSends
    PROVE  DeliveryInv'
  <1>1. initRow \in GoodRows(book) /\ init /\ joined
      BY DEF IInv, HubOK, InitSends, DeliveryInv
  <1>2. PICK c \in {initRow.val, Bare} :
            inbox' = Append(inbox, Frame("init", Snapshot(initRow, c)))
      BY DEF InitSends
  <1> DEFINE f == Frame("init", Snapshot(initRow, c))
  <1>3. f \in GoodFrames(book) /\ f.kind = "init" /\ f.snap = Snapshot(initRow, c)
      BY <1>1, SnapshotGood, FrameGood DEF Frame
  <1>4. BeingRead => f.snap.rev = row.rev
      BY <1>1, <1>3, SnapshotOfLast DEF BeingRead
  <1>5. inbox' = Append(inbox, f) /\ UNCHANGED <<row, joined, closing, sock, shown, emit>>
      BY <1>1, <1>2 DEF InitSends, saveVars
  <1>6. init' = FALSE
      BY DEF InitSends, NoInit
  <1> HIDE DEF f
  <1>7. QED
      BY <1>1, <1>3, <1>4, <1>5, <1>6, DeliveryQueued

\* A socket that is closed for want of a first snapshot is promised nothing.
LEMMA InitFailsDelivers ==
    ASSUME DeliveryInv, InitFails
    PROVE  DeliveryInv'
  <1>1. init /\ joined /\ joined' = FALSE /\ init' = FALSE /\ UNCHANGED <<row, closing, sock>>
      BY DEF InitFails, NoInit, DeliveryInv
  <1>2. QED
      BY <1>1 DEF DeliveryInv

LEMMA PreviewDelivers ==
    ASSUME IInv, DeliveryInv, PreviewHandled
    PROVE  DeliveryInv'
  <1> DEFINE p == Head(cwire)
             snap == [rev |-> Labelled(p), val |-> p.val, seq |-> Sequenced(p)]
             f == Frame("preview", snap)
  <1>1. UNCHANGED <<row, joined, closing, sock, shown, emit, init, initRow>> /\ Broadcast(f)
      BY DEF PreviewHandled, saveVars
  <1>2. CASE joined
    <2>1. p \in GoodSnapshots(book)
        BY HeadTailProperties DEF IInv, ClerkOK, PreviewHandled
    <2>2. snap \in GoodSnapshots(book)
        BY <2>1 DEF IInv, HubOK, HubTypeOK, Labelled, Sequenced, Greater, GoodSnapshots,
                    Snapshots, Faithful
    <2>3. f \in GoodFrames(book) /\ f.kind = "preview"
        BY <2>2, FrameGood DEF Frame
    <2>4. inbox' = Append(inbox, f)
        BY <1>1, <1>2 DEF Broadcast
    <2> HIDE DEF f
    <2>5. QED
        BY <1>1, <1>2, <2>3, <2>4, DeliveryQueued DEF BeingRead
  <1>3. CASE ~joined
    <2> HIDE DEF f
    <2>1. inbox' = inbox
        BY <1>1, <1>3 DEF Broadcast
    <2>2. QED
        BY <1>1, <2>1, DeliveryKept
  <1>4. QED
      BY <1>2, <1>3

\* Either the frame is not the one that carries the last save, or the kiosk is
\* caught up with it.
LEMMA FrameDelivers ==
    ASSUME IInv, DeliveryInv, FrameArrives
    PROVE  DeliveryInv'
  <1> DEFINE f == Head(inbox)
  <1>1. UNCHANGED <<row, joined, closing, emit, init, initRow>>
      BY DEF FrameArrives, hubVars, saveVars
  <1>2. CASE ~row.open
      BY <1>1, <1>2 DEF DeliveryInv
  <1>3. CASE row.open /\ ~joined
      BY <1>1, <1>3 DEF DeliveryInv, FrameArrives, Offline
  <1>4. CASE row.open /\ joined
    <2>1. /\ f = inbox[1] /\ Len(inbox) \in Nat \ {0}
          /\ Len(Tail(inbox)) = Len(inbox) - 1
          /\ \A i \in 1..Len(Tail(inbox)) : Tail(inbox)[i] = inbox[i + 1]
        BY HeadTailProperties, LenProperties, EmptySeq DEF IInv, KioskOK, FrameArrives
    <2>2. f.kind # "close"
        BY <1>4, <2>1 DEF DeliveryInv
    <2>3. inbox' = Tail(inbox) /\ Applied(f.kind, f.snap) /\ UNCHANGED sock
        BY <2>2 DEF FrameArrives
    <2>4. f.snap \in GoodSnapshots(book)
        BY <2>1, <2>2, Revisions
    <2> HIDE DEF f
    <2>5. \A i \in 1..Len(inbox') : inbox'[i].kind # "close"
        BY <1>4, <2>1, <2>3 DEF DeliveryInv
    <2>6. Caught => Caught'
        BY <1>1, <2>3, <2>4, StaysCaught
    <2>7. Coming => Caught' \/ Coming'
      <3> SUFFICES ASSUME NEW i \in 1..Len(inbox),
                          inbox[i].kind # "close", inbox[i].snap.rev = row.rev
                   PROVE  Caught' \/ Coming'
          BY DEF Coming
      <3>1. CASE i = 1
          BY <1>1, <2>1, <2>3, <2>4, <3>1, StaysCaught
      <3>2. CASE i # 1
        <4>1. i - 1 \in 1..Len(inbox') /\ inbox'[i - 1] = inbox[i]
            BY <2>1, <2>3, <3>2
        <4>2. QED
            BY <1>1, <4>1 DEF Coming
      <3>3. QED
          BY <3>1, <3>2
    <2>8. BeingRead => BeingRead'
        BY <1>1 DEF BeingRead
    <2>9. QED
        BY <1>1, <1>4, <2>3, <2>5, <2>6, <2>7, <2>8 DEF DeliveryInv
  <1>5. QED
      BY <1>2, <1>3, <1>4

\* A poll cannot take the last save away either.
LEMMA PollDelivers ==
    ASSUME IInv, DeliveryInv, PollAnswered \/ LatePollArrives
    PROVE  DeliveryInv'
  <1>1. UNCHANGED <<row, joined, closing, emit, init, initRow, sock, inbox>>
      BY DEF PollAnswered, LatePollArrives, hubVars, saveVars
  <1>2. row.open /\ Caught => Caught'
    <2> SUFFICES ASSUME row.open, Caught
                 PROVE  Caught'
        OBVIOUS
    <2>1. CASE PollAnswered
      <3>1. \A c \in {row.val, Bare} : Snapshot(row, c) \in GoodSnapshots(book)
          BY SnapshotGood DEF IInv, SessionOK
      <3>2. QED
          BY <1>1, <2>1, <3>1, StaysCaught DEF PollAnswered
    <2>2. CASE LatePollArrives
      <3>1. CASE poll = Failed
          BY <1>1, <2>2, <3>1 DEF LatePollArrives, Unknown, Caught
      <3>2. CASE poll # Failed
        <4>1. poll \in GoodSnapshots(book) /\ Applied("update", poll)
            BY <2>2, <3>2 DEF IInv, KioskOK, LatePollArrives
        <4>2. QED
            BY <1>1, <4>1, StaysCaught
      <3>3. QED
          BY <3>1, <3>2
    <2>3. QED
        BY <2>1, <2>2
  <1>3. (Coming => Coming') /\ (BeingRead => BeingRead')
      BY <1>1 DEF Coming, BeingRead
  <1>4. QED
      BY <1>1, <1>2, <1>3 DEF DeliveryInv

LEMMA ConnectDelivers ==
    ASSUME IInv, DeliveryInv, Connect
    PROVE  DeliveryInv'
  <1>1. CASE row.open
    <2>1. inbox' = <<>> /\ sock' = "up"
        BY <1>1 DEF Connect, DeliveryInv
    <2>2. \A i \in 1..Len(inbox') : inbox'[i].kind # "close"
        BY <2>1, EmptySeq
    <2>3. QED
        BY <1>1, <2>1, <2>2 DEF Connect, DeliveryInv, BeingRead, Registered, saveVars
  <1>2. CASE ~row.open
      BY <1>2 DEF Connect, DeliveryInv
  <1>3. QED
      BY <1>1, <1>2

LEMMA ClosingDelivers ==
    ASSUME IInv, DeliveryInv, SessionCloses \/ SessionCancelled \/ TokenClosed \/ ProbeFails
    PROVE  DeliveryInv'
  <1>1. CASE SessionCloses \/ SessionCancelled
    <2>1. row' = [row EXCEPT !.open = FALSE] /\ UNCHANGED <<init, joined>>
        BY <1>1 DEF SessionCloses, SessionCancelled
    <2>2. row'.open = FALSE
        BY <2>1 DEF IInv, SessionOK, SessionTypeOK, Rows
    <2>3. QED
        BY <2>1, <2>2, DeliveryOver DEF DeliveryInv
  <1>2. CASE TokenClosed
    <2>1. ~row.open /\ UNCHANGED row /\ init' = FALSE
        BY <1>2 DEF TokenClosed, DeliveryInv, NoInit
    <2>2. row'.open = FALSE
        BY <2>1 DEF IInv, SessionOK, SessionTypeOK, Rows
    <2>3. QED
        BY <2>1, <2>2, DeliveryOver
  <1>3. CASE ProbeFails
      BY <1>3, DeliveryLost DEF ProbeFails, Offline
  <1>4. QED
      BY <1>1, <1>2, <1>3

LEMMA NextDelivers ==
    ASSUME IInv, DeliveryInv, Next
    PROVE  DeliveryInv'
  <1>1. CASE SaveCommits
    <2>1. row' = [row EXCEPT !.rev = @ + 1, !.val = form] /\ emit' = TRUE
          /\ UNCHANGED <<hubVars, kioskVars>>
        BY <1>1 DEF SaveCommits
    <2>2. row'.open = row.open
        BY <2>1 DEF IInv, SessionOK, SessionTypeOK, Rows
    <2>3. QED
        BY <2>1, <2>2 DEF DeliveryInv, hubVars, kioskVars
  <1>2. CASE \/ Edit \/ PreviewDebounceFires \/ ClerkConnects \/ ClerkDrops \/ ClerkReopens
             \/ SaveAnswered
      BY <1>2, DeliveryKept
      DEF Edit, PreviewDebounceFires, ClerkConnects, ClerkDrops, ClerkReopens, SaveAnswered,
          hubVars, kioskVars, saveVars
  <1>3. CASE DropNoticed \/ PollLate \/ ProbeAnswered
      BY <1>3, DeliveryKept DEF DropNoticed, PollLate, ProbeAnswered, kioskVars, saveVars
  <1>4. CASE KioskDrops
      BY <1>4, DeliveryLost DEF KioskDrops, Offline
  <1>5. CASE Restart
      BY <1>5, DeliveryLost DEF Restart, Offline
  <1>6. QED
      BY <1>1, <1>2, <1>3, <1>4, <1>5, EmitDelivers, InitDelivers, InitFailsDelivers,
         PreviewDelivers, FrameDelivers, PollDelivers, ConnectDelivers, ClosingDelivers
      DEF Next, ClerkStep, BackendStep, KioskStep, Operator, Fault

LEMMA Delivered == Spec => []DeliveryInv
  <1>1. Init => DeliveryInv
      BY DEF Init, DeliveryInv
  <1>2. IInv /\ DeliveryInv /\ [Next]_vars => DeliveryInv'
      BY NextDelivers, DeliveryKept DEF vars, saveVars, hubVars, kioskVars
  <1>3. QED
      BY <1>1, <1>2, Inductive, PTL DEF Spec

\* A kiosk whose socket has had its first snapshot, with nothing on its way to
\* it, shows the last save: the socket is registered before the row of the
\* first snapshot is read, so a commit is either in that row or broadcast to
\* the socket.  For any number of saves, previews, dropped sockets, restarts
\* and late polls.
THEOREM SavesReachKiosk == Spec => []NoSaveMissed
  <1>1. DeliveryInv => NoSaveMissed
      BY EmptySeq DEF DeliveryInv, NoSaveMissed, Caught, Coming, BeingRead
  <1>2. QED
      BY <1>1, Delivered, PTL

-----------------------------------------------------------------------------
(* Previews stay in order.                                                 *)

\* Nothing the hub has cached or is being sent is of a revision after n.
SentUpTo(n) ==
    /\ preview # None => preview.rev <= n
    /\ \A i \in 1..Len(cwire) : cwire[i].rev <= n

\* What is sent, what a reconnect will send again and what the debounce will
\* send are of ever later revisions, none after the one the page knows.
WireInv ==
    /\ \A i, j \in 1..Len(cwire) : i <= j => cwire[i].rev <= cwire[j].rev
    /\ preview # None => \A i \in 1..Len(cwire) : preview.rev <= cwire[i].rev
    /\ SentUpTo(crev) /\ crev <= row.rev
    /\ cpend # None => SentUpTo(cpend.rev) /\ cpend.rev <= crev
    /\ ctimer # None =>
        /\ SentUpTo(ctimer.rev) /\ ctimer.rev <= crev
        /\ cpend # None => cpend.rev <= ctimer.rev

\* A socket's first snapshot is made of a row that was open.
SocketInv == init => initRow.open

\* The frame holds a preview of the revision the row has.
Queued(i) == inbox[i].kind = "preview" /\ inbox[i].snap.rev = row.rev

\* While such a frame is under way to a registered socket the cache holds a
\* preview of that revision, so that its counter is not reset, and has numbered
\* every such frame.
NumberInv ==
    joined => \A i \in 1..Len(inbox) : Queued(i) =>
        /\ preview # None /\ preview.rev = row.rev
        /\ inbox[i].snap.seq <= counter

OrderInv == row.open => WireInv /\ SocketInv /\ NumberInv /\ PreviewsInOrder

LEMMA OrderOver ==
    ASSUME row'.open = FALSE
    PROVE  OrderInv'
  BY DEF OrderInv

LEMMA WireKept ==
    ASSUME WireInv, preview' = preview \/ preview' = None, row'.rev = row.rev,
           UNCHANGED <<crev, cpend, ctimer, cwire>>
    PROVE  WireInv'
  BY DEF WireInv, SentUpTo

LEMMA SocketKept ==
    ASSUME SocketInv, UNCHANGED <<init, initRow>>
    PROVE  SocketInv'
  BY DEF SocketInv

LEMMA NumbersKept ==
    ASSUME NumberInv /\ (row.open => PreviewsInOrder),
           UNCHANGED <<row, inbox, preview, counter, joined>>
    PROVE  NumberInv' /\ (row'.open => PreviewsInOrder')
  BY DEF NumberInv, Queued, PreviewsInOrder

\* Nothing more is sent to a socket that is not registered.
LEMMA NumbersLeft ==
    ASSUME PreviewsInOrder, UNCHANGED <<row, inbox>>, joined' = FALSE
    PROVE  NumberInv' /\ PreviewsInOrder'
  BY DEF NumberInv, PreviewsInOrder

\* With nothing under way nothing is numbered.
LEMMA NothingQueued ==
    ASSUME inbox' = <<>>
    PROVE  NumberInv' /\ PreviewsInOrder'
  <1>1. Len(inbox') = 0
      BY EmptySeq
  <1>2. 1..Len(inbox') = {}
      BY <1>1
  <1>3. QED
      BY <1>2 DEF NumberInv, PreviewsInOrder

-----------------------------------------------------------------------------
(* The clerk's steps.                                                      *)

\* A payload put on the wire.
LEMMA WireGrows ==
    ASSUME IInv, NEW p \in GoodSnapshots(book), cwire' = Append(cwire, p)
    PROVE  /\ Len(cwire) \in Nat
           /\ 1..Len(cwire') = 1..Len(cwire) \cup {Len(cwire) + 1}
           /\ \A i \in 1..Len(cwire) : cwire'[i] = cwire[i]
           /\ cwire'[Len(cwire) + 1] = p
  BY AppendProperties, LenProperties DEF IInv, ClerkOK

\* A payload of a revision not before any other is sent or kept.
LEMMA SendsInOrder ==
    ASSUME IInv, WireInv, NEW p \in GoodSnapshots(book),
           cwire' = Append(cwire, p) \/ cwire' = cwire,
           SentUpTo(p.rev), UNCHANGED preview
    PROVE  /\ \A i, j \in 1..Len(cwire') : i <= j => cwire'[i].rev <= cwire'[j].rev
           /\ preview # None => \A i \in 1..Len(cwire') : preview.rev <= cwire'[i].rev
           /\ \A n \in Nat : p.rev <= n /\ SentUpTo(n) => SentUpTo(n)'
           /\ SentUpTo(p.rev) => (preview # None => preview.rev <= p.rev)
                                 /\ \A i \in 1..Len(cwire') : cwire'[i].rev <= p.rev
  <1>1. p.rev \in Nat
      BY Revisions
  <1>2. CASE cwire' = cwire
      BY <1>2 DEF WireInv, SentUpTo
  <1>3. CASE cwire' = Append(cwire, p)
    <2>1. /\ Len(cwire) \in Nat
          /\ 1..Len(cwire') = 1..Len(cwire) \cup {Len(cwire) + 1}
          /\ \A i \in 1..Len(cwire) : cwire'[i] = cwire[i]
          /\ cwire'[Len(cwire) + 1] = p
        BY <1>3, WireGrows
    <2>2. \A i, j \in 1..Len(cwire') : i <= j => cwire'[i].rev <= cwire'[j].rev
      <3> SUFFICES ASSUME NEW i \in 1..Len(cwire'), NEW j \in 1..Len(cwire'), i <= j
                   PROVE  cwire'[i].rev <= cwire'[j].rev
          OBVIOUS
      <3>1. CASE j \in 1..Len(cwire)
          BY <2>1, <3>1 DEF WireInv
      <3>2. CASE j = Len(cwire) + 1 /\ i \in 1..Len(cwire)
          BY <2>1, <3>2 DEF SentUpTo
      <3>3. CASE j = Len(cwire) + 1 /\ i = j
          BY <1>1, <2>1, <3>3
      <3>4. QED
          BY <2>1, <3>1, <3>2, <3>3
    <2>3. preview # None => \A i \in 1..Len(cwire') : preview.rev <= cwire'[i].rev
        BY <2>1 DEF WireInv, SentUpTo
    <2>4. \A n \in Nat : p.rev <= n /\ SentUpTo(n) => SentUpTo(n)'
        BY <2>1 DEF SentUpTo
    <2>5. \A i \in 1..Len(cwire') : cwire'[i].rev <= p.rev
        BY <1>1, <2>1 DEF SentUpTo
    <2>6. QED
        BY <2>2, <2>3, <2>4, <2>5 DEF SentUpTo
  <1>4. QED
      BY <1>2, <1>3

LEMMA SendsKeepsWire ==
    ASSUME IInv, WireInv, NEW p \in GoodSnapshots(book), Sends(p),
           SentUpTo(p.rev), p.rev <= crev, UNCHANGED <<preview, crev, row>>,
           ctimer' = None \/ ctimer'.rev = p.rev
    PROVE  WireInv'
  <1>1. p.rev \in Nat /\ crev \in Nat /\ row.rev \in Nat
      BY Revisions
  <1>2. cwire' = Append(cwire, p) \/ cwire' = cwire
      BY DEF Sends
  <1>3. cpend' = p
      BY DEF Sends
  <1>4. /\ \A i, j \in 1..Len(cwire') : i <= j => cwire'[i].rev <= cwire'[j].rev
        /\ preview # None => \A i \in 1..Len(cwire') : preview.rev <= cwire'[i].rev
        /\ \A n \in Nat : p.rev <= n /\ SentUpTo(n) => SentUpTo(n)'
      BY <1>2, SendsInOrder
  <1>5. \A n \in Nat : p.rev <= n /\ SentUpTo(n) =>
            /\ preview' # None => preview'.rev <= n
            /\ \A i \in 1..Len(cwire') : cwire'[i].rev <= n
      BY <1>4 DEF SentUpTo
  <1>6. SentUpTo(crev) /\ crev <= row.rev
      BY DEF WireInv
  <1>7. /\ preview' # None => preview'.rev <= crev /\ preview'.rev <= p.rev
        /\ \A i \in 1..Len(cwire') : cwire'[i].rev <= crev /\ cwire'[i].rev <= p.rev
      BY <1>1, <1>5, <1>6
  <1>8. QED
      BY <1>1, <1>3, <1>4, <1>6, <1>7 DEF WireInv, SentUpTo

LEMMA EditOrders ==
    ASSUME IInv, OrderInv, Edit
    PROVE  OrderInv'
  <1>1. row.open /\ UNCHANGED <<row, sock, joined, inbox, init, initRow, preview, counter, crev>>
      BY DEF Edit, hubVars, kioskVars
  <1>2. WireInv /\ SocketInv /\ NumberInv /\ PreviewsInOrder
      BY <1>1 DEF OrderInv
  <1>3. ctimer'.rev = crev
    <2>1. ctimer' = [rev |-> crev, val |-> form + 1] /\ form + 1 \in Content
        BY BoundAssumption DEF IInv, ClerkOK, ClerkTypeOK, Edit, Content
    <2>2. QED
        BY <2>1
  <1>4. WireInv'
    <2>1. CASE Sends(Payload(form + 1))
      <3>1. Payload(form + 1) \in GoodSnapshots(book)
        <4>1. form + 1 \in Content /\ book[crev] \in Content
            BY BoundAssumption, ElementOfSeq
            DEF IInv, SessionOK, SessionTypeOK, ClerkOK, ClerkTypeOK, Edit, Content
        <4>2. QED
            BY <4>1 DEF IInv, ClerkOK, ClerkTypeOK, Payload, GoodSnapshots, Snapshots, Faithful,
                        Content
      <3>2. Payload(form + 1).rev = crev /\ crev \in Nat
          BY Revisions DEF Payload
      <3>3. SentUpTo(crev)
          BY <1>2 DEF WireInv
      <3> DEFINE p == Payload(form + 1)
      <3>4. p \in GoodSnapshots(book) /\ p.rev = crev
          BY <3>1, <3>2
      <3> HIDE DEF p
      <3>5. SentUpTo(p.rev) /\ p.rev <= crev
          BY <3>2, <3>3, <3>4
      <3>6. Sends(p)
          BY <2>1 DEF p
      <3>7. QED
          BY <1>1, <1>2, <1>3, <3>4, <3>5, <3>6, SendsKeepsWire
    <2>2. CASE UNCHANGED <<cseq, cpend, cwire>>
        BY <1>1, <1>2, <1>3, <2>2, Revisions DEF WireInv, SentUpTo
    <2>3. QED
        BY <2>1, <2>2 DEF Edit
  <1>5. QED
      BY <1>1, <1>2, <1>4, SocketKept, NumbersKept DEF OrderInv

LEMMA DebounceOrders ==
    ASSUME IInv, OrderInv, PreviewDebounceFires
    PROVE  OrderInv'
  <1>1. UNCHANGED <<row, sock, joined, inbox, init, initRow, preview, counter, crev>>
      BY DEF PreviewDebounceFires, hubVars, kioskVars
  <1>2. CASE ~row.open
      BY <1>1, <1>2 DEF OrderInv
  <1>3. CASE row.open
    <2>1. WireInv /\ SocketInv /\ NumberInv /\ PreviewsInOrder
        BY <1>3 DEF OrderInv
    <2> DEFINE p == [rev |-> ctimer.rev, val |-> ctimer.val, seq |-> cseq + 1]
    <2>2. p \in GoodSnapshots(book) /\ p.rev = ctimer.rev
        BY DEF IInv, ClerkOK, ClerkTypeOK, PreviewDebounceFires, GoodSnapshots, Snapshots,
               Faithful
    <2>3. Sends(p) /\ ctimer' = None /\ ctimer # None
        BY DEF PreviewDebounceFires
    <2> HIDE DEF p
    <2>4. SentUpTo(p.rev) /\ p.rev <= crev
        BY <2>1, <2>2, <2>3 DEF WireInv
    <2>5. WireInv'
        BY <1>1, <2>1, <2>2, <2>3, <2>4, SendsKeepsWire
    <2>6. QED
        BY <1>1, <2>1, <2>5, SocketKept, NumbersKept DEF OrderInv
  <1>4. QED
      BY <1>2, <1>3

\* What was said last is said again.
LEMMA ClerkConnectsOrders ==
    ASSUME IInv, OrderInv, ClerkConnects
    PROVE  OrderInv'
  <1>1. row.open /\ UNCHANGED <<row, sock, joined, inbox, init, initRow, preview, counter, crev,
                                cpend, ctimer>>
      BY DEF ClerkConnects, hubVars, kioskVars
  <1>2. WireInv /\ SocketInv /\ NumberInv /\ PreviewsInOrder
      BY <1>1 DEF OrderInv
  <1>3. WireInv'
    <2>1. CASE cpend = None
        BY <1>1, <1>2, <2>1, WireKept DEF ClerkConnects
    <2>2. CASE cpend # None
      <3>1. cpend \in GoodSnapshots(book) /\ cpend.rev \in Nat /\ crev \in Nat
            /\ (ctimer # None => ctimer.rev \in Nat)
          BY <2>2, Revisions
      <3>2. SentUpTo(cpend.rev) /\ cpend.rev <= crev /\ SentUpTo(crev) /\ crev <= row.rev
          BY <1>2, <2>2 DEF WireInv
      <3>3. cwire' = Append(cwire, cpend)
          BY <2>2 DEF ClerkConnects
      <3>4. /\ \A i, j \in 1..Len(cwire') : i <= j => cwire'[i].rev <= cwire'[j].rev
            /\ preview # None => \A i \in 1..Len(cwire') : preview.rev <= cwire'[i].rev
            /\ \A n \in Nat : cpend.rev <= n /\ SentUpTo(n) => SentUpTo(n)'
          BY <1>1, <1>2, <3>1, <3>2, <3>3, SendsInOrder
      <3>5. \A n \in Nat : cpend.rev <= n /\ SentUpTo(n) =>
                /\ preview # None => preview.rev <= n
                /\ \A i \in 1..Len(cwire') : cwire'[i].rev <= n
          BY <1>1, <3>4 DEF SentUpTo
      <3>6. /\ preview # None => preview.rev <= crev /\ preview.rev <= cpend.rev
            /\ \A i \in 1..Len(cwire') : cwire'[i].rev <= crev /\ cwire'[i].rev <= cpend.rev
          BY <3>1, <3>2, <3>5
      <3>7. ctimer # None => /\ SentUpTo(ctimer.rev) /\ ctimer.rev <= crev
                             /\ cpend.rev <= ctimer.rev
          BY <1>2, <2>2 DEF WireInv
      <3>8. ctimer # None => /\ preview # None => preview.rev <= ctimer.rev
                             /\ \A i \in 1..Len(cwire') : cwire'[i].rev <= ctimer.rev
          BY <3>1, <3>5, <3>7
      <3>9. QED
          BY <1>1, <3>2, <3>4, <3>6, <3>7, <3>8 DEF WireInv, SentUpTo
    <2>3. QED
        BY <2>1, <2>2
  <1>4. QED
      BY <1>1, <1>2, <1>3, SocketKept, NumbersKept DEF OrderInv

LEMMA ClerkDropsOrders ==
    ASSUME IInv, OrderInv, ClerkDrops
    PROVE  OrderInv'
  <1>1. UNCHANGED <<row, sock, joined, inbox, init, initRow, preview, counter, crev, cpend,
                    ctimer>>
      BY DEF ClerkDrops, hubVars, kioskVars
  <1>2. 1..Len(cwire') = {}
      BY EmptySeq DEF ClerkDrops
  <1>3. WireInv => WireInv'
      BY <1>1, <1>2 DEF WireInv, SentUpTo
  <1>4. QED
      BY <1>1, <1>3, SocketKept, NumbersKept DEF OrderInv

LEMMA ClerkReopensOrders ==
    ASSUME IInv, OrderInv, ClerkReopens
    PROVE  OrderInv'
  <1>1. UNCHANGED <<row, sock, joined, inbox, init, initRow, preview, counter, crev, cwire>>
      BY DEF ClerkReopens, hubVars, kioskVars
  <1>2. ctimer'.rev = row.rev /\ crev = row.rev /\ cpend' = None /\ row.rev \in Nat
      BY Revisions DEF ClerkReopens
  <1>3. WireInv => WireInv'
      BY <1>1, <1>2 DEF WireInv, SentUpTo
  <1>4. QED
      BY <1>1, <1>3, SocketKept, NumbersKept DEF OrderInv

-----------------------------------------------------------------------------
(* Saves.                                                                  *)

\* A commit leaves every frame under way with an older revision.
LEMMA SaveCommitsOrders ==
    ASSUME IInv, OrderInv, SaveCommits
    PROVE  OrderInv'
  <1>1. /\ row.open /\ row' = [row EXCEPT !.rev = @ + 1, !.val = form]
        /\ UNCHANGED <<sock, joined, inbox, init, initRow, preview, counter, crev, cwire, cpend,
                       ctimer>>
      BY DEF SaveCommits, clerkVars, hubVars, kioskVars
  <1>2. row'.rev = row.rev + 1
      BY <1>1 DEF IInv, SessionOK, SessionTypeOK, Rows
  <1>3. WireInv /\ SocketInv
      BY <1>1 DEF OrderInv
  <1>4. WireInv'
      BY <1>1, <1>2, <1>3, Revisions DEF WireInv, SentUpTo
  <1>5. \A i \in 1..Len(inbox') : ~Queued(i)'
      BY <1>1, <1>2, Revisions DEF Queued
  <1>6. QED
      BY <1>1, <1>3, <1>4, <1>5, SocketKept DEF OrderInv, NumberInv, PreviewsInOrder, Queued

LEMMA SaveAnsweredOrders ==
    ASSUME IInv, OrderInv, SaveAnswered
    PROVE  OrderInv'
  <1>1. UNCHANGED <<row, sock, joined, inbox, init, initRow, preview, counter, cwire, cpend>>
        /\ crev' = row.rev
      BY DEF SaveAnswered, hubVars, kioskVars
  <1>2. ctimer' = [rev |-> row.rev, val |-> form] \/ ctimer' = ctimer
      BY DEF SaveAnswered
  <1>3. ASSUME WireInv PROVE WireInv'
    <2>1. /\ row.rev \in Nat /\ crev \in Nat
          /\ (preview # None => preview.rev \in Nat)
          /\ (\A i \in 1..Len(cwire) : cwire[i].rev \in Nat)
          /\ (cpend # None => cpend.rev \in Nat)
          /\ (ctimer # None => ctimer.rev \in Nat)
        BY Revisions
    <2>2. /\ preview # None => preview.rev <= row.rev
          /\ \A i \in 1..Len(cwire) : cwire[i].rev <= row.rev
          /\ cpend # None => cpend.rev <= row.rev
          /\ ctimer # None => ctimer.rev <= row.rev
        BY <1>3, <2>1 DEF WireInv, SentUpTo
    <2>3. CASE ctimer' = ctimer
        BY <1>1, <1>3, <2>1, <2>2, <2>3 DEF WireInv, SentUpTo
    <2>4. CASE ctimer' = [rev |-> row.rev, val |-> form]
      <3>1. ctimer'.rev = row.rev
          BY <2>4
      <3>2. QED
          BY <1>1, <1>3, <2>1, <2>2, <3>1 DEF WireInv, SentUpTo
    <2>5. QED
        BY <1>2, <2>3, <2>4
  <1>4. QED
      BY <1>1, <1>3, SocketKept, NumbersKept DEF OrderInv

-----------------------------------------------------------------------------
(* The hub.                                                                *)

\* An open row's snapshot drops the cached preview, and resets the counter,
\* only when no preview of the row's revision is under way.
LEMMA CounterReset ==
    ASSUME IInv, NumberInv, NEW r \in GoodRows(book), r.open, Overlaid(r)
    PROVE  /\ preview' = preview \/ preview' = None
           /\ joined => \/ UNCHANGED <<preview, counter>>
                        \/ \A i \in 1..Len(inbox) : ~Queued(i)
  <1>1. r.rev \in Nat /\ r.rev <= row.rev /\ row.rev \in Nat
        /\ (preview # None => preview.rev \in Nat)
    <2>1. Len(book) = row.rev
        BY DEF IInv, SessionOK, SessionTypeOK
    <2>2. QED
        BY <2>1, Revisions DEF GoodRows
  <1>2. CASE preview = None
      BY <1>2 DEF Overlaid, Current
  <1>3. CASE preview # None /\ Current(r)
      BY <1>3 DEF Overlaid
  <1>4. CASE preview # None /\ ~Current(r)
    <2>1. preview.rev < row.rev
        BY <1>1, <1>4 DEF Current
    <2>2. joined => \A i \in 1..Len(inbox) : ~Queued(i)
        BY <1>1, <1>4, <2>1 DEF NumberInv
    <2>3. QED
        BY <1>4, <2>2 DEF Overlaid
  <1>5. QED
      BY <1>2, <1>3, <1>4

\* A frame that is no preview.
LEMMA OtherQueued ==
    ASSUME IInv, NumberInv, row.open, PreviewsInOrder, NEW f \in GoodFrames(book),
           f.kind # "preview", inbox' = Append(inbox, f), UNCHANGED row, joined' => joined,
           joined => UNCHANGED <<preview, counter>> \/ \A i \in 1..Len(inbox) : ~Queued(i)
    PROVE  NumberInv' /\ PreviewsInOrder'
  <1>1. /\ 1..Len(inbox') = 1..Len(inbox) \cup {Len(inbox) + 1}
        /\ \A i \in 1..Len(inbox) : inbox'[i] = inbox[i]
        /\ inbox'[Len(inbox) + 1] = f
      BY FrameQueued
  <1>2. \A i \in 1..Len(inbox') : Queued(i)' => i \in 1..Len(inbox) /\ Queued(i)
      BY <1>1 DEF Queued
  <1>3. NumberInv'
      BY <1>1, <1>2 DEF NumberInv
  <1>4. PreviewsInOrder'
      BY <1>1, <1>2 DEF PreviewsInOrder, Queued
  <1>5. QED
      BY <1>3, <1>4

LEMMA StateEmittedOrders ==
    ASSUME IInv, OrderInv, StateEmitted
    PROVE  OrderInv'
  <1>1. UNCHANGED <<row, joined, init, initRow, crev, cwire, cpend, ctimer>>
      BY DEF StateEmitted, clerkVars
  <1>2. CASE ~row.open
      BY <1>1, <1>2 DEF OrderInv
  <1>3. CASE row.open
    <2>1. WireInv /\ SocketInv /\ NumberInv /\ PreviewsInOrder
        BY <1>3 DEF OrderInv
    <2>2. CASE UNCHANGED <<inbox, preview, counter>>
        BY <1>1, <2>1, <2>2, WireKept, SocketKept, NumbersKept DEF OrderInv
    <2>3. CASE joined \/ zombie \/ csock
      <3>1. PICK f \in GoodFrames(book) :
                /\ f.kind = "update" /\ Broadcast(f)
                /\ Overlaid(row) \/ UNCHANGED <<preview, counter>>
          BY <2>3, EmittedFrame
      <3>2. /\ preview' = preview \/ preview' = None
            /\ joined => \/ UNCHANGED <<preview, counter>>
                         \/ \A i \in 1..Len(inbox) : ~Queued(i)
          BY <1>3, <2>1, <3>1, CounterReset DEF IInv, SessionOK
      <3>3. WireInv' /\ SocketInv'
          BY <1>1, <2>1, <3>2, WireKept, SocketKept
      <3>4. CASE joined
        <4>1. inbox' = Append(inbox, f)
            BY <3>1, <3>4 DEF Broadcast
        <4>2. NumberInv' /\ PreviewsInOrder'
            BY <1>1, <1>3, <2>1, <3>1, <3>2, <4>1, OtherQueued
        <4>3. QED
            BY <3>3, <4>2 DEF OrderInv
      <3>5. CASE ~joined
        <4>1. inbox' = inbox /\ joined' = FALSE
            BY <1>1, <3>1, <3>5 DEF Broadcast, IInv, HubOK, HubTypeOK
        <4>2. NumberInv' /\ PreviewsInOrder'
            BY <1>1, <2>1, <4>1, NumbersLeft
        <4>3. QED
            BY <3>3, <4>2 DEF OrderInv
      <3>6. QED
          BY <3>4, <3>5
    <2>4. QED
        BY <2>2, <2>3 DEF StateEmitted
  <1>4. QED
      BY <1>2, <1>3

LEMMA InitSendsOrders ==
    ASSUME IInv, DeliveryInv, OrderInv, InitSends
    PROVE  OrderInv'
  <1>1. UNCHANGED <<row, sock, joined, crev, cwire, cpend, ctimer>> /\ init' = FALSE /\ joined
      BY DEF InitSends, DeliveryInv, NoInit, clerkVars
  <1>2. CASE ~row.open
      BY <1>1, <1>2 DEF OrderInv
  <1>3. CASE row.open
    <2>1. WireInv /\ SocketInv /\ NumberInv /\ PreviewsInOrder
        BY <1>3 DEF OrderInv
    <2>2. initRow \in GoodRows(book) /\ initRow.open
        BY <2>1 DEF IInv, HubOK, InitSends, SocketInv
    <2>3. Overlaid(initRow)
        BY DEF InitSends
    <2>4. /\ preview' = preview \/ preview' = None
          /\ joined => \/ UNCHANGED <<preview, counter>>
                       \/ \A i \in 1..Len(inbox) : ~Queued(i)
        BY <2>1, <2>2, <2>3, CounterReset
    <2>5. WireInv'
        BY <1>1, <2>1, <2>4, WireKept
    <2> PICK c \in {initRow.val, Bare} :
            inbox' = Append(inbox, Frame("init", Snapshot(initRow, c)))
        BY DEF InitSends
    <2> DEFINE f == Frame("init", Snapshot(initRow, c))
    <2>6. f \in GoodFrames(book) /\ f.kind # "preview"
        BY <2>2, SnapshotGood, FrameGood DEF Frame
    <2>7. inbox' = Append(inbox, f)
        OBVIOUS
    <2> HIDE DEF f
    <2>8. NumberInv' /\ PreviewsInOrder'
        BY <1>1, <1>3, <2>1, <2>4, <2>6, <2>7, OtherQueued
    <2>9. SocketInv'
        BY <1>1 DEF SocketInv
    <2>10. QED
        BY <2>5, <2>8, <2>9 DEF OrderInv
  <1>4. QED
      BY <1>2, <1>3

\* A frame that closes the socket is no preview, and the last one to it.
LEMMA InitFailsOrders ==
    ASSUME IInv, OrderInv, InitFails
    PROVE  OrderInv'
  <1>1. /\ UNCHANGED <<row, crev, cwire, cpend, ctimer>>
        /\ init' = FALSE /\ joined' = FALSE
        /\ preview' = preview \/ preview' = None
      BY DEF InitFails, NoInit, LastLeaves, Forgotten, clerkVars
  <1>2. CASE ~row.open
      BY <1>1, <1>2 DEF OrderInv
  <1>3. CASE row.open
    <2>1. WireInv /\ PreviewsInOrder
        BY <1>3 DEF OrderInv
    <2> DEFINE f == Frame("close", None)
    <2>2. f \in GoodFrames(book) /\ f.kind # "preview"
        BY DEF Frame, GoodFrames, FrameKinds
    <2>3. inbox' = Append(inbox, f)
        BY DEF InitFails
    <2> HIDE DEF f
    <2>4. /\ 1..Len(inbox') = 1..Len(inbox) \cup {Len(inbox) + 1}
          /\ \A i \in 1..Len(inbox) : inbox'[i] = inbox[i]
          /\ inbox'[Len(inbox) + 1] = f
        BY <2>2, <2>3, FrameQueued
    <2>5. PreviewsInOrder'
        BY <1>1, <1>3, <2>1, <2>2, <2>4 DEF PreviewsInOrder
    <2>6. WireInv'
        BY <1>1, <2>1, WireKept
    <2>7. QED
        BY <1>1, <2>5, <2>6 DEF OrderInv, SocketInv, NumberInv
  <1>4. QED
      BY <1>2, <1>3

\* The next preview takes a number above those under way, and no revision
\* before theirs.
LEMMA PreviewHandledOrders ==
    ASSUME IInv, OrderInv, PreviewHandled
    PROVE  OrderInv'
  <1> DEFINE p == Head(cwire)
             snap == [rev |-> Labelled(p), val |-> p.val, seq |-> Sequenced(p)]
             f == Frame("preview", snap)
  <1>1. UNCHANGED <<row, sock, joined, init, initRow, crev, cpend, ctimer>>
      BY DEF PreviewHandled
  <1>2. CASE ~row.open
      BY <1>1, <1>2 DEF OrderInv
  <1>3. CASE row.open
    <2>1. WireInv /\ SocketInv /\ NumberInv /\ PreviewsInOrder
        BY <1>3 DEF OrderInv
    <2>2. /\ p = cwire[1] /\ Len(cwire) \in Nat \ {0}
          /\ Len(cwire') = Len(cwire) - 1
          /\ \A i \in 1..Len(cwire') : cwire'[i] = cwire[i + 1]
        BY HeadTailProperties, LenProperties, EmptySeq DEF IInv, ClerkOK, PreviewHandled
    <2>3. p \in GoodSnapshots(book) /\ p.rev \in Nat /\ p.seq \in Nat
        BY <2>2, Revisions
    <2>4. /\ snap \in GoodSnapshots(book) /\ snap.rev = p.rev
          /\ snap.seq \in Nat /\ snap.seq >= counter + 1
      <3>1. Sequenced(p) \in Nat /\ Sequenced(p) >= counter + 1
          BY <2>3, Revisions DEF Sequenced, Greater
      <3>2. QED
          BY <2>3, <3>1 DEF Labelled, GoodSnapshots, Snapshots, Faithful
    <2>5. preview' = snap /\ counter' = snap.seq
        BY DEF PreviewHandled
    <2>6. Broadcast(f) /\ f.kind = "preview" /\ f.snap = snap
        BY DEF PreviewHandled, Frame
    <2>7. f \in GoodFrames(book)
        BY <2>4, FrameGood
    <2> HIDE DEF f, snap, p
    <2>8. preview' # None /\ preview'.rev = p.rev
        BY <2>4, <2>5, Revisions
    <2>9. WireInv'
      <3>1. \A i \in 1..Len(cwire') : i + 1 \in 1..Len(cwire) /\ 1 <= i + 1
          BY <2>2
      <3>2. 1 \in 1..Len(cwire)
          BY <2>2
      <3>3. \A n : SentUpTo(n) => /\ p.rev <= n
                                  /\ \A i \in 1..Len(cwire') : cwire'[i].rev <= n
          BY <2>2, <3>1, <3>2 DEF SentUpTo
      <3>4. \A i \in 1..Len(cwire') : p.rev <= cwire'[i].rev
          BY <2>1, <2>2, <3>1, <3>2 DEF WireInv
      <3>5. \A i, j \in 1..Len(cwire') : i <= j => cwire'[i].rev <= cwire'[j].rev
          BY <2>1, <2>2, <3>1 DEF WireInv
      <3>6. SentUpTo(crev) /\ (cpend # None => SentUpTo(cpend.rev))
            /\ (ctimer # None => SentUpTo(ctimer.rev))
          BY <2>1 DEF WireInv
      <3>7. QED
          BY <1>1, <2>1, <2>8, <3>3, <3>4, <3>5, <3>6 DEF WireInv, SentUpTo
    <2>10. SocketInv'
        BY <1>1, <2>1, SocketKept
    <2>11. NumberInv' /\ PreviewsInOrder'
      <3>1. CASE joined
        <4>1. inbox' = Append(inbox, f)
            BY <2>6, <3>1 DEF Broadcast
        <4>2. /\ 1..Len(inbox') = 1..Len(inbox) \cup {Len(inbox) + 1}
              /\ \A i \in 1..Len(inbox) : inbox'[i] = inbox[i]
              /\ inbox'[Len(inbox) + 1] = f
              /\ Len(inbox) \in Nat
            BY <2>7, <4>1, FrameQueued
        <4>3. \A i \in 1..Len(inbox) : Queued(i)' <=> Queued(i)
            BY <1>1, <4>2 DEF Queued
        <4>4. counter \in Nat
            BY Revisions
        <4>5. \A i \in 1..Len(inbox) :
                  Queued(i) => /\ inbox[i].snap.seq \in Nat
                               /\ inbox[i].snap.seq < snap.seq
          <5> SUFFICES ASSUME NEW i \in 1..Len(inbox), Queued(i)
                       PROVE  inbox[i].snap.seq \in Nat /\ inbox[i].snap.seq < snap.seq
              OBVIOUS
          <5>1. inbox[i].snap.seq <= counter
              BY <2>1, <3>1 DEF NumberInv
          <5>2. inbox[i].snap.seq \in Nat
              BY Revisions DEF Queued
          <5>3. QED
              BY <2>4, <4>4, <5>1, <5>2
        <4>6. \A i \in 1..Len(inbox) : Queued(i) => preview'.rev = row.rev
          <5> SUFFICES ASSUME NEW i \in 1..Len(inbox), Queued(i)
                       PROVE  preview'.rev = row.rev
              OBVIOUS
          <5>1. preview # None /\ preview.rev = row.rev
              BY <2>1, <3>1 DEF NumberInv
          <5>2. preview.rev <= p.rev
              BY <2>1, <2>2, <5>1 DEF WireInv
          <5>3. p.rev <= row.rev /\ row.rev \in Nat
              BY <2>3, Revisions
          <5>4. QED
              BY <2>3, <2>8, <5>1, <5>2, <5>3
        <4>7. NumberInv'
          <5> SUFFICES ASSUME NEW i \in 1..Len(inbox'), Queued(i)'
                       PROVE  preview'.rev = row'.rev /\ inbox'[i].snap.seq <= counter'
              BY <2>8 DEF NumberInv
          <5>1. CASE i \in 1..Len(inbox)
              BY <1>1, <2>4, <2>5, <4>2, <4>3, <4>5, <4>6, <5>1
          <5>2. CASE i = Len(inbox) + 1
              BY <1>1, <2>4, <2>5, <2>6, <4>2, <5>2 DEF Queued
          <5>3. QED
              BY <4>2, <5>1, <5>2
        <4>8. PreviewsInOrder'
          <5> SUFFICES ASSUME NEW i \in 1..Len(inbox'), NEW j \in 1..Len(inbox'), i < j,
                              Queued(i)', Queued(j)'
                       PROVE  inbox'[i].snap.seq < inbox'[j].snap.seq
              BY DEF PreviewsInOrder, Queued
          <5>1. i \in 1..Len(inbox) /\ Queued(i)
              BY <4>2, <4>3
          <5>2. CASE j \in 1..Len(inbox)
            <6>1. Queued(j)
                BY <4>3, <5>2
            <6>2. QED
                BY <1>3, <2>1, <4>2, <5>1, <5>2, <6>1 DEF PreviewsInOrder, Queued
          <5>3. CASE j = Len(inbox) + 1
              BY <2>6, <4>2, <4>5, <5>1, <5>3
          <5>4. QED
              BY <4>2, <5>2, <5>3
        <4>9. QED
            BY <4>7, <4>8
      <3>2. CASE ~joined
        <4>1. inbox' = inbox /\ joined' = FALSE
            BY <1>1, <2>6, <3>2 DEF Broadcast, IInv, HubOK, HubTypeOK
        <4>2. QED
            BY <1>1, <2>1, <4>1, NumbersLeft
      <3>3. QED
          BY <3>1, <3>2
    <2>12. QED
        BY <2>9, <2>10, <2>11 DEF OrderInv
  <1>4. QED
      BY <1>2, <1>3

\* A dead socket's viewer is forgotten when no other is registered: then
\* nothing more is sent.
LEMMA DropNoticedOrders ==
    ASSUME IInv, OrderInv, DropNoticed
    PROVE  OrderInv'
  <1>1. UNCHANGED <<row, sock, joined, inbox, init, initRow, crev, cwire, cpend, ctimer>>
      BY DEF DropNoticed, clerkVars, kioskVars
  <1>2. CASE joined
      BY <1>1, <1>2, WireKept, SocketKept, NumbersKept DEF DropNoticed, LastLeaves, OrderInv
  <1>3. CASE ~joined
    <2>1. joined' = FALSE /\ preview' = None
        BY <1>1, <1>3 DEF DropNoticed, LastLeaves, Forgotten, IInv, HubOK, HubTypeOK
    <2>2. QED
        BY <1>1, <2>1, WireKept, SocketKept, NumbersLeft DEF OrderInv
  <1>4. QED
      BY <1>2, <1>3

-----------------------------------------------------------------------------
(* The kiosk.                                                              *)

\* A socket that is gone takes its frames with it.
LEMMA OrderLost ==
    ASSUME OrderInv, init' = FALSE, inbox' = <<>>,
           preview' = preview \/ preview' = None, UNCHANGED <<row, crev, cpend, ctimer>>,
           cwire' = cwire \/ cwire' = <<>>
    PROVE  OrderInv'
  <1>1. SocketInv'
      BY DEF SocketInv
  <1>2. ASSUME WireInv PROVE WireInv'
    <2>1. CASE cwire' = cwire
        BY <1>2, <2>1, WireKept
    <2>2. CASE cwire' = <<>>
      <3>1. 1..Len(cwire') = {}
          BY <2>2, EmptySeq
      <3>2. QED
          BY <1>2, <3>1 DEF WireInv, SentUpTo
    <2>3. QED
        BY <2>1, <2>2
  <1>3. QED
      BY <1>1, <1>2, NothingQueued DEF OrderInv

LEMMA RestartOrders ==
    ASSUME DeliveryInv, OrderInv, Restart
    PROVE  OrderInv'
  <1>1. /\ UNCHANGED <<row, crev, cpend, ctimer>> /\ preview' = None /\ cwire' = <<>>
        /\ init' = FALSE
      BY DEF Restart, Forgotten, NoInit
  <1>2. CASE ~row.open
      BY <1>1, <1>2 DEF OrderInv
  <1>3. CASE row.open
    <2>1. inbox' = <<>>
        BY <1>3 DEF DeliveryInv, Restart, Offline
    <2>2. QED
        BY <1>1, <2>1, OrderLost
  <1>4. QED
      BY <1>2, <1>3

LEMMA ConnectOrders ==
    ASSUME DeliveryInv, OrderInv, Connect
    PROVE  OrderInv'
  <1>1. UNCHANGED <<row, preview, counter, crev, cwire, cpend, ctimer>>
      BY DEF Connect, clerkVars
  <1>2. CASE ~row.open
      BY <1>1, <1>2 DEF OrderInv
  <1>3. CASE row.open
    <2>1. initRow' = row /\ inbox' = <<>>
        BY <1>3 DEF Connect, DeliveryInv
    <2>2. SocketInv'
        BY <1>3, <2>1 DEF SocketInv
    <2>3. QED
        BY <1>1, <1>3, <2>1, <2>2, WireKept, NothingQueued DEF OrderInv
  <1>4. QED
      BY <1>2, <1>3

\* What arrives was first in line, and numbers nothing anew.
LEMMA FrameArrivesOrders ==
    ASSUME IInv, DeliveryInv, OrderInv, FrameArrives
    PROVE  OrderInv'
  <1>1. UNCHANGED <<row, joined, init, initRow, preview, counter, crev, cwire, cpend, ctimer>>
      BY DEF FrameArrives, clerkVars, hubVars
  <1>2. CASE ~row.open
      BY <1>1, <1>2 DEF OrderInv
  <1>3. CASE Head(inbox).kind = "close"
      BY <1>1, <1>3, NothingQueued, WireKept, SocketKept DEF FrameArrives, Offline, OrderInv
  <1>4. CASE row.open /\ Head(inbox).kind # "close"
    <2>1. WireInv /\ SocketInv /\ NumberInv /\ PreviewsInOrder
        BY <1>4 DEF OrderInv
    <2>2. /\ Head(inbox) = inbox[1] /\ Len(inbox) \in Nat \ {0}
          /\ Len(Tail(inbox)) = Len(inbox) - 1
          /\ \A i \in 1..Len(Tail(inbox)) : Tail(inbox)[i] = inbox[i + 1]
        BY HeadTailProperties, LenProperties, EmptySeq DEF IInv, KioskOK, FrameArrives
    <2>3. inbox' = Tail(inbox)
        BY <1>4 DEF FrameArrives
    <2>4. SocketInv'
        BY <1>1, <2>1, SocketKept
    <2>5. \A i \in 1..Len(inbox') : /\ i + 1 \in 1..Len(inbox) /\ inbox'[i] = inbox[i + 1]
                                    /\ Queued(i)' <=> Queued(i + 1)
        BY <1>1, <2>2, <2>3 DEF Queued
    <2>6. NumberInv'
        BY <1>1, <2>1, <2>5 DEF NumberInv
    <2>7. PreviewsInOrder'
      <3> SUFFICES ASSUME NEW i \in 1..Len(inbox'), NEW j \in 1..Len(inbox'), i < j,
                          Queued(i)', Queued(j)'
                   PROVE  inbox'[i].snap.seq < inbox'[j].snap.seq
          BY DEF PreviewsInOrder, Queued
      <3>1. /\ i + 1 \in 1..Len(inbox) /\ j + 1 \in 1..Len(inbox) /\ i + 1 < j + 1
            /\ Queued(i + 1) /\ Queued(j + 1)
          BY <2>5
      <3>2. inbox[i + 1].snap.seq < inbox[j + 1].snap.seq
          BY <1>4, <2>1, <3>1 DEF PreviewsInOrder, Queued
      <3>3. QED
          BY <2>5, <3>2
    <2>8. QED
        BY <1>1, <2>1, <2>4, <2>6, <2>7, WireKept DEF OrderInv
  <1>5. QED
      BY <1>2, <1>3, <1>4

\* A poll or a probe of an open session overlays the row's snapshot, or fails.
LEMMA PollsOrder ==
    ASSUME IInv, OrderInv, PollAnswered \/ PollLate \/ LatePollArrives \/ ProbeAnswered
    PROVE  OrderInv'
  <1>1. UNCHANGED <<row, joined, inbox, init, initRow, crev, cwire, cpend, ctimer>>
      BY DEF PollAnswered, PollLate, LatePollArrives, ProbeAnswered, clerkVars, hubVars, kioskVars
  <1>2. CASE UNCHANGED <<preview, counter>>
      BY <1>1, <1>2, WireKept, SocketKept, NumbersKept DEF OrderInv
  <1>3. CASE row.open /\ Overlaid(row)
    <2>1. WireInv /\ SocketInv /\ NumberInv /\ PreviewsInOrder
        BY <1>3 DEF OrderInv
    <2>2. row \in GoodRows(book)
        BY DEF IInv, SessionOK
    <2>3. /\ preview' = preview \/ preview' = None
          /\ joined => \/ UNCHANGED <<preview, counter>>
                       \/ \A i \in 1..Len(inbox) : ~Queued(i)
        BY <1>3, <2>1, <2>2, CounterReset
    <2>4. CASE UNCHANGED <<preview, counter>>
        BY <1>2, <2>4
    <2>5. CASE ~joined
      <3>1. joined' = FALSE
          BY <1>1, <2>5 DEF IInv, HubOK, HubTypeOK
      <3>2. QED
          BY <1>1, <2>1, <2>3, <3>1, WireKept, SocketKept, NumbersLeft DEF OrderInv
    <2>6. CASE \A i \in 1..Len(inbox) : ~Queued(i)
      <3>1. \A i \in 1..Len(inbox') : ~Queued(i)'
          BY <1>1, <2>6 DEF Queued
      <3>2. NumberInv' /\ PreviewsInOrder'
          BY <3>1 DEF NumberInv, PreviewsInOrder, Queued
      <3>3. QED
          BY <1>1, <2>1, <2>3, <3>2, WireKept, SocketKept DEF OrderInv
    <2>7. QED
        BY <2>3, <2>4, <2>5, <2>6
  <1>4. CASE PollAnswered
      BY <1>2, <1>3, <1>4 DEF PollAnswered
  <1>5. CASE PollLate
      BY <1>2, <1>3, <1>5 DEF PollLate
  <1>6. CASE LatePollArrives
      BY <1>2, <1>6 DEF LatePollArrives, hubVars
  <1>7. CASE ProbeAnswered
      BY <1>3, <1>7 DEF ProbeAnswered
  <1>8. QED
      BY <1>4, <1>5, <1>6, <1>7

LEMMA EndOrders ==
    ASSUME IInv, DeliveryInv, SessionCloses \/ SessionCancelled \/ TokenClosed \/ ProbeFails
    PROVE  OrderInv'
  <1>1. CASE SessionCloses \/ SessionCancelled
    <2>1. row' = [row EXCEPT !.open = FALSE]
        BY <1>1 DEF SessionCloses, SessionCancelled
    <2>2. row'.open = FALSE
        BY <2>1 DEF IInv, SessionOK, SessionTypeOK, Rows
    <2>3. QED
        BY <2>2, OrderOver
  <1>2. CASE TokenClosed \/ ProbeFails
    <2>1. ~row.open /\ UNCHANGED row
        BY <1>2 DEF TokenClosed, ProbeFails, DeliveryInv
    <2>2. QED
        BY <2>1 DEF OrderInv
  <1>3. QED
      BY <1>1, <1>2

LEMMA NextOrders ==
    ASSUME IInv, DeliveryInv, OrderInv, Next
    PROVE  OrderInv'
  <1>1. CASE KioskDrops
      BY <1>1, OrderLost DEF KioskDrops, Offline, NoInit, clerkVars
  <1>2. QED
      BY <1>1, EditOrders, DebounceOrders, ClerkConnectsOrders, ClerkDropsOrders,
         ClerkReopensOrders, SaveCommitsOrders, SaveAnsweredOrders, StateEmittedOrders,
         InitSendsOrders, InitFailsOrders, PreviewHandledOrders, DropNoticedOrders, RestartOrders,
         ConnectOrders, FrameArrivesOrders, PollsOrder, EndOrders
      DEF Next, ClerkStep, BackendStep, KioskStep, Operator, Fault

LEMMA Ordered == Spec => []OrderInv
  <1>1. Init => OrderInv
    <2> SUFFICES ASSUME Init
                 PROVE  WireInv /\ SocketInv /\ NumberInv /\ PreviewsInOrder
        BY DEF OrderInv
    <2>1. 1..Len(cwire) = {} /\ 1..Len(inbox) = {}
        BY EmptySeq DEF Init
    <2>2. row.rev = 1 /\ crev = 1 /\ ctimer.rev = 1
        BY DEF Init
    <2>3. WireInv
        BY <2>1, <2>2 DEF Init, WireInv, SentUpTo
    <2>4. QED
        BY <2>1, <2>3 DEF Init, SocketInv, NumberInv, PreviewsInOrder
  <1>2. ASSUME OrderInv, UNCHANGED vars PROVE OrderInv'
      BY <1>2, WireKept, SocketKept, NumbersKept
      DEF OrderInv, vars, clerkVars, hubVars, kioskVars
  <1>3. IInv /\ DeliveryInv /\ OrderInv /\ [Next]_vars => OrderInv'
      BY <1>2, NextOrders
  <1>4. QED
      BY <1>1, <1>3, Inductive, Delivered, PTL DEF Spec

\* Previews of the revision the row has reach the kiosk under growing numbers:
\* the counter is reset only while none of them is under way, also when the
\* page or the backend has begun to count anew.  For any number of keystrokes,
\* of previews on the wire, reconnects and restarts.
THEOREM NumbersGrow == Spec => []PreviewsInOrder
  <1>1. OrderInv => PreviewsInOrder
      BY DEF OrderInv, PreviewsInOrder
  <1>2. QED
      BY <1>1, Ordered, PTL
=============================================================================
