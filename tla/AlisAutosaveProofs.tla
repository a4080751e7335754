------------------------- MODULE AlisAutosaveProofs -------------------------
(***************************************************************************)
(* The autosave of the purchase form, for any number of workspaces, edits, *)
(* losses and writes of other surfaces, and whatever the operator's        *)
(* habits: its save loops take turns, it never goes back to an older       *)
(* revision, and what is typed is not replaced while it is unsaved.        *)
(***************************************************************************)
EXTENDS AlisAutosave, SequenceTheorems, TLAPS

\* A GET under way reads a workspace, and so does the answer of a POST that is
\* applied.
KnownSessions ==
    /\ refresh.phase = "sent" => refresh.sess \in Sessions
    /\ call.phase = "ok" /\ call.op \in {"select", "detach"} => call.sess \in Sessions

TurnOK == TurnTypeOK /\ SavesTakeTurns
HandlerOK == HandlerTypeOK /\ KnownSessions

IInv == BookTypeOK /\ FormTypeOK /\ TurnOK /\ HandlerOK

\* A half's content is its two parts.
LEMMA HalfOf ==
    ASSUME NEW n \in Nat, NEW l, NEW h
    PROVE  /\ Half(l, h).live = l /\ Half(l, h).held = h
           /\ l \in 0..n /\ h \in 0..n => Half(l, h) \in Halves(n)
           /\ \A v \in Halves(n) : v.live \in 0..n /\ v.held \in 0..n /\ v = Half(v.live, v.held)
  BY DEF Half, Halves

LEMMA NothingTyped ==
    /\ NoPut \in PutRecords /\ NoRefresh \in RefreshRecords
    /\ NoCall \in CallRecords /\ NoFlow \in FlowRecords
    /\ Blank \in Values /\ NoPayload \notin Values
    /\ BlankRender \in Renders
  <1>1. 0 \in 0..MaxEdits
      BY BoundAssumption
  <1>2. Blank \in Values
      BY <1>1, HalfOf, BoundAssumption DEF Blank, Values
  <1>3. NoPayload \notin Values
      BY BoundAssumption, PayloadAssumption DEF Values, Halves
  <1> HIDE DEF Values, Blank
  <1>4. NoPut \in PutRecords /\ NoRefresh \in RefreshRecords
      BY <1>2 DEF NoPut, PutRecords, NoRefresh, RefreshRecords, Kinds
  <1>5. NoCall \in CallRecords /\ NoFlow \in FlowRecords
      BY <1>1, <1>2 DEF NoCall, CallRecords, NoFlow, FlowRecords, Calls, Flows
  <1>6. BlankRender \in Renders
      BY <1>1, <1>2 DEF BlankRender, Renders
  <1>7. QED
      BY <1>2, <1>3, <1>4, <1>5, <1>6

\* What a closure captures of a form.
LEMMA RenderTyped ==
    ASSUME NEW f \in [Kinds -> Values], NEW pend \in BOOLEAN
    PROVE  /\ Render(f, pend) \in Renders
           /\ Render(f, pend).terms = f["rows"].held /\ Render(f, pend).cust = f["cust"]
           /\ Render(f, pend).pend = pend
  <1>1. f["rows"] \in Values /\ f["cust"] \in Values
      BY DEF Kinds
  <1>2. f["rows"].held \in 0..MaxEdits
      BY <1>1, HalfOf, BoundAssumption DEF Values
  <1>3. QED
      BY <1>1, <1>2 DEF Render, Renders

\* The sections as a handler composes them.
LEMMA SectionsTyped ==
    ASSUME IInv, NEW fl \in FlowRecords
    PROVE  Sections(fl) \in Values
  <1>1. form["rows"] \in Values
      BY DEF IInv, FormTypeOK, Kinds
  <1>2. form["rows"].live \in 0..MaxEdits /\ fl.terms \in 0..MaxEdits
      BY <1>1, HalfOf, BoundAssumption DEF Values, FlowRecords
  <1>3. QED
      BY <1>2, HalfOf, BoundAssumption DEF Values, Sections

LEMMA BookKept ==
    ASSUME IInv, UNCHANGED <<server, edits, faults, writes>>
    PROVE  BookTypeOK'
  BY DEF IInv, BookTypeOK

LEMMA FormKept ==
    ASSUME IInv, UNCHANGED <<session, rev, formVars, shortcut, view>>
    PROVE  FormTypeOK'
  BY DEF IInv, FormTypeOK, formVars

LEMMA TurnKept ==
    ASSUME IInv, UNCHANGED <<chain, put, retryArmed, retryWaits>>
    PROVE  TurnOK'
  BY DEF IInv, TurnOK, TurnTypeOK, SavesTakeTurns, PutPending

LEMMA HandlerKept ==
    ASSUME IInv, UNCHANGED <<refresh, call, flow, finalizing>>
    PROVE  HandlerOK'
  BY DEF IInv, HandlerOK, HandlerTypeOK, KnownSessions

-----------------------------------------------------------------------------
(* The write chain.                                                        *)

Distinct(c) == \A i, j \in DOMAIN c : c[i] = c[j] => i = j

\* A loop that joins the chain takes no turn away.
LEMMA EnqueuedTurns ==
    ASSUME NEW c \in Seq(Kinds), NEW k \in Kinds, Distinct(c)
    PROVE  /\ Enqueued(c, k) \in Seq(Kinds)
           /\ Distinct(Enqueued(c, k))
           /\ c # <<>> => Enqueued(c, k) # <<>> /\ Head(Enqueued(c, k)) = Head(c)
  <1>1. CASE \E i \in DOMAIN c : c[i] = k
      BY <1>1 DEF Enqueued
  <1>2. CASE ~\E i \in DOMAIN c : c[i] = k
    <2>1. Enqueued(c, k) = Append(c, k)
        BY <1>2 DEF Enqueued
    <2>2. /\ Append(c, k) \in Seq(Kinds) /\ Append(c, k) # <<>>
          /\ Len(Append(c, k)) = Len(c) + 1 /\ Append(c, k)[Len(c) + 1] = k
          /\ \A i \in 1..Len(c) : Append(c, k)[i] = c[i]
          /\ Len(c) \in Nat /\ DOMAIN c = 1..Len(c)
          /\ DOMAIN Append(c, k) = 1..Len(Append(c, k))
        BY AppendProperties, LenProperties
    <2>3. Distinct(Append(c, k))
        BY <1>2, <2>2 DEF Distinct
    <2>4. c # <<>> => Head(Append(c, k)) = Head(c)
        BY <2>2
    <2>5. QED
        BY <2>1, <2>2, <2>3, <2>4
  <1>3. QED
      BY <1>1, <1>2

LEMMA TailTurns ==
    ASSUME NEW c \in Seq(Kinds), c # <<>>, Distinct(c)
    PROVE  Tail(c) \in Seq(Kinds) /\ Distinct(Tail(c))
  <1>1. /\ Tail(c) \in Seq(Kinds) /\ Len(Tail(c)) = Len(c) - 1
        /\ \A i \in 1..Len(Tail(c)) : Tail(c)[i] = c[i + 1]
        /\ Len(c) \in Nat /\ DOMAIN c = 1..Len(c) /\ DOMAIN Tail(c) = 1..Len(Tail(c))
      BY HeadTailProperties, LenProperties
  <1>2. QED
      BY <1>1 DEF Distinct

\* A step that only adds loops to the chain.
LEMMA TurnsKept ==
    ASSUME IInv, chain' \in Seq(Kinds), Distinct(chain'), UNCHANGED put,
           chain # <<>> => chain' # <<>> /\ Head(chain') = Head(chain),
           retryArmed' \in BOOLEAN, retryWaits' \subseteq SUBSET Kinds
    PROVE  TurnOK'
  BY DEF IInv, TurnOK, TurnTypeOK, SavesTakeTurns, PutPending, Distinct

LEMMA ChainDistinct ==
    ASSUME IInv
    PROVE  chain \in Seq(Kinds) /\ Distinct(chain)
  BY DEF IInv, TurnOK, TurnTypeOK, SavesTakeTurns, Distinct

\* The running loop has ended.
LEMMA SettleTurns ==
    ASSUME IInv, NEW k \in Kinds, NEW q, NEW arm \in BOOLEAN, chain # <<>>, Settle(k, q, arm),
           put' = NoPut
    PROVE  TurnOK' /\ flow' \in FlowRecords
  <1>1. chain' \in Seq(Kinds) /\ Distinct(chain')
      BY ChainDistinct, TailTurns DEF Settle
  <1>2. retryWaits' \subseteq SUBSET Kinds
      BY DEF Settle, IInv, TurnOK, TurnTypeOK
  <1>3. retryArmed' \in BOOLEAN
      BY DEF Settle
  <1>4. flow' \in FlowRecords
      BY DEF Settle, IInv, HandlerOK, HandlerTypeOK, FlowRecords
  <1>5. NoPut.phase = "none"
      BY DEF NoPut
  <1>6. QED
      BY <1>1, <1>2, <1>3, <1>4, <1>5, NothingTyped
      DEF TurnOK, TurnTypeOK, SavesTakeTurns, PutPending, Distinct

-----------------------------------------------------------------------------
(* What the effects compute.                                               *)

LEMMA EffectsTyped ==
    ASSUME IInv, NEW k \in Kinds, NEW v \in Values, NEW key \in Values
    PROVE  EffectTimer(k, v, key) \in Payloads /\ EffectQueue(k, v, key) \in Payloads
  BY DEF EffectTimer, EffectQueue, IInv, FormTypeOK, Payloads

LEMMA ReadingTyped ==
    ASSUME IInv, NEW s \in Sessions
    PROVE  /\ Reading(s, refresh) \in RefreshRecords
           /\ Reading(s, refresh).phase = "sent" => Reading(s, refresh).sess \in Sessions
  <1>1. CASE refresh.phase = "none"
    <2>1. Reading(s, refresh) = [NoRefresh EXCEPT !.phase = "sent", !.sess = s, !.fresh = TRUE,
                                                  !.pend = PutPending]
        BY <1>1 DEF Reading
    <2>2. PutPending \in BOOLEAN
        BY DEF PutPending
    <2>3. QED
        BY <2>1, <2>2, NothingTyped DEF NoRefresh, RefreshRecords
  <1>2. CASE refresh.phase # "none"
      BY <1>2 DEF Reading, IInv, HandlerOK, HandlerTypeOK, KnownSessions
  <1>3. QED
      BY <1>1, <1>2

LEMMA OvertakenTyped ==
    ASSUME IInv, NEW f
    PROVE  /\ Overtaken(f) \in RefreshRecords
           /\ Overtaken(f).phase = refresh.phase /\ Overtaken(f).sess = refresh.sess
  <1>1. (refresh.fresh /\ f = form) \in BOOLEAN
      OBVIOUS
  <1>2. QED
      BY <1>1 DEF Overtaken, IInv, HandlerOK, HandlerTypeOK, RefreshRecords

LEMMA ApplyTyped ==
    ASSUME IInv, NEW s \in Sessions \cup {NoSession}, NEW d, NEW pend \in BOOLEAN,
           s = session \/ s \in Sessions,
           d.rows \in Values, d.cust \in Values, d.rev \in Nat,
           ApplyWorkspace(s, d, pend), UNCHANGED view
    PROVE  /\ FormTypeOK'
           /\ refresh' \in RefreshRecords
           /\ refresh'.phase = "sent" => refresh'.sess \in Sessions
  <1> DEFINE f == [k \in Kinds |-> IF k = "rows" THEN d.rows ELSE d.cust]
  <1>1. f \in [Kinds -> Values]
      OBVIOUS
  <1>2. session' = s /\ rev' = d.rev /\ form' = f /\ acked' = f
        /\ timer' = [k \in Kinds |-> NoPayload]
        /\ queue' = [k \in Kinds |-> EffectQueue(k, f[k], f[k])]
        /\ shortcut' = Render(f, pend)
        /\ refresh' = IF s = session THEN Overtaken(f) ELSE Reading(s, refresh)
      BY DEF ApplyWorkspace
  <1>3. \A k \in Kinds : f[k] \in Values
      BY <1>1
  <1> HIDE DEF f
  <1>4. queue' \in [Kinds -> Payloads] /\ timer' \in [Kinds -> Payloads]
      BY <1>2, <1>3, EffectsTyped DEF Payloads
  <1>5. FormTypeOK'
      BY <1>1, <1>2, <1>4, RenderTyped DEF FormTypeOK, IInv
  <1>6. /\ refresh' \in RefreshRecords
        /\ refresh'.phase = "sent" => refresh'.sess \in Sessions
      BY <1>2, ReadingTyped, OvertakenTyped DEF IInv, HandlerOK, KnownSessions
  <1>7. QED
      BY <1>5, <1>6

-----------------------------------------------------------------------------
(* The operator.                                                           *)

LEMMA OpenKeeps ==
    ASSUME IInv, NEW s \in Sessions, Open(s)
    PROVE  IInv'
  <1> DEFINE f == [k \in Kinds |-> IF k = "rows" THEN server[s].rows ELSE server[s].cust]
  <1>1. server[s].rows \in Values /\ server[s].cust \in Values /\ server[s].rev \in Nat
      BY DEF IInv, BookTypeOK, Workspaces
  <1>2. f \in [Kinds -> Values] /\ f["cust"] \in Values
      BY <1>1 DEF Kinds
  <1>3. form' = f /\ acked' = f /\ shortcut' = Render(f, PutPending)
      BY DEF Open
  <1>4. PutPending \in BOOLEAN
      BY DEF PutPending
  <1> HIDE DEF f
  <1>5. FormTypeOK'
      BY <1>1, <1>2, <1>3, <1>4, RenderTyped DEF Open, FormTypeOK, Payloads
  <1>6. HandlerOK'
      BY ReadingTyped DEF Open, IInv, HandlerOK, HandlerTypeOK, KnownSessions
  <1>7. QED
      BY <1>5, <1>6, BookKept, TurnKept DEF Open, IInv

\* New content is within the bound.
LEMMA NewTyped ==
    ASSUME IInv, edits < MaxEdits, NEW k \in Kinds, NEW v \in NewValues(k)
    PROVE  v \in Values
  <1>1. edits + 1 \in 0..MaxEdits /\ 0 \in 0..MaxEdits
      BY BoundAssumption DEF IInv, BookTypeOK
  <1>2. form[k].live \in 0..MaxEdits /\ form[k].held \in 0..MaxEdits
      BY HalfOf, BoundAssumption DEF IInv, FormTypeOK, Values
  <1>3. PICK l \in 0..MaxEdits, h \in 0..MaxEdits : v = Half(l, h)
      BY <1>1, <1>2 DEF NewValues
  <1>4. QED
      BY <1>3, HalfOf, BoundAssumption DEF Values

LEMMA EditKeeps ==
    ASSUME IInv, NEW k \in Kinds, Edit(k)
    PROVE  IInv'
  <1>1. PICK v \in EditValues(k) :
          /\ form' = [form EXCEPT ![k] = v]
          /\ edits' = IF v = acked[k] THEN edits ELSE edits + 1
          /\ timer' = [timer EXCEPT ![k] = EffectTimer(k, v, acked[k])]
          /\ queue' = [queue EXCEPT ![k] = EffectQueue(k, v, acked[k])]
          /\ refresh' = [refresh EXCEPT !.fresh = FALSE]
      BY DEF Edit
  <1>2. acked[k] \in Values
      BY DEF IInv, FormTypeOK
  <1>3. v \in Values /\ (v # acked[k] => edits < MaxEdits)
      BY <1>1, <1>2, NewTyped DEF EditValues
  <1>4. EffectTimer(k, v, acked[k]) \in Payloads /\ EffectQueue(k, v, acked[k]) \in Payloads
      BY <1>2, <1>3, EffectsTyped
  <1>5. FormTypeOK'
      BY <1>1, <1>3, <1>4 DEF Edit, IInv, FormTypeOK
  <1>6. BookTypeOK'
      BY <1>1, <1>3, BoundAssumption DEF Edit, IInv, BookTypeOK
  <1>7. HandlerOK'
      BY <1>1 DEF Edit, IInv, HandlerOK, HandlerTypeOK, KnownSessions, RefreshRecords
  <1>8. QED
      BY <1>5, <1>6, <1>7, TurnKept DEF Edit, IInv

\* A payload is queued for a loop that is there or joins the chain.
LEMMA QueuedKeeps ==
    ASSUME IInv, NEW k \in Kinds, NEW v \in Values, queue' = [queue EXCEPT ![k] = v],
           chain' = Enqueued(chain, k), timer' \in [Kinds -> Payloads],
           UNCHANGED <<server, session, rev, form, acked, put, refresh, call, flow, finalizing,
                       shortcut, retryArmed, retryWaits, view, edits, faults, writes>>
    PROVE  IInv'
  <1>1. FormTypeOK'
      BY DEF IInv, FormTypeOK, Payloads
  <1>2. retryArmed \in BOOLEAN /\ retryWaits \subseteq SUBSET Kinds
      BY DEF IInv, TurnOK, TurnTypeOK
  <1>3. TurnOK'
      BY <1>2, ChainDistinct, EnqueuedTurns, TurnsKept
  <1>4. QED
      BY <1>1, <1>3, BookKept, HandlerKept DEF IInv

LEMMA BlurKeeps ==
    ASSUME IInv, CustomerBlur
    PROVE  IInv'
  <1>1. "cust" \in Kinds /\ form["cust"] \in Values /\ timer \in [Kinds -> Payloads]
      BY DEF IInv, FormTypeOK, Kinds
  <1>2. QED
      BY <1>1, QueuedKeeps DEF CustomerBlur

LEMMA DebounceKeeps ==
    ASSUME IInv, NEW k \in Kinds, DebounceFires(k)
    PROVE  IInv'
  <1>1. timer[k] \in Values /\ timer' \in [Kinds -> Payloads]
      BY DEF IInv, FormTypeOK, Payloads, DebounceFires
  <1>2. QED
      BY <1>1, QueuedKeeps DEF DebounceFires

-----------------------------------------------------------------------------
(* The save loop.                                                          *)

LEMMA LoopSendsKeeps ==
    ASSUME IInv, LoopSends
    PROVE  IInv'
  <1> DEFINE k == Head(chain)
  <1>1. k \in Kinds /\ chain # <<>>
      BY HeadTailProperties, ChainDistinct DEF LoopSends
  <1>2. queue[k] \in Values /\ session \in Sessions \cup {NoSession} /\ rev \in Nat
      BY <1>1 DEF IInv, FormTypeOK, LoopSends, Waiting, Payloads
  <1>3. queue' = [queue EXCEPT ![k] = NoPayload]
        /\ put' = IF queue[k] = acked[k] THEN NoPut
                  ELSE [NoPut EXCEPT !.phase = "sent", !.kind = k, !.sess = session,
                                     !.payload = queue[k], !.base = rev]
      BY DEF LoopSends
  <1> HIDE DEF k
  <1>4. put' \in PutRecords /\ (put'.phase # "none" => put'.kind = k)
      BY <1>1, <1>2, <1>3, NothingTyped DEF NoPut, PutRecords
  <1>5. TurnOK'
      BY <1>1, <1>4 DEF LoopSends, IInv, TurnOK, TurnTypeOK, SavesTakeTurns, PutPending, k
  <1>6. FormTypeOK'
      BY <1>3 DEF LoopSends, IInv, FormTypeOK, Payloads
  <1>7. QED
      BY <1>5, <1>6, BookKept, HandlerKept DEF LoopSends, IInv

LEMMA LoopEndsKeeps ==
    ASSUME IInv, LoopEnds
    PROVE  IInv'
  <1>1. Head(chain) \in Kinds /\ chain # <<>> /\ Settle(Head(chain), queue, FALSE)
      BY HeadTailProperties, ChainDistinct DEF LoopEnds
  <1>2. chain' \in Seq(Kinds) /\ Distinct(chain')
      BY <1>1, ChainDistinct, TailTurns DEF Settle
  <1>3. retryWaits' \subseteq SUBSET Kinds /\ retryArmed' \in BOOLEAN
      BY <1>1 DEF Settle, IInv, TurnOK, TurnTypeOK
  <1>4. flow' \in FlowRecords
      BY <1>1 DEF Settle, IInv, HandlerOK, HandlerTypeOK, FlowRecords
  <1>5. TurnOK'
      BY <1>2, <1>3 DEF LoopEnds, IInv, TurnOK, TurnTypeOK, SavesTakeTurns, PutPending, Distinct
  <1>6. HandlerOK'
      BY <1>4 DEF LoopEnds, IInv, HandlerOK, HandlerTypeOK, KnownSessions
  <1>7. QED
      BY <1>5, <1>6, BookKept, FormKept DEF LoopEnds, IInv, formVars

\* An answer has been taken, and the loop has its turn again.
LEMMA AnsweredTurns ==
    ASSUME IInv, put' = NoPut, UNCHANGED <<chain, retryArmed, retryWaits>>
    PROVE  TurnOK'
  BY NothingTyped DEF IInv, TurnOK, TurnTypeOK, SavesTakeTurns, PutPending, NoPut

LEMMA PutAnsweredKeeps ==
    ASSUME IInv, PutAnswered
    PROVE  IInv'
  <1>1. put \in PutRecords
      BY DEF IInv, TurnOK, TurnTypeOK
  <1>2. put.kind \in Kinds /\ put.payload \in Values /\ put.rows \in Values /\ put.rev \in Nat
      BY <1>1 DEF PutRecords
  <1>3. form["cust"] \in Values /\ "rows" \in Kinds
      BY DEF IInv, FormTypeOK, Kinds
  <1>4. CASE PutIgnored
      BY <1>4, AnsweredTurns, BookKept, FormKept, HandlerKept DEF PutIgnored, IInv, formVars
  <1>5. CASE PutOvertaken
    <2>1. FormTypeOK'
        BY <1>2, <1>3, <1>5, RenderTyped DEF PutOvertaken, IInv, FormTypeOK
    <2>2. QED
        BY <1>5, <2>1, AnsweredTurns, BookKept, HandlerKept DEF PutOvertaken, IInv
  <1>6. CASE RowsAcknowledged
    <2>1. EffectQueue("rows", put.payload, put.payload) \in Payloads
        BY <1>2, <1>3, EffectsTyped
    <2>2. FormTypeOK'
        BY <1>2, <1>3, <1>6, <2>1, RenderTyped DEF RowsAcknowledged, IInv, FormTypeOK, Payloads
    <2>3. QED
        BY <1>6, <2>2, AnsweredTurns, BookKept, HandlerKept DEF RowsAcknowledged, IInv
  <1>7. CASE CustomerAcknowledged
    <2>1. /\ FormTypeOK'
          /\ refresh' \in RefreshRecords
          /\ refresh'.phase = "sent" => refresh'.sess \in Sessions
      <3>1. session \in Sessions \cup {NoSession}
          BY DEF IInv, FormTypeOK
      <3>2. QED
          BY <1>2, <1>7, <3>1, ApplyTyped DEF CustomerAcknowledged
    <2>2. HandlerOK'
        BY <1>7, <2>1 DEF CustomerAcknowledged, IInv, HandlerOK, HandlerTypeOK, KnownSessions
    <2>3. QED
        BY <1>7, <2>1, <2>2, AnsweredTurns, BookKept DEF CustomerAcknowledged, IInv
  <1>8. CASE PutFailed
    <2>1. chain # <<>> /\ Transient(put.phase) \in BOOLEAN
        BY <1>8 DEF PutFailed, IInv, TurnOK, SavesTakeTurns, PutPending, Transient
    <2>2. TurnOK' /\ flow' \in FlowRecords
        BY <1>2, <1>8, <2>1, SettleTurns DEF PutFailed
    <2>3. FormTypeOK'
        BY <1>2, <1>8 DEF PutFailed, Requeued, IInv, FormTypeOK, Payloads
    <2>4. HandlerOK'
        BY <1>8, <2>2 DEF PutFailed, IInv, HandlerOK, HandlerTypeOK, KnownSessions
    <2>5. QED
        BY <1>8, <2>2, <2>3, <2>4, BookKept DEF PutFailed, IInv
  <1>9. QED
      BY <1>4, <1>5, <1>6, <1>7, <1>8 DEF PutAnswered

LEMMA RetryFiresKeeps ==
    ASSUME IInv, RetryFires
    PROVE  IInv'
  <1> DEFINE due(k) == \/ \E i \in DOMAIN chain : chain[i] = k
                       \/ session # NoSession /\ queue[k] # NoPayload
             c == IF due("rows") THEN Enqueued(chain, "rows") ELSE chain
             waits == {k \in Kinds : due(k)}
  <1>1. "rows" \in Kinds /\ "cust" \in Kinds
      BY DEF Kinds
  <1>2. c \in Seq(Kinds) /\ Distinct(c) /\ (chain # <<>> => c # <<>> /\ Head(c) = Head(chain))
      BY <1>1, ChainDistinct, EnqueuedTurns
  <1>3. chain' = IF due("cust") THEN Enqueued(c, "cust") ELSE c
      BY DEF RetryFires
  <1>4. chain' \in Seq(Kinds) /\ Distinct(chain')
        /\ (chain # <<>> => chain' # <<>> /\ Head(chain') = Head(chain))
    <2> HIDE DEF c, due
    <2>1. QED
        BY <1>1, <1>2, <1>3, EnqueuedTurns
  <1>5. retryWaits' \subseteq SUBSET Kinds /\ retryArmed' \in BOOLEAN
    <2>1. retryWaits' = IF waits = {} THEN retryWaits ELSE retryWaits \cup {waits}
        BY DEF RetryFires
    <2>2. waits \subseteq Kinds
        OBVIOUS
    <2> HIDE DEF waits
    <2>3. QED
        BY <2>1, <2>2 DEF RetryFires, IInv, TurnOK, TurnTypeOK
  <1>6. TurnOK'
    <2>1. put' = put
        BY DEF RetryFires
    <2>2. QED
        BY <1>4, <1>5, <2>1, TurnsKept
  <1>7. QED
      BY <1>6, BookKept, FormKept, HandlerKept DEF RetryFires, IInv, formVars

-----------------------------------------------------------------------------
(* Handlers that flush before they act.                                    *)

\* What a flush queues for its half.
LEMMA FlushCustomerTyped ==
    ASSUME IInv, NEW fl \in FlowRecords, NEW q \in [Kinds -> Payloads], NEW c \in Seq(Kinds),
           Distinct(c), chain # <<>> => c # <<>> /\ Head(c) = Head(chain),
           FlushCustomer(fl, q, c), UNCHANGED <<put, retryArmed, retryWaits>>
    PROVE  flow' \in FlowRecords /\ queue' \in [Kinds -> Payloads] /\ TurnOK'
  <1>1. "cust" \in Kinds /\ fl.cust \in Payloads
      BY DEF Kinds, FlowRecords, Payloads
  <1>2. flow' \in FlowRecords
      BY DEF FlushCustomer, FlowRecords
  <1>3. queue' \in [Kinds -> Payloads]
      BY <1>1 DEF FlushCustomer
  <1>4. chain' \in {c, Enqueued(c, "cust")}
      BY DEF FlushCustomer
  <1>5. TurnOK'
      BY <1>1, <1>4, EnqueuedTurns, TurnsKept DEF IInv, TurnOK, TurnTypeOK
  <1>6. QED
      BY <1>2, <1>3, <1>5

LEMMA FlushTyped ==
    ASSUME IInv, NEW fl \in FlowRecords, NEW q \in [Kinds -> Payloads], Flush(fl, q),
           UNCHANGED <<put, retryArmed, retryWaits>>
    PROVE  flow' \in FlowRecords /\ queue' \in [Kinds -> Payloads] /\ TurnOK'
  <1>1. CASE fl.sess # session
      BY <1>1, TurnKept DEF Flush, FlowRecords
  <1>2. CASE fl.sess = session /\ Sections(fl) # acked["rows"]
    <2>1. "rows" \in Kinds /\ Sections(fl) \in Payloads
        BY SectionsTyped DEF Kinds, Payloads
    <2>2. /\ flow' = [fl EXCEPT !.phase = "rows"]
          /\ queue' = [q EXCEPT !["rows"] = Sections(fl)]
          /\ chain' = Enqueued(chain, "rows")
        BY <1>2 DEF Flush
    <2>3. flow' \in FlowRecords /\ queue' \in [Kinds -> Payloads]
        BY <2>1, <2>2 DEF FlowRecords
    <2>4. TurnOK'
        BY <2>1, <2>2, ChainDistinct, EnqueuedTurns, TurnsKept DEF IInv, TurnOK, TurnTypeOK
    <2>5. QED
        BY <2>3, <2>4
  <1>3. CASE fl.sess = session /\ Sections(fl) = acked["rows"]
      BY <1>3, ChainDistinct, FlushCustomerTyped DEF Flush
  <1>4. QED
      BY <1>1, <1>2, <1>3

\* The handlers' own steps move the flow and fill a place of the queue.
LEMMA FlowMoved ==
    ASSUME IInv, flow' \in FlowRecords, queue' \in [Kinds -> Payloads], TurnOK',
           finalizing' \in BOOLEAN,
           UNCHANGED <<server, session, rev, form, acked, timer, refresh, call, shortcut, view,
                       edits, faults, writes>>
    PROVE  IInv'
  <1>1. FormTypeOK'
      BY DEF IInv, FormTypeOK
  <1>2. HandlerOK'
      BY DEF IInv, HandlerOK, HandlerTypeOK, KnownSessions
  <1>3. QED
      BY <1>1, <1>2, BookKept DEF IInv

LEMMA FlowStartKeeps ==
    ASSUME IInv, NEW op \in Flows, FlowStart(op)
    PROVE  IInv'
  <1> DEFINE seen == IF op = "shortcut" THEN shortcut ELSE Render(form, PutPending)
             q == IF op = "detach" THEN [queue EXCEPT !["cust"] = NoPayload] ELSE queue
             fl == [NoFlow EXCEPT !.op = op, !.sess = session, !.terms = seen.terms,
                                  !.cust = seen.cust, !.pend = seen.pend]
  <1>1. seen.terms \in 0..MaxEdits /\ seen.cust \in Values /\ seen.pend \in BOOLEAN
    <2>1. seen \in Renders
        BY RenderTyped DEF IInv, FormTypeOK, PutPending
    <2>2. QED
        BY <2>1 DEF Renders
  <1>2. q \in [Kinds -> Payloads]
      BY DEF IInv, FormTypeOK, Payloads
  <1>3. Flush(fl, q)
      BY DEF FlowStart
  <1> HIDE DEF seen, q
  <1>4. fl \in FlowRecords
      BY <1>1, NothingTyped DEF NoFlow, FlowRecords, IInv, FormTypeOK
  <1> HIDE DEF fl
  <1>5. flow' \in FlowRecords /\ queue' \in [Kinds -> Payloads] /\ TurnOK'
      BY <1>2, <1>3, <1>4, FlushTyped DEF FlowStart
  <1>6. finalizing' \in BOOLEAN
      BY DEF FlowStart, IInv, HandlerOK, HandlerTypeOK
  <1>7. QED
      BY <1>5, <1>6, FlowMoved DEF FlowStart

LEMMA FlowGoesOnKeeps ==
    ASSUME IInv, FlowGoesOn \/ PauseEnds
    PROVE  IInv'
  <1>1. /\ flow \in FlowRecords /\ queue \in [Kinds -> Payloads]
        /\ finalizing \in BOOLEAN
      BY DEF IInv, FormTypeOK, HandlerOK, HandlerTypeOK
  <1>2. flow' \in FlowRecords /\ queue' \in [Kinds -> Payloads] /\ TurnOK'
      BY <1>1, ChainDistinct, FlushTyped, FlushCustomerTyped DEF FlowGoesOn, PauseEnds
  <1>3. QED
      BY <1>1, <1>2, FlowMoved DEF FlowGoesOn, PauseEnds

LEMMA PostTyped ==
    ASSUME IInv, NEW op \in Calls, NEW cust \in Values
    PROVE  Post(op, cust) \in CallRecords /\ Post(op, cust).phase = "sent"
  BY DEF IInv, FormTypeOK, Post, CallRecords, Kinds

LEMMA ShortcutTyped ==
    ASSUME IInv, NEW op, ShortcutRemade(op)
    PROVE  shortcut' \in Renders
  BY RenderTyped DEF IInv, FormTypeOK, ShortcutRemade, PutPending

LEMMA FlowActsKeeps ==
    ASSUME IInv, FlowActs
    PROVE  IInv'
  <1>1. flow \in FlowRecords /\ NoFlow \in FlowRecords /\ form["cust"] \in Values
      BY NothingTyped DEF IInv, HandlerOK, HandlerTypeOK, FormTypeOK, Kinds
  <1>2. TurnOK' /\ BookTypeOK'
      BY TurnKept, BookKept DEF FlowActs
  <1>3. CASE FlowPauses
    <2>1. flow' \in FlowRecords
        BY <1>1, <1>3 DEF FlowPauses, FlowRecords
    <2>2. HandlerOK'
        BY <1>3, <2>1 DEF FlowPauses, IInv, HandlerOK, HandlerTypeOK, KnownSessions
    <2>3. QED
        BY <1>2, <1>3, <2>2, FormKept DEF FlowPauses, FlowActs, IInv, formVars
  <1>4. CASE FlowGivesUp
    <2>1. HandlerOK'
        BY <1>1, <1>4 DEF FlowGivesUp, IInv, HandlerOK, HandlerTypeOK, KnownSessions
    <2>2. QED
        BY <1>2, <1>4, <2>1, FormKept DEF FlowGivesUp, FlowActs, IInv, formVars
  <1>5. CASE FlowPosts
    <2>1. call' \in CallRecords /\ call'.phase = "sent"
        BY <1>1, <1>5, PostTyped DEF FlowPosts, Calls
    <2>2. HandlerOK'
        BY <1>1, <1>5, <2>1 DEF FlowPosts, IInv, HandlerOK, HandlerTypeOK, KnownSessions
    <2>3. shortcut' \in Renders
        BY <1>5, ShortcutTyped DEF FlowPosts
    <2>4. FormTypeOK'
        BY <1>5, <2>3 DEF FlowPosts, FlowActs, IInv, FormTypeOK
    <2>5. QED
        BY <1>2, <2>2, <2>4 DEF IInv
  <1>6. CASE FlowSwitches
    <2>1. /\ refresh' \in RefreshRecords
          /\ refresh'.phase = "sent" => refresh'.sess \in Sessions
        BY <1>6, ReadingTyped DEF FlowSwitches, IInv, FormTypeOK, HandlerOK, HandlerTypeOK,
           KnownSessions
    <2>2. HandlerOK'
        BY <1>1, <1>6, <2>1 DEF FlowSwitches, IInv, HandlerOK, HandlerTypeOK, KnownSessions
    <2>3. FormTypeOK'
        BY <1>6 DEF FlowSwitches, FlowActs, IInv, FormTypeOK
    <2>4. QED
        BY <1>2, <2>2, <2>3 DEF IInv
  <1>7. QED
      BY <1>3, <1>4, <1>5, <1>6 DEF FlowActs

-----------------------------------------------------------------------------
(* Requests outside the chain.                                             *)

LEMMA SelectKeeps ==
    ASSUME IInv, SelectCustomer
    PROVE  IInv'
  <1>1. edits + 1 \in 0..MaxEdits /\ Half(0, edits + 1) \in Values
    <2>1. edits + 1 \in 0..MaxEdits /\ 0 \in 0..MaxEdits
        BY BoundAssumption DEF SelectCustomer, IInv, BookTypeOK
    <2>2. QED
        BY <2>1, HalfOf, BoundAssumption DEF Values
  <1>2. call' \in CallRecords /\ call'.phase = "sent"
      BY <1>1, PostTyped DEF SelectCustomer, Calls
  <1>3. HandlerOK'
      BY <1>2 DEF SelectCustomer, IInv, HandlerOK, HandlerTypeOK, KnownSessions
  <1>4. BookTypeOK'
      BY <1>1 DEF SelectCustomer, IInv, BookTypeOK
  <1>5. QED
      BY <1>3, <1>4, TurnKept, FormKept DEF SelectCustomer, IInv

LEMMA CancelKeeps ==
    ASSUME IInv, CancelWorkspace
    PROVE  IInv'
  <1>1. form["cust"] \in Values
      BY DEF IInv, FormTypeOK, Kinds
  <1>2. call' \in CallRecords /\ call'.phase = "sent"
      BY <1>1, PostTyped DEF CancelWorkspace, Calls
  <1>3. HandlerOK'
      BY <1>2 DEF CancelWorkspace, IInv, HandlerOK, HandlerTypeOK, KnownSessions
  <1>4. shortcut' \in Renders
      BY ShortcutTyped DEF CancelWorkspace
  <1>5. FormTypeOK'
      BY <1>4 DEF CancelWorkspace, formVars, IInv, FormTypeOK
  <1>6. QED
      BY <1>3, <1>5, TurnKept, BookKept DEF CancelWorkspace, IInv

LEMMA CallAnsweredKeeps ==
    ASSUME IInv, CallAnswered
    PROVE  IInv'
  <1>1. call \in CallRecords /\ NoCall \in CallRecords /\ NoCall.phase = "none"
      BY NothingTyped DEF IInv, HandlerOK, HandlerTypeOK, NoCall
  <1>2. TurnOK' /\ BookTypeOK'
      BY TurnKept, BookKept DEF CallAnswered
  <1>3. CASE CallCloses
    <2>1. [NoCall EXCEPT !.phase = "settling", !.op = "finalize"] \in CallRecords
        BY <1>1 DEF CallRecords, Calls
    <2>2. call' \in CallRecords /\ call'.phase # "ok"
        BY <1>1, <1>3, <2>1 DEF CallCloses, CallRecords
    <2>3. HandlerOK'
        BY <1>3, <2>2 DEF CallCloses, CallAnswered, IInv, HandlerOK, HandlerTypeOK, KnownSessions
    <2>4. FormTypeOK'
        BY <1>3, NothingTyped DEF CallCloses, CallAnswered, IInv, FormTypeOK, Payloads
    <2>5. QED
        BY <1>2, <2>3, <2>4 DEF IInv
  <1>4. CASE CallApplies
    <2>1. /\ call.sess \in Sessions
          /\ call.rows \in Values /\ call.cust \in Values /\ call.rev \in Nat
        BY <1>1, <1>4 DEF CallApplies, IInv, HandlerOK, KnownSessions, CallRecords
    <2>2. PutPending \in BOOLEAN
        BY DEF PutPending
    <2>3. /\ FormTypeOK'
          /\ refresh' \in RefreshRecords
          /\ refresh'.phase = "sent" => refresh'.sess \in Sessions
        BY <1>4, <2>1, <2>2, ApplyTyped DEF CallApplies, CallAnswered
    <2>4. HandlerOK'
        BY <1>1, <1>4, <2>3
        DEF CallApplies, CallAnswered, IInv, HandlerOK, HandlerTypeOK, KnownSessions
    <2>5. QED
        BY <1>2, <2>3, <2>4 DEF IInv
  <1>5. CASE CallDone
    <2>1. HandlerOK'
        BY <1>1, <1>5 DEF CallDone, CallAnswered, IInv, HandlerOK, HandlerTypeOK, KnownSessions
    <2>2. shortcut' \in Renders
        BY <1>5, ShortcutTyped DEF CallDone
    <2>3. FormTypeOK'
        BY <1>5, <2>2 DEF CallDone, CallAnswered, IInv, FormTypeOK, formVars
    <2>4. QED
        BY <1>2, <2>1, <2>3 DEF IInv
  <1>6. QED
      BY <1>3, <1>4, <1>5 DEF CallAnswered

LEMMA ArtifactSignalKeeps ==
    ASSUME IInv, ArtifactSignal
    PROVE  IInv'
  <1>1. session \in Sessions
      BY DEF ArtifactSignal, IInv, FormTypeOK
  <1>2. HandlerOK'
      BY <1>1, ReadingTyped DEF ArtifactSignal, IInv, HandlerOK, HandlerTypeOK, KnownSessions
  <1>3. QED
      BY <1>2, TurnKept, BookKept, FormKept DEF ArtifactSignal, IInv

LEMMA RefreshAnsweredKeeps ==
    ASSUME IInv, RefreshAnswered
    PROVE  IInv'
  <1>1. refresh \in RefreshRecords
      BY DEF IInv, HandlerOK, HandlerTypeOK
  <1>2. refresh.rows \in Values /\ refresh.cust \in Values /\ refresh.rev \in Nat
      BY <1>1 DEF RefreshRecords
  <1>3. FormTypeOK'
    <2>1. CASE RefreshApplies
      <3> DEFINE f == [k \in Kinds |-> IF k = "rows" THEN refresh.rows ELSE refresh.cust]
      <3>1. f \in [Kinds -> Values] /\ \A k \in Kinds : f[k] \in Values
          BY <1>2
      <3>2. /\ form' = f /\ acked' = f /\ timer' = [k \in Kinds |-> NoPayload]
            /\ queue' = [k \in Kinds |-> EffectQueue(k, f[k], f[k])]
            /\ rev' = refresh.rev
            /\ shortcut' = Render(f, PutPending)
          BY <2>1 DEF RefreshApplies
      <3>3. PutPending \in BOOLEAN
          BY DEF PutPending
      <3> HIDE DEF f
      <3>4. queue' \in [Kinds -> Payloads] /\ timer' \in [Kinds -> Payloads]
          BY <3>1, <3>2, EffectsTyped DEF Payloads
      <3>5. QED
          BY <1>2, <3>1, <3>2, <3>3, <3>4, RenderTyped DEF RefreshAnswered, IInv, FormTypeOK
    <2>2. CASE UNCHANGED <<formVars, rev, shortcut>>
        BY <2>2, FormKept DEF RefreshAnswered
    <2>3. QED
        BY <2>1, <2>2 DEF RefreshAnswered
  <1>4. HandlerOK'
      BY NothingTyped DEF RefreshAnswered, NoRefresh, IInv, HandlerOK, HandlerTypeOK, KnownSessions
  <1>5. QED
      BY <1>3, <1>4, TurnKept, BookKept DEF RefreshAnswered, IInv

-----------------------------------------------------------------------------
(* The server and the network.                                             *)

\* A write of one half, which moves the revision on.
LEMMA WriteTyped ==
    ASSUME NEW w \in Workspaces, NEW v \in Values
    PROVE  /\ [w EXCEPT !.rows = v, !.rev = @ + 1] \in Workspaces
           /\ [w EXCEPT !.cust = v, !.rev = @ + 1] \in Workspaces
           /\ [w EXCEPT !.open = FALSE] \in Workspaces
  <1>1. w.rev \in Nat /\ w.rev + 1 \in Nat
      BY DEF Workspaces
  <1>2. QED
      BY <1>1 DEF Workspaces

\* The PUT under way gets its answer and keeps its turn.
LEMMA PutTold ==
    ASSUME IInv, put' \in PutRecords, put.phase # "none", put'.kind = put.kind,
           UNCHANGED <<chain, retryArmed, retryWaits>>
    PROVE  TurnOK'
  BY DEF IInv, TurnOK, TurnTypeOK, SavesTakeTurns, PutPending

LEMMA ServerSavesTyped ==
    ASSUME IInv, NEW answer \in {"ok", "lost"}, ServerSaves(answer)
    PROVE  /\ server' \in [Sessions -> Workspaces]
           /\ put' \in PutRecords /\ put.phase # "none" /\ put'.kind = put.kind
  <1> DEFINE old == server[put.sess]
             new == IF put.kind = "rows"
                    THEN [old EXCEPT !.rows = put.payload, !.rev = @ + 1]
                    ELSE [old EXCEPT !.cust = put.payload, !.rev = @ + 1]
  <1>1. put \in PutRecords /\ put.payload \in Values
      BY DEF IInv, TurnOK, TurnTypeOK, PutRecords
  <1>2. old \in Workspaces
      BY DEF ServerSaves, Accepts, IInv, BookTypeOK
  <1>3. new \in Workspaces /\ new.rows \in Values /\ new.rev \in Nat
    <2>1. new \in Workspaces
        BY <1>1, <1>2, WriteTyped
    <2>2. QED
        BY <2>1 DEF Workspaces
  <1>4. /\ put.phase = "sent" /\ server' = [server EXCEPT ![put.sess] = new]
        /\ put' = [put EXCEPT !.phase = answer, !.rows = new.rows, !.rev = new.rev]
      BY DEF ServerSaves
  <1> HIDE DEF new, old
  <1>5. server' \in [Sessions -> Workspaces]
      BY <1>3, <1>4 DEF IInv, BookTypeOK
  <1>6. put' \in PutRecords /\ put'.kind = put.kind
      BY <1>1, <1>3, <1>4 DEF PutRecords
  <1>7. QED
      BY <1>4, <1>5, <1>6

LEMMA ServerAnswersPutKeeps ==
    ASSUME IInv, ServerAnswersPut
    PROVE  IInv'
  <1>1. CASE ServerSaves("ok")
    <2>1. /\ server' \in [Sessions -> Workspaces]
          /\ put' \in PutRecords /\ put.phase # "none" /\ put'.kind = put.kind
        BY <1>1, ServerSavesTyped
    <2>2. BookTypeOK'
        BY <2>1 DEF ServerAnswersPut, IInv, BookTypeOK
    <2>3. QED
        BY <2>1, <2>2, PutTold, FormKept, HandlerKept DEF ServerAnswersPut, IInv
  <1>2. CASE /\ put.phase = "sent" /\ ~Accepts(put.sess, put.base)
             /\ put' = [put EXCEPT !.phase = "refused"]
             /\ UNCHANGED server
    <2>1. put' \in PutRecords /\ put'.kind = put.kind /\ put.phase # "none"
        BY <1>2 DEF IInv, TurnOK, TurnTypeOK, PutRecords
    <2>2. QED
        BY <1>2, <2>1, PutTold, BookKept, FormKept, HandlerKept DEF ServerAnswersPut, IInv
  <1>3. QED
      BY <1>1, <1>2 DEF ServerAnswersPut

LEMMA ServerAnswersCallKeeps ==
    ASSUME IInv, ServerAnswersCall
    PROVE  IInv'
  <1>1. call \in CallRecords /\ call.cust \in Values
      BY DEF IInv, HandlerOK, HandlerTypeOK, CallRecords
  <1>2. /\ server' \in [Sessions -> Workspaces]
        /\ call' \in CallRecords
        /\ call'.phase = "ok" /\ call'.op \in {"select", "detach"} => call'.sess \in Sessions
    <2>1. CASE ServerCloses
      <3>1. call' \in CallRecords /\ call'.op = call.op
          BY <1>1, <2>1 DEF ServerCloses, CallRecords
      <3>2. [server[call.sess] EXCEPT !.open = FALSE] \in Workspaces
        <4>1. server[call.sess] \in Workspaces
            BY <2>1 DEF ServerCloses, IInv, BookTypeOK
        <4>2. QED
            BY <4>1, <1>1, WriteTyped
      <3>3. server' = [server EXCEPT ![call.sess] = [server[call.sess] EXCEPT !.open = FALSE]]
          BY <2>1 DEF ServerCloses, IInv, BookTypeOK
      <3>4. QED
          BY <2>1, <3>1, <3>2, <3>3 DEF ServerCloses, IInv, BookTypeOK
    <2>2. CASE ServerSetsCustomer
      <3> DEFINE old == server[call.sess]
                 new == [old EXCEPT !.cust = IF call.op = "select" THEN call.cust ELSE Blank,
                                    !.rev = @ + 1]
      <3>1. old \in Workspaces
            /\ call.sess \in Sessions
          BY <2>2 DEF ServerSetsCustomer, Accepts, IInv, BookTypeOK
      <3>2. new \in Workspaces
        <4>1. (IF call.op = "select" THEN call.cust ELSE Blank) \in Values
            BY <1>1, NothingTyped
        <4>2. QED
            BY <3>1, <4>1, WriteTyped
      <3>3. /\ server' = [server EXCEPT ![call.sess] = new]
            /\ call' = [call EXCEPT !.phase = "ok", !.rows = new.rows,
                                    !.cust = new.cust, !.rev = new.rev]
          BY <2>2 DEF ServerSetsCustomer
      <3> HIDE DEF old, new
      <3>4. call' \in CallRecords /\ call'.sess = call.sess
          BY <1>1, <3>2, <3>3 DEF CallRecords, Workspaces
      <3>5. QED
          BY <3>1, <3>2, <3>3, <3>4 DEF IInv, BookTypeOK
    <2>3. CASE ServerRefusesCall
      <3>1. call' \in CallRecords /\ call'.phase = "failed" /\ server' = server
          BY <1>1, <2>3 DEF ServerRefusesCall, CallRecords
      <3>2. QED
          BY <3>1 DEF IInv, BookTypeOK
    <2>4. QED
        BY <2>1, <2>2, <2>3 DEF ServerAnswersCall
  <1>3. BookTypeOK'
      BY <1>2 DEF ServerAnswersCall, IInv, BookTypeOK
  <1>4. HandlerOK'
      BY <1>2 DEF ServerAnswersCall, IInv, HandlerOK, HandlerTypeOK, KnownSessions
  <1>5. QED
      BY <1>3, <1>4, TurnKept, FormKept DEF ServerAnswersCall, IInv

LEMMA ServerReadsKeeps ==
    ASSUME IInv, ServerReads
    PROVE  IInv'
  <1>1. refresh.sess \in Sessions /\ refresh \in RefreshRecords
      BY DEF ServerReads, IInv, HandlerOK, HandlerTypeOK, KnownSessions
  <1>2. server[refresh.sess].rows \in Values /\ server[refresh.sess].cust \in Values
        /\ server[refresh.sess].rev \in Nat
      BY <1>1 DEF IInv, BookTypeOK, Workspaces
  <1>3. refresh' \in RefreshRecords /\ refresh'.phase = "ok"
      BY <1>1, <1>2 DEF ServerReads, RefreshRecords
  <1>4. HandlerOK'
      BY <1>3 DEF ServerReads, IInv, HandlerOK, HandlerTypeOK, KnownSessions
  <1>5. QED
      BY <1>4, BookKept, TurnKept, FormKept DEF ServerReads, IInv

LEMMA NetworkFailsKeeps ==
    ASSUME IInv, NetworkFails
    PROVE  IInv'
  <1>1. faults' \in Nat
      BY DEF NetworkFails, IInv, BookTypeOK
  <1>2. CASE /\ put.phase = "sent"
             /\ put' = [put EXCEPT !.phase = "lost"]
             /\ UNCHANGED <<server, call, refresh>>
    <2>1. put' \in PutRecords /\ put'.kind = put.kind /\ put.phase # "none"
        BY <1>2 DEF IInv, TurnOK, TurnTypeOK, PutRecords
    <2>2. BookTypeOK'
        BY <1>1, <1>2 DEF NetworkFails, IInv, BookTypeOK
    <2>3. QED
        BY <1>2, <2>1, <2>2, PutTold, FormKept, HandlerKept DEF NetworkFails, IInv
  <1>3. CASE ServerSaves("lost") /\ UNCHANGED <<call, refresh>>
    <2>1. /\ server' \in [Sessions -> Workspaces]
          /\ put' \in PutRecords /\ put.phase # "none" /\ put'.kind = put.kind
        BY <1>3, ServerSavesTyped
    <2>2. BookTypeOK'
        BY <1>1, <2>1 DEF NetworkFails, IInv, BookTypeOK
    <2>3. QED
        BY <1>3, <2>1, <2>2, PutTold, FormKept, HandlerKept DEF NetworkFails, IInv
  <1>4. CASE /\ call.phase \in {"sent", "ok"}
             /\ call' = [call EXCEPT !.phase = "failed"]
             /\ UNCHANGED <<server, put, refresh>>
    <2>1. call' \in CallRecords /\ call'.phase = "failed"
        BY <1>4 DEF IInv, HandlerOK, HandlerTypeOK, CallRecords
    <2>2. HandlerOK'
        BY <1>4, <2>1 DEF NetworkFails, IInv, HandlerOK, HandlerTypeOK, KnownSessions
    <2>3. BookTypeOK'
        BY <1>1, <1>4 DEF NetworkFails, IInv, BookTypeOK
    <2>4. QED
        BY <1>4, <2>2, <2>3, TurnKept, FormKept DEF NetworkFails, IInv
  <1>5. CASE /\ refresh.phase = "sent"
             /\ refresh' = NoRefresh
             /\ UNCHANGED <<server, put, call>>
    <2>1. HandlerOK'
        BY <1>5, NothingTyped
        DEF NetworkFails, NoRefresh, IInv, HandlerOK, HandlerTypeOK, KnownSessions
    <2>2. BookTypeOK'
        BY <1>1, <1>5 DEF NetworkFails, IInv, BookTypeOK
    <2>3. QED
        BY <1>5, <2>1, <2>2, TurnKept, FormKept DEF NetworkFails, IInv
  <1>6. QED
      BY <1>2, <1>3, <1>4, <1>5 DEF NetworkFails

LEMMA OtherSurfaceKeeps ==
    ASSUME IInv, NEW s \in Sessions, OtherSurfaceSaves(s)
    PROVE  IInv'
  <1>1. PICK v \in Halves(edits) : server' = [server EXCEPT ![s].rows = v, ![s].rev = @ + 1]
      BY DEF OtherSurfaceSaves
  <1>2. v \in Values
      BY <1>1, BoundAssumption DEF IInv, BookTypeOK, Values, Halves
  <1>3. [server[s] EXCEPT !.rows = v, !.rev = @ + 1] \in Workspaces
      BY <1>2, WriteTyped DEF IInv, BookTypeOK
  <1>4. server' = [server EXCEPT ![s] = [server[s] EXCEPT !.rows = v, !.rev = @ + 1]]
      BY <1>1 DEF IInv, BookTypeOK
  <1>5. BookTypeOK'
    <2>1. server' \in [Sessions -> Workspaces]
        BY <1>3, <1>4 DEF IInv, BookTypeOK
    <2>2. writes' \in Nat /\ UNCHANGED <<edits, faults>>
        BY DEF OtherSurfaceSaves, IInv, BookTypeOK
    <2>3. QED
        BY <2>1, <2>2 DEF IInv, BookTypeOK
  <1>6. QED
      BY <1>5, TurnKept, FormKept, HandlerKept DEF OtherSurfaceSaves, IInv

-----------------------------------------------------------------------------

LEMMA NextKeeps ==
    ASSUME IInv, [Next]_vars
    PROVE  IInv'
  <1>1. CASE UNCHANGED vars
      BY <1>1, BookKept, FormKept, TurnKept, HandlerKept DEF vars, formVars, IInv
  <1>2. QED
      BY <1>1, OpenKeeps, OtherSurfaceKeeps, EditKeeps, DebounceKeeps, FlowStartKeeps, BlurKeeps,
         SelectKeeps, CancelKeeps, ArtifactSignalKeeps, LoopSendsKeeps, LoopEndsKeeps,
         PutAnsweredKeeps, RetryFiresKeeps, FlowGoesOnKeeps, FlowActsKeeps, CallAnsweredKeeps,
         RefreshAnsweredKeeps, ServerAnswersPutKeeps, ServerAnswersCallKeeps, ServerReadsKeeps,
         NetworkFailsKeeps
      DEF Next

LEMMA InitKeeps ==
    ASSUME Init
    PROVE  IInv
  <1>1. BookTypeOK
      BY NothingTyped, BoundAssumption DEF Init, BookTypeOK, Workspaces
  <1>2. FormTypeOK
      BY NothingTyped DEF Init, FormTypeOK, Payloads
  <1>3. chain = <<>> /\ put = NoPut /\ put.phase = "none"
      BY DEF Init, NoPut
  <1>4. TurnOK
    <2>1. chain \in Seq(Kinds) /\ DOMAIN chain = {}
        BY <1>3
    <2>2. SavesTakeTurns
        BY <1>3, <2>1 DEF SavesTakeTurns, PutPending
    <2>3. QED
        BY <1>3, <2>1, <2>2, NothingTyped DEF Init, TurnOK, TurnTypeOK
  <1>5. HandlerOK
      BY NothingTyped DEF Init, HandlerOK, HandlerTypeOK, KnownSessions, NoRefresh, NoCall
  <1>6. QED
      BY <1>1, <1>2, <1>4, <1>5 DEF IInv

LEMMA Inductive == Spec => []IInv
  <1>1. Init => IInv
      BY InitKeeps
  <1>2. IInv /\ [Next]_vars => IInv'
      BY NextKeeps
  <1>3. QED
      BY <1>1, <1>2, PTL DEF Spec

\* Every variable keeps its type, whatever the operator's habits.
THEOREM TypeCorrect == Spec => []TypeOK
  <1>1. IInv => TypeOK
      BY DEF IInv, TypeOK, TurnOK, HandlerOK
  <1>2. QED
      BY <1>1, Inductive, PTL

\* The two halves never have a PUT under way at once, and a half never has two
\* save loops, however its debounce, the blur handler, a flush and a retry
\* meet.
THEOREM OneSaveAtATime == Spec => []SavesTakeTurns
  <1>1. IInv => SavesTakeTurns
      BY DEF IInv, TurnOK
  <1>2. QED
      BY <1>1, Inductive, PTL

-----------------------------------------------------------------------------
(* What a step does to the revision and to the form.                       *)


LEMMA OthersMoveNothing ==
    ASSUME [Next]_vars,
           ~(\E s \in Sessions : Open(s)), ~(\E k \in Kinds : Edit(k)),
           ~PutAnswered, ~CallAnswered, ~RefreshAnswered
    PROVE  UNCHANGED <<rev, form>>
  <1>1. CASE UNCHANGED vars
      BY <1>1 DEF vars
  <1>2. CASE \/ \E s \in Sessions : OtherSurfaceSaves(s)
             \/ \E k \in Kinds : DebounceFires(k)
             \/ CustomerBlur \/ LoopSends \/ LoopEnds \/ RetryFires
             \/ FlowGoesOn \/ PauseEnds \/ FlowActs
             \/ \E op \in Flows : FlowStart(op)
      BY <1>2 DEF OtherSurfaceSaves, DebounceFires, CustomerBlur, LoopSends, LoopEnds, RetryFires,
                  FlowGoesOn, PauseEnds, FlowActs, FlowStart, formVars
  <1>3. CASE \/ SelectCustomer \/ CancelWorkspace \/ ArtifactSignal
             \/ ServerAnswersPut \/ ServerAnswersCall \/ ServerReads \/ NetworkFails
      BY <1>3 DEF SelectCustomer, CancelWorkspace, ArtifactSignal, ServerAnswersPut,
                  ServerAnswersCall, ServerReads, NetworkFails, formVars
  <1>4. QED
      BY <1>1, <1>2, <1>3 DEF Next

\* A response for the workspace shown moves its revision on.
LEMMA RevisionMoves ==
    ASSUME IInv, [Next]_vars, session' = session, session # NoSession
    PROVE  rev' >= rev
  <1>1. rev \in Nat /\ put.rev \in Nat /\ call.rev \in Nat /\ refresh.rev \in Nat
      BY DEF IInv, FormTypeOK, TurnOK, TurnTypeOK, HandlerOK, HandlerTypeOK, PutRecords,
             CallRecords, RefreshRecords
  <1>2. CASE \E s \in Sessions : Open(s)
      BY <1>2 DEF Open
  <1>3. CASE \E k \in Kinds : Edit(k)
    <2>1. rev' = rev
        BY <1>3 DEF Edit
    <2>2. QED
        BY <1>1, <2>1
  <1>4. CASE PutAnswered
    <2>1. CASE PutIgnored \/ PutFailed
        BY <1>1, <2>1 DEF PutIgnored, PutFailed
    <2>2. CASE PutOvertaken \/ RowsAcknowledged
      <3>1. rev' = put.rev /\ ~PutUseless
          BY <2>2 DEF PutOvertaken, RowsAcknowledged
      <3>2. QED
          BY <1>1, <3>1 DEF PutUseless
    <2>3. CASE CustomerAcknowledged
        BY <1>1, <2>3 DEF CustomerAcknowledged, ApplyWorkspace, PutUseless
    <2>4. QED
        BY <1>4, <2>1, <2>2, <2>3 DEF PutAnswered
  <1>5. CASE CallAnswered
    <2>1. CASE CallCloses
        BY <2>1 DEF CallCloses
    <2>2. CASE CallApplies
        BY <1>1, <2>2 DEF CallApplies, ApplyWorkspace, CallStale
    <2>3. CASE CallDone
        BY <1>1, <2>3 DEF CallDone
    <2>4. QED
        BY <1>5, <2>1, <2>2, <2>3 DEF CallAnswered
  <1>6. CASE RefreshAnswered
      BY <1>1, <1>6 DEF RefreshAnswered, RefreshApplies, RefreshUseful
  <1>7. QED
      BY <1>1, <1>2, <1>3, <1>4, <1>5, <1>6, OthersMoveNothing

\* The form never goes back to an older revision of the workspace it shows, in
\* whatever order the answers of saves, reads, selections and detachments
\* arrive.
THEOREM NeverBack == Spec => RevisionsGrow
  <1>1. IInv /\ [Next]_vars => [session' = session /\ session # NoSession => rev' >= rev]_vars
      BY RevisionMoves
  <1>2. QED
      BY <1>1, Inductive, PTL DEF Spec, RevisionsGrow

\* The answer to a GET or a PUT that has arrived, for a half with unsaved
\* content.
AnswerTaken(k) ==
    \/ refresh.phase = "ok" /\ refresh'.phase = "none"
    \/ /\ put.phase = "ok" /\ put'.phase = "none"
       /\ k = "rows" => put.kind = "rows"

LEMMA FormMoves ==
    ASSUME IInv, [Next]_vars, NEW k \in Kinds, Dirty(k), session' = session, AnswerTaken(k)
    PROVE  form'[k] = form[k]
  <1>1. ASSUME NEW f PROVE Overtaken(f).phase = refresh.phase
      BY OvertakenTyped
  <1>2. CASE \E s \in Sessions : Open(s)
      BY <1>2 DEF Open
  <1>3. CASE \E j \in Kinds : Edit(j)
    <2>1. refresh'.phase = refresh.phase /\ put' = put
        BY <1>3 DEF Edit, IInv, HandlerOK, HandlerTypeOK, RefreshRecords
    <2>2. QED
        BY <2>1 DEF AnswerTaken
  <1>4. CASE PutAnswered
    <2>1. CASE PutIgnored \/ PutOvertaken \/ RowsAcknowledged \/ PutFailed
        BY <2>1 DEF PutIgnored, PutOvertaken, RowsAcknowledged, PutFailed
    <2>2. CASE CustomerAcknowledged
      <3>1. /\ refresh'.phase = refresh.phase /\ put.kind = "cust" /\ form["cust"] = put.payload
            /\ form' = [j \in Kinds |-> IF j = "rows" THEN put.rows ELSE put.payload]
          BY <1>1, <2>2 DEF CustomerAcknowledged, ApplyWorkspace
      <3>2. k = "cust"
          BY <3>1 DEF AnswerTaken, Kinds
      <3>3. QED
          BY <3>1, <3>2 DEF Kinds
    <2>3. QED
        BY <1>4, <2>1, <2>2 DEF PutAnswered
  <1>5. CASE CallAnswered
    <2>1. CASE CallCloses \/ CallDone
      <3>1. UNCHANGED <<refresh, put>>
          BY <1>5, <2>1 DEF CallAnswered, CallCloses, CallDone
      <3>2. QED
          BY <3>1 DEF AnswerTaken
    <2>2. CASE CallApplies
      <3>1. refresh.phase = "ok" => refresh'.phase = "ok"
          BY <1>1, <2>2 DEF CallApplies, ApplyWorkspace, Reading
      <3>2. put' = put
          BY <1>5 DEF CallAnswered
      <3>3. QED
          BY <3>1, <3>2 DEF AnswerTaken
    <2>3. QED
        BY <1>5, <2>1, <2>2 DEF CallAnswered
  <1>6. CASE RefreshAnswered
    <2>1. CASE RefreshApplies
        BY <2>1 DEF RefreshApplies, RefreshUseful
    <2>2. CASE UNCHANGED <<formVars, rev, shortcut>>
        BY <2>2 DEF formVars
    <2>3. QED
        BY <1>6, <2>1, <2>2 DEF RefreshAnswered
  <1>7. QED
      BY <1>2, <1>3, <1>4, <1>5, <1>6, OthersMoveNothing

\* What is typed and not acknowledged is not replaced by the answer to a read
\* or to a save of its half, nor the customer by any answer to a save.
THEOREM TypedSurvives == Spec => KeystrokesSurvive
  <1>1. IInv /\ [Next]_vars =>
          [\A k \in Kinds :
            (/\ Dirty(k) /\ session' = session
             /\ \/ refresh.phase = "ok" /\ refresh'.phase = "none"
                \/ /\ put.phase = "ok" /\ put'.phase = "none"
                   /\ k = "rows" => put.kind = "rows")
                => form'[k] = form[k]]_vars
      BY FormMoves DEF AnswerTaken
  <1>2. QED
      BY <1>1, Inductive, PTL DEF Spec, KeystrokesSurvive
=============================================================================
