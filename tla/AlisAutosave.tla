---------------------------- MODULE AlisAutosave ----------------------------
(***************************************************************************)
(* The purchase form of the desktop frontend: how useAlisMakeState keeps   *)
(* what the operator types in step with the workspace on the server.       *)
(*                                                                         *)
(* Source: src/frontend/src-v2/make/alis/useAlisMakeState.ts.  The form    *)
(* has two halves that are saved separately, the sections ("rows") and the *)
(* customer ("cust").  Each half has a debounce timer, a one-place queue   *)
(* and a save loop; the loops of both halves take turns on one write       *)
(* chain.  Every PUT carries the revision the form believes the server     *)
(* has, and the server refuses it when that revision is not the current    *)
(* one.  Reads of the workspace, customer selection and detachment,        *)
(* finalization and cancellation run beside the chain.                     *)
(*                                                                         *)
(* JavaScript runs one task at a time and drains the microtasks (promise   *)
(* continuations) before the next one: an action here is one task or one   *)
(* continuation, and no keystroke, timer or response is taken while a      *)
(* continuation is due (Micro).                                            *)
(***************************************************************************)
EXTENDS Integers, Sequences, FiniteSets

CONSTANTS
    Sessions,     \* the open purchase workspaces
    NoSession,    \* no workspace is open in the form
    NoPayload,    \* an empty queue place, an idle timer
    Partial,      \* customers with a partial postal code or a one-letter name
    Habits,       \* what the operator may do beyond the ordinary, see HabitNames
    MaxEdits,     \* bound: different values ever given to a half
    MaxFaults,    \* bound: requests or responses lost by the network
    MaxWrites     \* bound: writes of another surface

\* Take a change back, type while an answer is awaited, change one half while
\* the other is unsaved, switch to the workbook and back, finalize with Ctrl+S.
HabitNames == {"revert", "typeOn", "mix", "switch", "keys"}

ASSUME SessionAssumption == NoSession \notin Sessions
ASSUME PayloadAssumption == NoPayload \notin [live : Nat, held : Nat]
ASSUME BoundAssumption == MaxEdits \in Nat /\ MaxFaults \in Nat /\ MaxWrites \in Nat
ASSUME HabitAssumption == Habits \subseteq HabitNames /\ Partial \subseteq Nat

Kinds == {"rows", "cust"}
Flows == {"finalize", "shortcut", "view", "detach"}
Calls == {"finalize", "cancel", "select", "detach"}

VARIABLES
    server,      \* per workspace: its two halves, its revision, whether it is open
    session,     \* initializedSessionRef, the workspace the form shows
    rev,         \* workspaceRevisionRef
    form,        \* the two halves as the operator sees them
    acked,       \* autosaveKeyRef and customerAutosaveKeyRef
    queue,       \* queuedSectionsPayloadRef and queuedCustomerPayloadRef
    timer,       \* the payload a running debounce timer has captured
    chain,       \* workspaceWriteChainRef: save loops, the first one running
    put,         \* the PUT of the running loop
    refresh,     \* a GET of the workspace
    call,        \* a POST outside the chain
    flow,        \* an asynchronous handler that flushes before it acts
    finalizing,  \* finalizeInFlightRef
    shortcut,    \* what the keyboard handler's closure has captured
    retryArmed,  \* autosaveRetryTimerRef
    retryWaits,  \* per fired retry: the save loops it still waits for
    view,        \* activeWorkspaceView
    edits, faults, writes

formVars == <<form, acked, queue, timer>>
vars == <<server, session, rev, form, acked, queue, timer, chain, put, refresh,
          call, flow, finalizing, shortcut, retryArmed, retryWaits, view,
          edits, faults, writes>>

\* The content of a half: what every handler reads through refs when it needs it
\* (the weighed rows), and what a handler has from the render it was made in
\* (rates, VAT, numbering, calculators, invoice rows; all of the customer).
Halves(n) == [live : 0..n, held : 0..n]
Half(live, held) == [live |-> live, held |-> held]

\* An empty half: no rows, no customer.  Without a customer there is nothing to
\* save whatever the key of the customer half holds.
Blank == Half(0, 0)

Values == Halves(MaxEdits)
Payloads == Values \cup {NoPayload}

NoPut == [phase |-> "none", kind |-> "rows", sess |-> NoSession,
          payload |-> Blank, base |-> 0, rows |-> Blank, rev |-> 0]
NoRefresh == [phase |-> "none", sess |-> NoSession, fresh |-> FALSE, pend |-> FALSE,
              rows |-> Blank, cust |-> Blank, rev |-> 0]
NoCall == [phase |-> "none", op |-> "cancel", sess |-> NoSession, base |-> 0,
           rows |-> Blank, cust |-> Blank, rev |-> 0]
NoFlow == [phase |-> "none", op |-> "view", sess |-> NoSession, terms |-> 0, cust |-> Blank,
           pend |-> FALSE, again |-> FALSE]

Workspaces == [rows : Values, cust : Values, rev : Nat, open : BOOLEAN]
Renders == [terms : 0..MaxEdits, cust : Values, pend : BOOLEAN]
PutRecords ==
    [phase : {"none", "sent", "ok", "refused", "lost"}, kind : Kinds,
     sess : Sessions \cup {NoSession}, payload : Values, base : Nat, rows : Values, rev : Nat]
RefreshRecords ==
    [phase : {"none", "sent", "ok"}, sess : Sessions \cup {NoSession},
     fresh : BOOLEAN, pend : BOOLEAN, rows : Values, cust : Values, rev : Nat]
CallRecords ==
    [phase : {"none", "sent", "ok", "failed", "settling"}, op : Calls,
     sess : Sessions \cup {NoSession}, base : Nat, rows : Values, cust : Values, rev : Nat]
FlowRecords ==
    [phase : {"none", "rows", "rowsDone", "cust", "flushed", "pause"}, op : Flows,
     sess : Sessions \cup {NoSession}, terms : 0..MaxEdits, cust : Values,
     pend : BOOLEAN, again : BOOLEAN]

BookTypeOK ==
    /\ server \in [Sessions -> Workspaces]
    /\ edits \in 0..MaxEdits /\ faults \in Nat /\ writes \in Nat

FormTypeOK ==
    /\ session \in Sessions \cup {NoSession}
    /\ rev \in Nat
    /\ form \in [Kinds -> Values]
    /\ acked \in [Kinds -> Values]
    /\ queue \in [Kinds -> Payloads]
    /\ timer \in [Kinds -> Payloads]
    /\ shortcut \in Renders
    /\ view \in {"system", "excel"}

TurnTypeOK ==
    /\ chain \in Seq(Kinds)
    /\ put \in PutRecords
    /\ retryArmed \in BOOLEAN
    /\ retryWaits \subseteq SUBSET Kinds

HandlerTypeOK ==
    /\ refresh \in RefreshRecords
    /\ call \in CallRecords
    /\ flow \in FlowRecords
    /\ finalizing \in BOOLEAN

TypeOK == BookTypeOK /\ FormTypeOK /\ TurnTypeOK /\ HandlerTypeOK

\* What a closure holds of the render it was made in: the sections' terms, the
\* customer, whether a save mutation was pending.
Render(f, pend) == [terms |-> f["rows"].held, cust |-> f["cust"], pend |-> pend]
BlankRender == [terms |-> 0, cust |-> Blank, pend |-> FALSE]

Init ==
    /\ server = [s \in Sessions |-> [rows |-> Blank, cust |-> Blank, rev |-> 1, open |-> TRUE]]
    /\ session = NoSession
    /\ rev = 1
    /\ form = [k \in Kinds |-> Blank]
    /\ acked = [k \in Kinds |-> Blank]
    /\ queue = [k \in Kinds |-> NoPayload]
    /\ timer = [k \in Kinds |-> NoPayload]
    /\ chain = <<>>
    /\ put = NoPut
    /\ refresh = NoRefresh
    /\ call = NoCall
    /\ flow = NoFlow
    /\ finalizing = FALSE
    /\ shortcut = BlankRender
    /\ retryArmed = FALSE
    /\ retryWaits = {}
    /\ view = "system"
    /\ edits = 0 /\ faults = 0 /\ writes = 0

-----------------------------------------------------------------------------
(* What the handlers ask.                                                  *)

Dirty(k) == form[k] # acked[k]
Queued == \E k \in Kinds : queue[k] # NoPayload
PutPending == put.phase # "none"

\* The customer halves that autosave and flush leave alone.
Invalid(k, v) == k = "cust" /\ v.held \in Partial

\* Mutant: the loop takes its turn without looking.
WaitingAlways(k) == TRUE

\* The loop's condition: a payload is in its half's place.
Waiting(k) == queue[k] # NoPayload

\* hasPendingWorkspaceSync, asked by code that sees the current render.
Pending == PutPending \/ Queued \/ \E k \in Kinds : Dirty(k)

\* A continuation is due: the running save loop's next turn, or an
\* asynchronous handler whose awaited save has settled.
Micro == \/ chain # <<>> /\ ~PutPending
         \/ flow.phase \in {"rowsDone", "flushed"}

\* Mutant: a flush does not notice the loop that is already there.
EnqueuedAgain(c, k) == Append(c, k)

\* flushQueued...Save: a loop that exists is shared, a new one joins the chain.
Enqueued(c, k) == IF \E i \in DOMAIN c : c[i] = k THEN c ELSE Append(c, k)

-----------------------------------------------------------------------------
(* The autosave effects run after every change of the form.                *)

Muted(k) == k = "rows" /\ finalizing

EffectTimer(k, v, key) ==
    IF Muted(k) \/ Invalid(k, v) \/ v = key THEN NoPayload ELSE v

EffectQueue(k, v, key) ==
    IF ~Muted(k) /\ ~Invalid(k, v) /\ v = key THEN NoPayload ELSE queue[k]

\* A change of the form's content moves localEditGenerationRef on, and a GET
\* that was sent before does not count any more.
Overtaken(f) == [refresh EXCEPT !.fresh = @ /\ f = form]

\* The view and session effect reads the workspace; one GET at a time.
Reading(s, g) ==
    IF g.phase = "none"
    THEN [NoRefresh EXCEPT !.phase = "sent", !.sess = s, !.fresh = TRUE, !.pend = PutPending]
    ELSE g

\* applyWorkspace: both halves, both keys and the revision come from the
\* response, whatever was in the form.
ApplyWorkspace(s, d, pend) ==
    LET f == [k \in Kinds |-> IF k = "rows" THEN d.rows ELSE d.cust] IN
    /\ session' = s
    /\ rev' = d.rev
    /\ form' = f
    /\ acked' = f
    /\ timer' = [k \in Kinds |-> NoPayload]
    /\ queue' = [k \in Kinds |-> EffectQueue(k, f[k], f[k])]
    /\ shortcut' = Render(f, pend)
    /\ refresh' = IF s = session THEN Overtaken(f) ELSE Reading(s, refresh)

-----------------------------------------------------------------------------
(* The operator.                                                           *)

\* activateWorkspace, for an opened or resumed workspace.
Open(s) ==
    /\ ~Micro
    /\ s # session /\ server[s].open
    /\ LET f == [k \in Kinds |-> IF k = "rows" THEN server[s].rows ELSE server[s].cust] IN
        /\ form' = f
        /\ acked' = f
        /\ shortcut' = Render(f, PutPending)
    /\ session' = s
    /\ rev' = server[s].rev
    /\ timer' = [k \in Kinds |-> NoPayload]
    /\ queue' = [k \in Kinds |-> NoPayload]
    /\ refresh' = Reading(s, refresh)
    /\ view' = "system"
    /\ UNCHANGED <<server, chain, put, call, flow, finalizing, retryArmed, retryWaits,
                   edits, faults, writes>>

\* New content for a half.  The invoice rows follow the weighed ones in auto
\* mode: one change may reach both parts of the sections.
NewValues(k) ==
    IF k = "rows" THEN {Half(l, h) : l \in {form[k].live, edits + 1},
                                     h \in {form[k].held, edits + 1}}
                  ELSE {Half(0, edits + 1)}

\* What a half can be given: something nobody used before or, for an operator
\* who takes a change back, what the server acknowledged last.
EditValues(k) ==
    (IF edits < MaxEdits THEN NewValues(k) ELSE {})
        \cup (IF "revert" \in Habits THEN {acked[k]} ELSE {})

Edit(k) ==
    /\ ~Micro
    /\ session # NoSession
    /\ flow.phase # "none" \/ call.phase # "none" => "typeOn" \in Habits
    /\ (\E j \in Kinds \ {k} : Dirty(j)) => "mix" \in Habits
    /\ \E v \in EditValues(k) :
        /\ v # form[k]
        /\ form' = [form EXCEPT ![k] = v]
        /\ edits' = IF v = acked[k] THEN edits ELSE edits + 1
        /\ timer' = [timer EXCEPT ![k] = EffectTimer(k, v, acked[k])]
        /\ queue' = [queue EXCEPT ![k] = EffectQueue(k, v, acked[k])]
        /\ refresh' = [refresh EXCEPT !.fresh = FALSE]
    /\ UNCHANGED <<server, session, rev, acked, chain, put, call, flow, finalizing,
                   shortcut, retryArmed, retryWaits, view, faults, writes>>

CustomerBlur ==
    /\ ~Micro
    /\ session # NoSession
    /\ Dirty("cust") /\ ~Invalid("cust", form["cust"])
    /\ queue' = [queue EXCEPT !["cust"] = form["cust"]]
    /\ chain' = Enqueued(chain, "cust")
    /\ UNCHANGED <<server, session, rev, form, acked, timer, put, refresh, call, flow,
                   finalizing, shortcut, retryArmed, retryWaits, view, edits, faults, writes>>

DebounceFires(k) ==
    /\ ~Micro
    /\ timer[k] # NoPayload
    /\ timer' = [timer EXCEPT ![k] = NoPayload]
    /\ queue' = [queue EXCEPT ![k] = timer[k]]
    /\ chain' = Enqueued(chain, k)
    /\ UNCHANGED <<server, session, rev, form, acked, put, refresh, call, flow,
                   finalizing, shortcut, retryArmed, retryWaits, view, edits, faults, writes>>

-----------------------------------------------------------------------------
(* The save loop.                                                          *)

\* The loop of k is over: whoever awaited it goes on, and a retry whose loops
\* are all over arms the timer again if a payload is left in q.
Settle(k, q, arm) ==
    LET rest == {w \ {k} : w \in retryWaits} IN
    /\ chain' = Tail(chain)
    /\ flow' = IF flow.phase = k
               THEN [flow EXCEPT !.phase = IF k = "rows" THEN "rowsDone" ELSE "flushed"]
               ELSE flow
    /\ retryWaits' = rest \ {{}}
    /\ retryArmed' = \/ retryArmed
                     \/ session # NoSession /\ arm
                     \/ session # NoSession /\ {} \in rest /\ \E j \in Kinds : q[j] # NoPayload

LoopSends ==
    /\ chain # <<>> /\ ~PutPending
    /\ LET k == Head(chain) IN
        /\ Waiting(k)
        /\ queue' = [queue EXCEPT ![k] = NoPayload]
        /\ put' = IF queue[k] = acked[k] THEN NoPut
                  ELSE [NoPut EXCEPT !.phase = "sent", !.kind = k, !.sess = session,
                                     !.payload = queue[k], !.base = rev]
    /\ UNCHANGED <<server, session, rev, form, acked, timer, chain, refresh, call, flow,
                   finalizing, shortcut, retryArmed, retryWaits, view, edits, faults, writes>>

LoopEnds ==
    /\ chain # <<>> /\ ~PutPending
    /\ ~Waiting(Head(chain))
    /\ Settle(Head(chain), queue, FALSE)
    /\ UNCHANGED <<server, session, rev, form, acked, queue, timer, put, refresh, call,
                   finalizing, shortcut, view, edits, faults, writes>>

\* A response for another workspace or an older revision is dropped.
PutUseless == put.sess # session \/ put.rev < rev

PutIgnored ==
    /\ put.phase = "ok" /\ PutUseless
    /\ put' = NoPut
    /\ UNCHANGED <<server, session, rev, form, acked, queue, timer, chain, refresh, call,
                   flow, finalizing, shortcut, retryArmed, retryWaits, view,
                   edits, faults, writes>>

\* Mutant: what the form shows by now is taken for acknowledged.
PutOvertakenForgives ==
    /\ put.phase = "ok" /\ ~PutUseless
    /\ form[put.kind] # put.payload
    /\ rev' = put.rev
    /\ acked' = [acked EXCEPT ![put.kind] = form[put.kind]]
    /\ shortcut' = Render(form, FALSE)
    /\ put' = NoPut
    /\ UNCHANGED <<server, session, form, queue, timer, chain, refresh, call,
                   flow, finalizing, retryArmed, retryWaits, view, edits, faults, writes>>

\* Mutant: an answer that was overtaken by typing is dropped altogether.
PutOvertakenDropped ==
    /\ put.phase = "ok" /\ ~PutUseless
    /\ form[put.kind] # put.payload
    /\ put' = NoPut
    /\ UNCHANGED <<server, session, rev, form, acked, queue, timer, chain, refresh, call, flow,
                   finalizing, shortcut, retryArmed, retryWaits, view, edits, faults, writes>>

\* The operator has typed since: only the revision is taken.
PutOvertaken ==
    /\ put.phase = "ok" /\ ~PutUseless
    /\ form[put.kind] # put.payload
    /\ rev' = put.rev
    /\ shortcut' = Render(form, FALSE)
    /\ put' = NoPut
    /\ UNCHANGED <<server, session, form, acked, queue, timer, chain, refresh, call,
                   flow, finalizing, retryArmed, retryWaits, view, edits, faults, writes>>

RowsAcknowledged ==
    /\ put.phase = "ok" /\ ~PutUseless /\ put.kind = "rows"
    /\ form["rows"] = put.payload
    /\ rev' = put.rev
    /\ acked' = [acked EXCEPT !["rows"] = put.payload]
    /\ timer' = [timer EXCEPT !["rows"] = NoPayload]
    /\ queue' = [queue EXCEPT !["rows"] = EffectQueue("rows", put.payload, put.payload)]
    /\ shortcut' = Render(form, FALSE)
    /\ put' = NoPut
    /\ UNCHANGED <<server, session, form, chain, refresh, call, flow, finalizing,
                   retryArmed, retryWaits, view, edits, faults, writes>>

\* A customer response goes through applyWorkspace: the rows too are replaced.
CustomerAcknowledged ==
    /\ put.phase = "ok" /\ ~PutUseless /\ put.kind = "cust"
    /\ form["cust"] = put.payload
    /\ ApplyWorkspace(session, [rows |-> put.rows, cust |-> put.payload, rev |-> put.rev], FALSE)
    /\ put' = NoPut
    /\ UNCHANGED <<server, chain, call, flow, finalizing, retryArmed, retryWaits, view,
                   edits, faults, writes>>

\* Mutants: the failed payload is forgotten; no error is worth a retry.
RequeuedNothing == queue
NeverTransient(answer) == FALSE

\* The failed payload goes back to its place unless a newer one is there.
Requeued == [queue EXCEPT ![put.kind] = IF @ = NoPayload THEN put.payload ELSE @]

\* isTransientAutosaveError: a transport or server error, not a refusal.
Transient(answer) == answer = "lost"

PutFailed ==
    /\ put.phase \in {"refused", "lost"}
    /\ queue' = Requeued
    /\ Settle(put.kind, Requeued, Transient(put.phase))
    /\ put' = NoPut
    /\ UNCHANGED <<server, session, rev, form, acked, timer, refresh, call, finalizing,
                   shortcut, view, edits, faults, writes>>

PutAnswered ==
    ~Micro /\ (\/ PutIgnored \/ PutOvertaken \/ RowsAcknowledged
               \/ CustomerAcknowledged \/ PutFailed)

RetryFires ==
    /\ ~Micro
    /\ retryArmed
    /\ LET due(k) == \/ \E i \in DOMAIN chain : chain[i] = k
                     \/ session # NoSession /\ queue[k] # NoPayload
           c == IF due("rows") THEN Enqueued(chain, "rows") ELSE chain
           waits == {k \in Kinds : due(k)}
       IN /\ chain' = IF due("cust") THEN Enqueued(c, "cust") ELSE c
          /\ retryWaits' = IF waits = {} THEN retryWaits ELSE retryWaits \cup {waits}
    /\ retryArmed' = FALSE
    /\ UNCHANGED <<server, session, rev, form, acked, queue, timer, put, refresh, call,
                   flow, finalizing, shortcut, view, edits, faults, writes>>

-----------------------------------------------------------------------------
(* Handlers that flush before they act.                                    *)

\* The sections as a handler composes them: rows as they are, terms as captured.
Sections(fl) == Half(form["rows"].live, fl.terms)

\* The customer half of flushPendingWorkspaceSync works on the customer the
\* handler's closure captured, on queue q and chain c.
FlushCustomer(fl, q, c) ==
    IF Invalid("cust", fl.cust) \/ fl.cust = acked["cust"]
    THEN /\ flow' = [fl EXCEPT !.phase = "flushed"]
         /\ queue' = q
         /\ chain' = c
    ELSE /\ flow' = [fl EXCEPT !.phase = "cust"]
         /\ queue' = [q EXCEPT !["cust"] = fl.cust]
         /\ chain' = Enqueued(c, "cust")

Flush(fl, q) ==
    IF fl.sess # session
    THEN /\ flow' = [fl EXCEPT !.phase = "flushed"]
         /\ UNCHANGED chain
         /\ queue' = q
    ELSE IF Sections(fl) # acked["rows"]
    THEN /\ flow' = [fl EXCEPT !.phase = "rows"]
         /\ queue' = [q EXCEPT !["rows"] = Sections(fl)]
         /\ chain' = Enqueued(chain, "rows")
    ELSE FlushCustomer(fl, q, chain)

\* A handler captures the render it was made in: the current one, or for the
\* keyboard handler the one of the last change of the workspace object.
FlowStart(op) ==
    /\ ~Micro
    /\ session # NoSession /\ flow.phase = "none" /\ call.phase = "none"
    /\ op = "finalize" => ~finalizing
    /\ op = "detach" => acked["cust"] # Blank
    /\ op = "detach" /\ Pending => "mix" \in Habits
    /\ op = "view" => "switch" \in Habits
    /\ op = "shortcut" => "keys" \in Habits
    /\ finalizing' = (finalizing \/ op = "finalize")
    /\ LET seen == IF op = "shortcut" THEN shortcut ELSE Render(form, PutPending)
           q == IF op = "detach" THEN [queue EXCEPT !["cust"] = NoPayload] ELSE queue
       IN Flush([NoFlow EXCEPT !.op = op, !.sess = session, !.terms = seen.terms,
                               !.cust = seen.cust, !.pend = seen.pend], q)
    /\ UNCHANGED <<server, session, rev, form, acked, timer, put, refresh, call, shortcut,
                   retryArmed, retryWaits, view, edits, faults, writes>>

FlowGoesOn ==
    /\ flow.phase = "rowsDone"
    /\ FlushCustomer(flow, queue, chain)
    /\ UNCHANGED <<server, session, rev, form, acked, timer, put, refresh, call, finalizing,
                   shortcut, retryArmed, retryWaits, view, edits, faults, writes>>

\* The 400 ms the finalize button waits before its second flush.
PauseEnds ==
    /\ ~Micro
    /\ flow.phase = "pause"
    /\ Flush(flow, queue)
    /\ UNCHANGED <<server, session, rev, form, acked, timer, put, refresh, call, finalizing,
                   shortcut, retryArmed, retryWaits, view, edits, faults, writes>>

\* The keyboard handler is made anew when the workspace object changes and when
\* a finalize or cancel starts or ends.
ShortcutRemade(op) ==
    shortcut' = IF session # NoSession /\ op \in {"finalize", "cancel"}
                THEN Render(form, PutPending)
                ELSE shortcut

\* Mutant: the handler trusts its flush for the rows and the queues.
FlowPendingCustomerOnly ==
    flow.sess = session /\ (flow.pend \/ flow.cust # acked["cust"])

\* hasPendingWorkspaceSync as the handler's closure answers it: the weighed rows
\* and the queues are read through refs, the rest is as it was captured.
FlowPending ==
    /\ flow.sess = session
    /\ flow.pend \/ Queued \/ Sections(flow) # acked["rows"] \/ flow.cust # acked["cust"]

Post(op, cust) ==
    [phase |-> "sent", op |-> op, sess |-> session, base |-> rev,
     rows |-> form["rows"], cust |-> cust, rev |-> 0]

FlowPauses ==
    /\ flow.phase = "flushed" /\ flow.op = "finalize"
    /\ FlowPending /\ ~flow.again
    /\ flow' = [flow EXCEPT !.phase = "pause", !.again = TRUE]
    /\ UNCHANGED <<finalizing, call, view, refresh, shortcut>>

FlowGivesUp ==
    /\ flow.phase = "flushed" /\ flow.op # "detach"
    /\ FlowPending /\ (flow.op = "finalize" => flow.again)
    /\ flow' = NoFlow
    /\ finalizing' = (finalizing /\ flow.op # "finalize")
    /\ UNCHANGED <<call, view, refresh, shortcut>>

FlowPosts ==
    /\ flow.phase = "flushed" /\ flow.op # "view"
    /\ flow.op # "detach" => ~FlowPending
    /\ call' = Post(IF flow.op = "detach" THEN "detach" ELSE "finalize", form["cust"])
    /\ ShortcutRemade(call'.op)
    /\ flow' = NoFlow
    /\ UNCHANGED <<finalizing, view, refresh>>

FlowSwitches ==
    /\ flow.phase = "flushed" /\ flow.op = "view" /\ ~FlowPending
    /\ view' = IF view = "system" THEN "excel" ELSE "system"
    /\ refresh' = IF session = NoSession THEN refresh ELSE Reading(session, refresh)
    /\ flow' = NoFlow
    /\ UNCHANGED <<finalizing, call, shortcut>>

FlowActs ==
    /\ FlowPauses \/ FlowGivesUp \/ FlowPosts \/ FlowSwitches
    /\ UNCHANGED <<server, session, rev, form, acked, queue, timer, chain, put,
                   retryArmed, retryWaits, edits, faults, writes>>

-----------------------------------------------------------------------------
(* POSTs outside the write chain; one of them at a time.                   *)

SelectCustomer ==
    /\ ~Micro
    /\ session # NoSession /\ flow.phase = "none" /\ call.phase = "none"
    /\ Pending => "mix" \in Habits
    /\ edits < MaxEdits
    /\ edits' = edits + 1
    /\ call' = Post("select", Half(0, edits + 1))
    /\ UNCHANGED <<server, session, rev, formVars, chain, put, refresh, flow, finalizing,
                   shortcut, retryArmed, retryWaits, view, faults, writes>>

CancelWorkspace ==
    /\ ~Micro
    /\ session # NoSession /\ flow.phase = "none" /\ call.phase = "none"
    /\ call' = Post("cancel", form["cust"])
    /\ ShortcutRemade("cancel")
    /\ UNCHANGED <<server, session, rev, formVars, chain, put, refresh, flow, finalizing,
                   retryArmed, retryWaits, view, edits, faults, writes>>

\* Finalize and cancel close the form whichever workspace it shows by now.
\* What the closed form held is read by nothing before Open sets it again.
CallCloses ==
    /\ call.phase = "ok" /\ call.op \in {"finalize", "cancel"}
    /\ session' = NoSession
    /\ queue' = [k \in Kinds |-> NoPayload]
    /\ timer' = [k \in Kinds |-> NoPayload]
    /\ rev' = 1
    /\ form' = [k \in Kinds |-> Blank]
    /\ acked' = [k \in Kinds |-> Blank]
    /\ call' = IF call.op = "finalize"
               THEN [NoCall EXCEPT !.phase = "settling", !.op = "finalize"]
               ELSE NoCall
    /\ shortcut' = BlankRender
    /\ UNCHANGED <<refresh, finalizing>>

\* Mutant: isStaleWorkspaceResponse is not asked.
CallStaleNever == FALSE

\* isStaleWorkspaceResponse, for the answer to a selection or detachment.
CallStale == call.sess = session /\ call.rev < rev

\* A selection or detachment is applied unless it is stale for the workspace
\* shown; a response for another workspace brings that one back.
\* A detachment then empties the customer form and its key, which the answer,
\* a workspace without a customer, has made Blank already.
CallApplies ==
    /\ call.phase = "ok" /\ call.op \in {"select", "detach"}
    /\ ~CallStale
    /\ ApplyWorkspace(call.sess, call, PutPending)
    /\ call' = NoCall
    /\ UNCHANGED finalizing

\* A failed POST, a stale response, or the end of a finalize mutation, whose
\* onSettled runs after the queries it invalidates are read again.
CallDone ==
    /\ \/ call.phase \in {"failed", "settling"}
       \/ call.phase = "ok" /\ call.op \in {"select", "detach"} /\ CallStale
    /\ call' = NoCall
    /\ finalizing' = (finalizing /\ call.op # "finalize")
    /\ ShortcutRemade(call.op)
    /\ UNCHANGED <<session, rev, formVars, refresh>>

CallAnswered ==
    /\ ~Micro
    /\ CallCloses \/ CallApplies \/ CallDone
    /\ UNCHANGED <<server, chain, put, flow, retryArmed, retryWaits, view,
                   edits, faults, writes>>

-----------------------------------------------------------------------------
(* Reads of the workspace.                                                 *)

\* An artifact signal from another surface.
ArtifactSignal ==
    /\ ~Micro
    /\ session # NoSession /\ view = "system" /\ ~Pending
    /\ refresh.phase = "none"
    /\ refresh' = Reading(session, refresh)
    /\ UNCHANGED <<server, session, rev, formVars, chain, put, call, flow, finalizing,
                   shortcut, retryArmed, retryWaits, view, edits, faults, writes>>

\* Mutant: the revision alone decides whether a read is used.
RefreshUsefulByRevision == refresh.sess = session /\ refresh.rev >= rev

RefreshUseful ==
    /\ refresh.sess = session /\ refresh.fresh
    /\ ~refresh.pend /\ ~Queued /\ \A k \in Kinds : ~Dirty(k)
    /\ refresh.rev >= rev

RefreshApplies ==
    /\ RefreshUseful
    /\ LET f == [k \in Kinds |-> IF k = "rows" THEN refresh.rows ELSE refresh.cust] IN
        /\ form' = f
        /\ acked' = f
        /\ timer' = [k \in Kinds |-> NoPayload]
        /\ queue' = [k \in Kinds |-> EffectQueue(k, f[k], f[k])]
        /\ shortcut' = Render(f, PutPending)
    /\ rev' = refresh.rev

RefreshAnswered ==
    /\ ~Micro
    /\ refresh.phase = "ok"
    /\ RefreshApplies \/ (~RefreshUseful /\ UNCHANGED <<formVars, rev, shortcut>>)
    /\ refresh' = NoRefresh
    /\ UNCHANGED <<server, session, chain, put, call, flow, finalizing, retryArmed,
                   retryWaits, view, edits, faults, writes>>

-----------------------------------------------------------------------------
(* The server and the network.                                             *)

Accepts(s, base) == s \in Sessions /\ server[s].open /\ base = server[s].rev

\* A write is committed; the answer arrives or is lost.
ServerSaves(answer) ==
    /\ put.phase = "sent" /\ Accepts(put.sess, put.base)
    /\ LET old == server[put.sess]
           new == IF put.kind = "rows"
                  THEN [old EXCEPT !.rows = put.payload, !.rev = @ + 1]
                  ELSE [old EXCEPT !.cust = put.payload, !.rev = @ + 1]
       IN /\ server' = [server EXCEPT ![put.sess] = new]
          /\ put' = [put EXCEPT !.phase = answer, !.rows = new.rows, !.rev = new.rev]

ServerAnswersPut ==
    /\ \/ ServerSaves("ok")
       \/ /\ put.phase = "sent" /\ ~Accepts(put.sess, put.base)
          /\ put' = [put EXCEPT !.phase = "refused"]
          /\ UNCHANGED server
    /\ UNCHANGED <<session, rev, formVars, chain, refresh, call, flow, finalizing, shortcut,
                   retryArmed, retryWaits, view, edits, faults, writes>>

ServerCloses ==
    /\ call.op \in {"finalize", "cancel"}
    /\ call.sess \in Sessions /\ server[call.sess].open
    /\ server' = [server EXCEPT ![call.sess].open = FALSE]
    /\ call' = [call EXCEPT !.phase = "ok"]

ServerSetsCustomer ==
    /\ call.op \in {"select", "detach"} /\ Accepts(call.sess, call.base)
    /\ LET old == server[call.sess]
           new == [old EXCEPT !.cust = IF call.op = "select" THEN call.cust ELSE Blank,
                              !.rev = @ + 1]
       IN /\ server' = [server EXCEPT ![call.sess] = new]
          /\ call' = [call EXCEPT !.phase = "ok", !.rows = new.rows,
                                  !.cust = new.cust, !.rev = new.rev]

\* The workspace is closed or has moved on, or finalize finds it incomplete.
ServerRefusesCall ==
    /\ \/ call.op = "finalize"
       \/ call.op = "cancel" /\ ~(call.sess \in Sessions /\ server[call.sess].open)
       \/ call.op \in {"select", "detach"} /\ ~Accepts(call.sess, call.base)
    /\ call' = [call EXCEPT !.phase = "failed"]
    /\ UNCHANGED server

ServerAnswersCall ==
    /\ call.phase = "sent"
    /\ ServerCloses \/ ServerSetsCustomer \/ ServerRefusesCall
    /\ UNCHANGED <<session, rev, formVars, chain, put, refresh, flow, finalizing, shortcut,
                   retryArmed, retryWaits, view, edits, faults, writes>>

ServerReads ==
    /\ refresh.phase = "sent"
    /\ LET d == server[refresh.sess] IN
        refresh' = [refresh EXCEPT !.phase = "ok", !.rows = d.rows, !.cust = d.cust, !.rev = d.rev]
    /\ UNCHANGED <<server, session, rev, formVars, chain, put, call, flow, finalizing, shortcut,
                   retryArmed, retryWaits, view, edits, faults, writes>>

\* A PUT's request is lost, its answer is lost, a POST's answer or a GET is lost.
NetworkFails ==
    /\ faults < MaxFaults
    /\ faults' = faults + 1
    /\ \/ /\ put.phase = "sent"
          /\ put' = [put EXCEPT !.phase = "lost"]
          /\ UNCHANGED <<server, call, refresh>>
       \/ ServerSaves("lost") /\ UNCHANGED <<call, refresh>>
       \/ /\ call.phase \in {"sent", "ok"}
          /\ call' = [call EXCEPT !.phase = "failed"]
          /\ UNCHANGED <<server, put, refresh>>
       \/ /\ refresh.phase = "sent"
          /\ refresh' = NoRefresh
          /\ UNCHANGED <<server, put, call>>
    /\ UNCHANGED <<session, rev, formVars, chain, flow, finalizing, shortcut,
                   retryArmed, retryWaits, view, edits, writes>>

\* The workbook or another desktop saves rows of its own.
OtherSurfaceSaves(s) ==
    /\ writes < MaxWrites
    /\ server[s].open
    /\ \E v \in Halves(edits) :
        server' = [server EXCEPT ![s].rows = v, ![s].rev = @ + 1]
    /\ writes' = writes + 1
    /\ UNCHANGED <<session, rev, formVars, chain, put, refresh, call, flow, finalizing,
                   shortcut, retryArmed, retryWaits, view, edits, faults>>

-----------------------------------------------------------------------------
Next ==
    \/ \E s \in Sessions : Open(s) \/ OtherSurfaceSaves(s)
    \/ \E k \in Kinds : Edit(k) \/ DebounceFires(k)
    \/ \E op \in Flows : FlowStart(op)
    \/ CustomerBlur \/ SelectCustomer \/ CancelWorkspace \/ ArtifactSignal
    \/ LoopSends \/ LoopEnds \/ PutAnswered \/ RetryFires
    \/ FlowGoesOn \/ PauseEnds \/ FlowActs
    \/ CallAnswered \/ RefreshAnswered
    \/ ServerAnswersPut \/ ServerAnswersCall \/ ServerReads \/ NetworkFails

Spec == Init /\ [][Next]_vars

\* Continuations run and the server answers.  A timer that is due and an answer
\* that has arrived are tasks: continuations delay them and are finite each
\* time, so the event loop comes to them however often it is delayed.
Fairness ==
    /\ WF_vars(LoopSends \/ LoopEnds \/ FlowGoesOn \/ FlowActs)
    /\ WF_vars(ServerAnswersPut) /\ WF_vars(ServerAnswersCall)
    /\ SF_vars(PutAnswered) /\ SF_vars(CallAnswered)
    /\ SF_vars(RetryFires) /\ \A k \in Kinds : SF_vars(DebounceFires(k))

FairSpec == Spec /\ Fairness

-----------------------------------------------------------------------------
(* Properties.                                                             *)

\* A form that shows nothing unsaved, under the server's current revision,
\* shows what the server holds.  It is what the operator relies on when the
\* form stops saying that a change is pending.
SavedMeansSaved ==
    (session # NoSession /\ rev = server[session].rev)
        => \A k \in Kinds : ~Dirty(k) => form[k] = server[session][k]

\* The form's own saves never make it lose track of the revision: with no
\* other writer and nothing lost, the form knows the server's revision
\* whenever no answer is on its way, so its next PUT is not refused.
RevisionKnown ==
    (/\ session # NoSession /\ server[session].open
     /\ writes = 0 /\ faults = 0
     /\ put.phase \in {"none", "sent"} /\ call.phase # "ok")
        => rev = server[session].rev

\* What is typed and not yet acknowledged is not replaced by a read of the
\* workspace nor by the answer to a save, except that the answer to a customer
\* save replaces the rows.
KeystrokesSurvive ==
    [][\A k \in Kinds :
        (/\ Dirty(k) /\ session' = session
         /\ \/ refresh.phase = "ok" /\ refresh'.phase = "none"
            \/ /\ put.phase = "ok" /\ put'.phase = "none"
               /\ k = "rows" => put.kind = "rows")
            => form'[k] = form[k]]_vars

\* However late and in whatever order answers arrive, the form never takes a
\* workspace back to a revision before the one it has seen.
RevisionsGrow ==
    [][session' = session /\ session # NoSession => rev' >= rev]_vars

\* The PUT in flight belongs to the loop whose turn it is, and a half that has
\* a loop on the chain gets no second one, whoever asks for a flush.
SavesTakeTurns ==
    /\ PutPending => chain # <<>> /\ Head(chain) = put.kind
    /\ \A i, j \in DOMAIN chain : chain[i] = chain[j] => i = j

Scheduled(k) == \/ timer[k] # NoPayload \/ queue[k] # NoPayload
                \/ PutPending /\ put.kind = k

\* A payload that is waiting or on its way stays so, through failures,
\* retries and newer edits, until the form has nothing unsaved in that half.
\* Only the detach handler throws a customer payload away.
NothingDropped ==
    [][\A k \in Kinds :
        Scheduled(k) /\ session # NoSession /\ session' = session =>
            \/ Scheduled(k)' \/ ~Dirty(k)' \/ Invalid(k, form'[k])
            \/ k = "cust" /\ flow'.op = "detach"]_vars

\* The rows that are finalized are the rows the form showed when it asked for
\* it, unless the server had moved past the form's revision.
FinalizedAsShown ==
    [][(/\ call.op = "finalize" /\ call.phase = "sent" /\ call'.phase = "ok"
        /\ call.base = server[call.sess].rev)
            => server[call.sess].rows = call.rows]_vars

\* The form's revision is behind the server's, or the workspace is closed, and
\* no answer is on its way that would tell: every further PUT is refused.
Stuck == /\ session # NoSession /\ put.phase # "ok" /\ call.phase # "ok"
         /\ (~server[session].open \/ rev < server[session].rev)

Unsettled == \E k \in Kinds : Dirty(k) /\ ~Invalid(k, form[k])

\* Every valid edit is acknowledged in the end, through losses and retries,
\* unless the form got stuck or was closed.
EditsSettle ==
    (session # NoSession /\ Unsettled) ~> (session = NoSession \/ Stuck \/ ~Unsettled)

\* hasPendingWorkspaceSync: unsaved changes, partial ones included, block a
\* finalization.
DirtyBlocksFinalize ==
    [][(call.phase = "none" /\ call'.phase = "sent" /\ call'.op = "finalize")
            => \A k \in Kinds : ~Dirty(k)]_vars
=============================================================================
