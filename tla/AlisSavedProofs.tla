-------------------------- MODULE AlisSavedProofs --------------------------
(***************************************************************************)
(* What the purchase form may rely on between its saves: proofs about      *)
(* AlisAutosave that go beyond its types and its order of answers.         *)
(*                                                                         *)
(* The form knows the server's revision (KnownInv): no answer is ahead of  *)
(* the server, a selection is awaited in its own workspace, and whenever   *)
(* the form's revision is behind, the answer that tells the new one is on  *)
(* its way.                                                                *)
(*                                                                         *)
(* What looks saved is saved (SaveInv): which answers, queued payloads and *)
(* handlers can stand beside which unsaved half, and what every answer     *)
(* still says of the server.                                               *)
(*                                                                         *)
(* Nothing typed is dropped (LatestInv): the last thing queued or under    *)
(* way for an unsaved half is what the form shows.                         *)
(***************************************************************************)
EXTENDS AlisAutosaveProofs

-----------------------------------------------------------------------------
(* What a step may do to the server, to the form and to what is under way. *)

\* The types that nearly every step below needs.
LEMMA Records ==
    ASSUME IInv
    PROVE  /\ put \in PutRecords /\ refresh \in RefreshRecords /\ call \in CallRecords
           /\ flow \in FlowRecords /\ server \in [Sessions -> Workspaces] /\ rev \in Nat
           /\ session \in Sessions \cup {NoSession}
           /\ form \in [Kinds -> Values] /\ acked \in [Kinds -> Values]
           /\ queue \in [Kinds -> Payloads] /\ timer \in [Kinds -> Payloads]
           /\ shortcut \in Renders
  BY DEF IInv, BookTypeOK, FormTypeOK, TurnOK, TurnTypeOK, HandlerOK, HandlerTypeOK

Same(s) == UNCHANGED <<server[s].rev, server[s].rows, server[s].cust, server[s].open>>

\* A saved half of workspace s, under the next revision.
Written(s) == /\ server'[s].rev = server[s].rev + 1
              /\ server'[s].open = server[s].open

\* A PUT the server accepts writes the half it carries and nothing else, once.
LEMMA SavesOnce ==
    ASSUME IInv, NEW answer \in {"ok", "lost"}, ServerSaves(answer)
    PROVE  /\ put.phase = "sent" /\ put.sess \in Sessions /\ put.base = server[put.sess].rev
           /\ Written(put.sess) /\ \A s \in Sessions \ {put.sess} : Same(s)
           /\ put.kind = "rows" => server'[put.sess].rows = put.payload
                                   /\ server'[put.sess].cust = server[put.sess].cust
           /\ put.kind = "cust" => server'[put.sess].cust = put.payload
                                   /\ server'[put.sess].rows = server[put.sess].rows
           /\ put' = [put EXCEPT !.phase = answer, !.rows = server'[put.sess].rows,
                                 !.rev = server'[put.sess].rev]
           /\ server[put.sess].open
  <1> DEFINE old == server[put.sess]
             new == IF put.kind = "rows"
                    THEN [old EXCEPT !.rows = put.payload, !.rev = @ + 1]
                    ELSE [old EXCEPT !.cust = put.payload, !.rev = @ + 1]
  <1>1. /\ put.phase = "sent" /\ put.sess \in Sessions /\ put.base = server[put.sess].rev
        /\ server[put.sess].open
        /\ server' = [server EXCEPT ![put.sess] = new]
        /\ put' = [put EXCEPT !.phase = answer, !.rows = new.rows, !.rev = new.rev]
      BY DEF ServerSaves, Accepts
  <1>2. old \in Workspaces /\ server \in [Sessions -> Workspaces] /\ put.kind \in Kinds
      BY <1>1, Records DEF PutRecords
  <1>3. /\ new.rev = old.rev + 1 /\ new.open = old.open
        /\ put.kind = "rows" => new.rows = put.payload /\ new.cust = old.cust
        /\ put.kind = "cust" => new.cust = put.payload /\ new.rows = old.rows
      BY <1>2 DEF Workspaces, Kinds
  <1> HIDE DEF new
  <1>4. server'[put.sess] = new /\ \A s \in Sessions \ {put.sess} : server'[s] = server[s]
      BY <1>1, <1>2
  <1>5. \A s \in Sessions \ {put.sess} : Same(s)
      BY <1>4 DEF Same
  <1>6. QED
      BY <1>1, <1>3, <1>4, <1>5 DEF Written

\* An accepted selection or detachment writes the customer only.
LEMMA SetsOnce ==
    ASSUME IInv, ServerSetsCustomer
    PROVE  /\ call.op \in {"select", "detach"} /\ call.sess \in Sessions
           /\ call.base = server[call.sess].rev /\ server[call.sess].open
           /\ Written(call.sess) /\ \A s \in Sessions \ {call.sess} : Same(s)
           /\ call' = [call EXCEPT !.phase = "ok", !.rows = server'[call.sess].rows,
                                   !.cust = server'[call.sess].cust, !.rev = server'[call.sess].rev]
           /\ server'[call.sess].cust \in {call.cust, Blank}
           /\ server'[call.sess].rows = server[call.sess].rows
  <1> DEFINE old == server[call.sess]
             new == [old EXCEPT !.cust = IF call.op = "select" THEN call.cust ELSE Blank, !.rev = @ + 1]
  <1>1. /\ call.op \in {"select", "detach"} /\ call.sess \in Sessions
        /\ call.base = server[call.sess].rev /\ server[call.sess].open
        /\ server' = [server EXCEPT ![call.sess] = new]
        /\ call' = [call EXCEPT !.phase = "ok", !.rows = new.rows, !.cust = new.cust, !.rev = new.rev]
      BY DEF ServerSetsCustomer, Accepts
  <1>2. old \in Workspaces /\ server \in [Sessions -> Workspaces]
      BY <1>1, Records
  <1>3. new.rev = old.rev + 1 /\ new.open = old.open /\ new.cust \in {call.cust, Blank}
        /\ new.rows = old.rows
      BY <1>2 DEF Workspaces
  <1> HIDE DEF new
  <1>4. server'[call.sess] = new /\ \A s \in Sessions \ {call.sess} : server'[s] = server[s]
      BY <1>1, <1>2
  <1>5. \A s \in Sessions \ {call.sess} : Same(s)
      BY <1>4 DEF Same
  <1>6. QED
      BY <1>1, <1>3, <1>4, <1>5 DEF Written

\* Closing a workspace changes neither its halves nor its revision.
LEMMA ClosesOnly ==
    ASSUME IInv, ServerCloses
    PROVE  /\ call.op \in {"finalize", "cancel"} /\ call.sess \in Sessions
           /\ ~server'[call.sess].open
           /\ \A s \in Sessions : /\ UNCHANGED <<server[s].rev, server[s].rows, server[s].cust>>
                                  /\ server'[s].open => server[s].open
           /\ call' = [call EXCEPT !.phase = "ok"]
  <1>1. /\ call.op \in {"finalize", "cancel"} /\ call.sess \in Sessions
        /\ server' = [server EXCEPT ![call.sess] = [server[call.sess] EXCEPT !.open = FALSE]]
        /\ call' = [call EXCEPT !.phase = "ok"]
      BY DEF ServerCloses
  <1>2. server \in [Sessions -> Workspaces] /\ server[call.sess] \in Workspaces
      BY <1>1, Records
  <1>3. \A s \in Sessions : server'[s] = IF s = call.sess
                                         THEN [server[call.sess] EXCEPT !.open = FALSE] ELSE server[s]
      BY <1>1, <1>2
  <1> DEFINE new == [server[call.sess] EXCEPT !.open = FALSE]
  <1>4. /\ new.rev = server[call.sess].rev /\ new.rows = server[call.sess].rows
        /\ new.cust = server[call.sess].cust /\ new.open = FALSE
      BY <1>2 DEF Workspaces
  <1> HIDE DEF new
  <1>5. \A s \in Sessions : server'[s] = IF s = call.sess THEN new ELSE server[s]
      BY <1>3 DEF new
  <1>6. QED
      BY <1>1, <1>4, <1>5

\* Another surface writes rows the operator knows, and one workspace.
LEMMA OtherOnce ==
    ASSUME IInv, NEW s \in Sessions, OtherSurfaceSaves(s)
    PROVE  /\ Written(s) /\ server'[s].rows \in Halves(edits) /\ server'[s].cust = server[s].cust
           /\ \A t \in Sessions \ {s} : Same(t)
  <1>1. PICK v \in Halves(edits) : server' = [server EXCEPT ![s].rows = v, ![s].rev = @ + 1]
      BY DEF OtherSurfaceSaves
  <1>2. server \in [Sessions -> Workspaces] /\ server[s] \in Workspaces
      BY Records
  <1> DEFINE new == [server[s] EXCEPT !.rows = v, !.rev = @ + 1]
  <1>3. server' = [server EXCEPT ![s] = new]
      BY <1>1, <1>2 DEF Workspaces
  <1>4. /\ new.rev = server[s].rev + 1 /\ new.rows = v /\ new.cust = server[s].cust
        /\ new.open = server[s].open
      BY <1>2 DEF Workspaces
  <1> HIDE DEF new
  <1>5. server'[s] = new /\ \A t \in Sessions \ {s} : server'[t] = server[t]
      BY <1>2, <1>3
  <1>6. QED
      BY <1>4, <1>5 DEF Written, Same

\* Who writes the server's workspaces.
LEMMA WritersOnly ==
    ASSUME [Next]_vars, server' # server
    PROVE  \/ ServerSaves("ok") /\ UNCHANGED <<call, refresh, session, rev, form, acked>>
           \/ /\ ServerSaves("lost") /\ NetworkFails
              /\ UNCHANGED <<call, refresh, session, rev, form, acked>>
           \/ call.phase = "sent" /\ ServerCloses /\ UNCHANGED <<put, refresh, session, rev, form, acked>>
           \/ call.phase = "sent" /\ ServerSetsCustomer
              /\ UNCHANGED <<put, refresh, session, rev, form, acked>>
           \/ /\ \E s \in Sessions : OtherSurfaceSaves(s)
              /\ UNCHANGED <<put, call, refresh, session, rev, form, acked>>
  <1>1. CASE \/ \E s \in Sessions : Open(s)
             \/ \E k \in Kinds : Edit(k) \/ DebounceFires(k)
             \/ \E op \in Flows : FlowStart(op)
             \/ CustomerBlur \/ SelectCustomer \/ CancelWorkspace \/ ArtifactSignal
      BY <1>1 DEF Open, Edit, DebounceFires, FlowStart, CustomerBlur, SelectCustomer,
                  CancelWorkspace, ArtifactSignal
  <1>2. CASE \/ LoopSends \/ LoopEnds \/ PutAnswered \/ RetryFires \/ FlowGoesOn \/ PauseEnds
             \/ FlowActs \/ CallAnswered \/ RefreshAnswered \/ ServerReads
      BY <1>2 DEF LoopSends, LoopEnds, PutAnswered, PutIgnored, PutOvertaken, RowsAcknowledged,
                  CustomerAcknowledged, PutFailed, RetryFires, FlowGoesOn, PauseEnds, FlowActs,
                  CallAnswered, RefreshAnswered, ServerReads
  <1>3. CASE ServerAnswersPut
      BY <1>3 DEF ServerAnswersPut, formVars
  <1>4. CASE ServerAnswersCall
      BY <1>4 DEF ServerAnswersCall, ServerRefusesCall, formVars
  <1>5. CASE NetworkFails
      BY <1>5 DEF NetworkFails, formVars
  <1>6. CASE \E s \in Sessions : OtherSurfaceSaves(s)
      BY <1>6 DEF OtherSurfaceSaves, formVars
  <1>7. CASE UNCHANGED vars
      BY <1>7 DEF vars
  <1>8. QED
      BY <1>1, <1>2, <1>3, <1>4, <1>5, <1>6, <1>7 DEF Next

\* A workspace's revision only grows, and under one revision it holds one
\* content.
LEMMA ServerMoves ==
    ASSUME IInv, [Next]_vars, NEW s \in Sessions
    PROVE  /\ server'[s].rev >= server[s].rev
           /\ server'[s].rev = server[s].rev => UNCHANGED <<server[s].rows, server[s].cust>>
           /\ server'[s].open => server[s].open
  <1>1. server[s].rev \in Nat
      BY Records DEF Workspaces
  <1>2. CASE server' = server
      BY <1>1, <1>2
  <1>3. ASSUME Written(s) \/ Same(s)
        PROVE  /\ server'[s].rev >= server[s].rev
               /\ server'[s].rev = server[s].rev => UNCHANGED <<server[s].rows, server[s].cust>>
               /\ server'[s].open => server[s].open
      BY <1>1, <1>3 DEF Written, Same
  <1>4. CASE ServerCloses
      BY <1>1, <1>4, ClosesOnly
  <1>5. ASSUME NEW answer \in {"ok", "lost"}, ServerSaves(answer)
        PROVE  Written(s) \/ Same(s)
      BY <1>5, SavesOnce
  <1>6. CASE ServerSetsCustomer
      BY <1>3, <1>6, SetsOnce
  <1>7. CASE \E t \in Sessions : OtherSurfaceSaves(t)
      BY <1>3, <1>7, OtherOnce
  <1>8. QED
      BY <1>2, <1>3, <1>4, <1>5, <1>6, <1>7, WritersOnly

\* Who answers a GET, and what becomes of one that was answered.
LEMMA ReadMoves ==
    ASSUME IInv, [Next]_vars, refresh'.phase = "ok"
    PROVE  \/ ServerReads
           \/ /\ refresh.phase = "ok"
              /\ UNCHANGED <<refresh.sess, refresh.rows, refresh.cust, refresh.rev, refresh.pend>>
              /\ refresh'.fresh => refresh.fresh
  <1> DEFINE Kept == /\ refresh.phase = "ok"
                     /\ UNCHANGED <<refresh.sess, refresh.rows, refresh.cust, refresh.rev,
                                    refresh.pend>>
                     /\ refresh'.fresh => refresh.fresh
  <1>1. refresh \in RefreshRecords
      BY Records
  <1>2. NoRefresh.phase = "none"
      BY DEF NoRefresh
  <1>3. ASSUME NEW s, refresh' = Reading(s, refresh)
        PROVE  Kept
    <2>1. CASE refresh.phase = "none"
      <3>1. refresh'.phase = "sent"
          BY <1>3, <2>1 DEF Reading, NoRefresh
      <3>2. QED
          BY <3>1
    <2>2. CASE refresh.phase # "none"
        BY <1>3, <2>2 DEF Reading
    <2>3. QED
        BY <2>1, <2>2
  <1>4. ASSUME NEW f, refresh' = Overtaken(f)
        PROVE  Kept
      BY <1>1, <1>4 DEF Overtaken, RefreshRecords
  <1>5. CASE UNCHANGED refresh
      BY <1>5
  <1>6. ASSUME NEW s \in Sessions, Open(s)
        PROVE  Kept
      BY <1>3, <1>6 DEF Open
  <1>7. ASSUME NEW k \in Kinds, Edit(k)
        PROVE  Kept
      BY <1>1, <1>7 DEF Edit, RefreshRecords
  <1>8. CASE PutAnswered
    <2>1. CASE CustomerAcknowledged
        BY <1>4, <2>1 DEF CustomerAcknowledged, ApplyWorkspace
    <2>2. CASE ~CustomerAcknowledged
        BY <1>5, <1>8, <2>2 DEF PutAnswered, PutIgnored, PutOvertaken, RowsAcknowledged, PutFailed
    <2>3. QED
        BY <2>1, <2>2
  <1>9. CASE CallAnswered
    <2>1. CASE CallApplies
        BY <1>3, <1>4, <2>1 DEF CallApplies, ApplyWorkspace
    <2>2. CASE CallCloses \/ CallDone
        BY <1>5, <2>2 DEF CallCloses, CallDone
    <2>3. QED
        BY <1>9, <2>1, <2>2 DEF CallAnswered
  <1>10. CASE RefreshAnswered
      BY <1>2, <1>10 DEF RefreshAnswered
  <1>11. CASE FlowActs
    <2>1. CASE FlowSwitches
        BY <1>3, <1>5, <2>1 DEF FlowSwitches
    <2>2. CASE FlowPauses \/ FlowGivesUp \/ FlowPosts
        BY <1>5, <2>2 DEF FlowPauses, FlowGivesUp, FlowPosts
    <2>3. QED
        BY <1>11, <2>1, <2>2 DEF FlowActs
  <1>12. CASE ArtifactSignal
      BY <1>3, <1>12 DEF ArtifactSignal
  <1>13. CASE NetworkFails
      BY <1>2, <1>5, <1>13 DEF NetworkFails
  <1>14. CASE \/ \E s \in Sessions : OtherSurfaceSaves(s)
              \/ \E k \in Kinds : DebounceFires(k)
              \/ \E op \in Flows : FlowStart(op)
              \/ CustomerBlur \/ SelectCustomer \/ CancelWorkspace
              \/ LoopSends \/ LoopEnds \/ RetryFires \/ FlowGoesOn \/ PauseEnds
              \/ ServerAnswersPut \/ ServerAnswersCall \/ UNCHANGED vars
      BY <1>5, <1>14 DEF OtherSurfaceSaves, DebounceFires, FlowStart, CustomerBlur, SelectCustomer,
              CancelWorkspace, LoopSends, LoopEnds, RetryFires, FlowGoesOn, PauseEnds,
              ServerAnswersPut, ServerAnswersCall, vars
  <1>15. QED
      BY <1>6, <1>7, <1>8, <1>9, <1>10, <1>11, <1>12, <1>13, <1>14 DEF Next

\* A GET reports the workspace as it is when it is read.
LEMMA Read ==
    ASSUME IInv, ServerReads
    PROVE  /\ refresh.sess \in Sessions /\ refresh.phase = "sent"
           /\ UNCHANGED <<refresh.sess, refresh.pend, refresh.fresh>> /\ refresh'.phase = "ok"
           /\ refresh'.rows = server[refresh.sess].rows /\ refresh'.cust = server[refresh.sess].cust
           /\ refresh'.rev = server[refresh.sess].rev
           /\ UNCHANGED <<server, session, rev, form, acked, put, call, flow, queue, timer, shortcut>>
  <1>1. refresh.sess \in Sessions /\ refresh \in RefreshRecords
      BY Records DEF ServerReads, IInv, HandlerOK, KnownSessions
  <1>2. QED
      BY <1>1 DEF ServerReads, RefreshRecords, formVars

\* Who brings the answer of a PUT.
LEMMA PutMoves ==
    ASSUME IInv, [Next]_vars, put'.phase = "ok"
    PROVE  put' = put \/ ServerSaves("ok")
  <1>1. NoPut.phase = "none" /\ put \in PutRecords
      BY Records DEF NoPut
  <1>2. CASE LoopSends
    <2>1. put'.phase = "none" \/ put'.phase = "sent"
        BY <1>1, <1>2 DEF LoopSends, NoPut
    <2>2. QED
        BY <2>1
  <1>3. CASE PutAnswered
    <2>1. put' = NoPut
        BY <1>3 DEF PutAnswered, PutIgnored, PutOvertaken, RowsAcknowledged, CustomerAcknowledged,
                    PutFailed
    <2>2. QED
        BY <1>1, <2>1
  <1>4. CASE ServerAnswersPut
      BY <1>1, <1>4 DEF ServerAnswersPut, PutRecords
  <1>5. CASE NetworkFails
    <2>1. CASE ServerSaves("lost")
        BY <1>1, <2>1, SavesOnce DEF PutRecords
    <2>2. CASE put' = [put EXCEPT !.phase = "lost"]
        BY <1>1, <2>2 DEF PutRecords
    <2>3. QED
        BY <1>5, <2>1, <2>2 DEF NetworkFails
  <1>6. CASE \/ \E s \in Sessions : Open(s) \/ OtherSurfaceSaves(s)
             \/ \E k \in Kinds : Edit(k) \/ DebounceFires(k)
             \/ \E op \in Flows : FlowStart(op)
             \/ CustomerBlur \/ SelectCustomer \/ CancelWorkspace \/ ArtifactSignal
      BY <1>6 DEF Open, OtherSurfaceSaves, Edit, DebounceFires, FlowStart, CustomerBlur,
                  SelectCustomer, CancelWorkspace, ArtifactSignal
  <1>7. CASE \/ LoopEnds \/ RetryFires \/ FlowGoesOn \/ PauseEnds \/ FlowActs
             \/ CallAnswered \/ RefreshAnswered \/ ServerAnswersCall \/ ServerReads \/ UNCHANGED vars
      BY <1>7 DEF LoopEnds, RetryFires, FlowGoesOn, PauseEnds, FlowActs, CallAnswered,
                  RefreshAnswered, ServerAnswersCall, ServerReads, vars
  <1>8. QED
      BY <1>2, <1>3, <1>4, <1>5, <1>6, <1>7 DEF Next

\* A POST takes along the revision and the rows the form has.
Posted == /\ call'.phase = "sent" /\ call'.sess = session /\ call'.base = rev
          /\ call'.rows = form["rows"]
          /\ \/ SelectCustomer /\ call'.op = "select" /\ call'.cust = Half(0, edits + 1)
             \/ CancelWorkspace /\ call'.op = "cancel" /\ call'.cust = form["cust"]
             \/ /\ FlowActs /\ FlowPosts /\ call'.op \in {"finalize", "detach"}
                /\ call'.cust = form["cust"] /\ (call'.op = "detach" <=> flow.op = "detach")

\* What a POST carries of the form.
LEMMA PostSays ==
    ASSUME NEW op, NEW cust
    PROVE  /\ Post(op, cust).phase = "sent" /\ Post(op, cust).op = op
           /\ Post(op, cust).sess = session /\ Post(op, cust).base = rev
           /\ Post(op, cust).rows = form["rows"] /\ Post(op, cust).cust = cust
  BY DEF Post

\* A POST under way was posted by this step, answered by it, or left alone.
LEMMA CallMoves ==
    ASSUME IInv, [Next]_vars, call'.phase \in {"sent", "ok"}
    PROVE  \/ call' = call
           \/ Posted
           \/ call.phase = "sent" /\ (ServerCloses \/ ServerSetsCustomer)
  <1>1. NoCall.phase = "none" /\ call \in CallRecords
      BY Records DEF NoCall
  <1>2. CASE SelectCustomer
      BY <1>2, PostSays DEF SelectCustomer, Posted
  <1>3. CASE CancelWorkspace
      BY <1>3, PostSays DEF CancelWorkspace, Posted
  <1>4. CASE FlowActs
    <2>1. CASE FlowPosts
      <3>1. call' = Post(IF flow.op = "detach" THEN "detach" ELSE "finalize", form["cust"])
          BY <2>1 DEF FlowPosts
      <3>2. QED
          BY <1>4, <2>1, <3>1, PostSays DEF Posted
    <2>2. CASE FlowPauses \/ FlowGivesUp \/ FlowSwitches
        BY <2>2 DEF FlowPauses, FlowGivesUp, FlowSwitches
    <2>3. QED
        BY <1>4, <2>1, <2>2 DEF FlowActs
  <1>5. CASE CallAnswered
    <2>1. call'.phase = "none" \/ call'.phase = "settling"
        BY <1>1, <1>5 DEF CallAnswered, CallCloses, CallApplies, CallDone, NoCall
    <2>2. QED
        BY <2>1
  <1>6. CASE ServerAnswersCall
      BY <1>1, <1>6 DEF ServerAnswersCall, ServerRefusesCall, CallRecords
  <1>7. CASE NetworkFails
      BY <1>1, <1>7 DEF NetworkFails, CallRecords
  <1>8. CASE \/ \E s \in Sessions : Open(s) \/ OtherSurfaceSaves(s)
             \/ \E k \in Kinds : Edit(k) \/ DebounceFires(k)
             \/ \E op \in Flows : FlowStart(op)
             \/ CustomerBlur \/ ArtifactSignal
      BY <1>8 DEF Open, OtherSurfaceSaves, Edit, DebounceFires, FlowStart, CustomerBlur, ArtifactSignal
  <1>9. CASE \/ LoopSends \/ LoopEnds \/ PutAnswered \/ RetryFires \/ FlowGoesOn \/ PauseEnds
             \/ RefreshAnswered \/ ServerAnswersPut \/ ServerReads \/ UNCHANGED vars
      BY <1>9 DEF LoopSends, LoopEnds, PutAnswered, PutIgnored, PutOvertaken, RowsAcknowledged,
                  CustomerAcknowledged, PutFailed, RetryFires, FlowGoesOn, PauseEnds,
                  RefreshAnswered, ServerAnswersPut, ServerReads, vars
  <1>10. QED
      BY <1>2, <1>3, <1>4, <1>5, <1>6, <1>7, <1>8, <1>9 DEF Next

\* Who changes the workspace the form shows, or its revision.
LEMMA ShownMoves ==
    ASSUME [Next]_vars, ~UNCHANGED <<session, rev>>
    PROVE  \/ \E s \in Sessions : Open(s)
           \/ PutAnswered \/ CallAnswered \/ RefreshAnswered
  <1>1. CASE \/ \E s \in Sessions : OtherSurfaceSaves(s)
             \/ \E k \in Kinds : Edit(k) \/ DebounceFires(k)
             \/ \E op \in Flows : FlowStart(op)
             \/ CustomerBlur \/ SelectCustomer \/ CancelWorkspace \/ ArtifactSignal
      BY <1>1 DEF OtherSurfaceSaves, Edit, DebounceFires, FlowStart, CustomerBlur,
                  SelectCustomer, CancelWorkspace, ArtifactSignal
  <1>2. CASE \/ LoopSends \/ LoopEnds \/ RetryFires \/ FlowGoesOn \/ PauseEnds
             \/ FlowActs \/ ServerAnswersPut \/ ServerAnswersCall \/ ServerReads \/ NetworkFails
             \/ UNCHANGED vars
      BY <1>2 DEF LoopSends, LoopEnds, RetryFires, FlowGoesOn, PauseEnds, FlowActs,
                  ServerAnswersPut, ServerAnswersCall, ServerReads, NetworkFails, vars
  <1>3. QED
      BY <1>1, <1>2 DEF Next

\* An answer that the form takes: the revision is the answer's.
TakesPut == /\ put.phase = "ok" /\ ~PutUseless /\ rev' = put.rev /\ session' = session
            /\ put' = NoPut /\ UNCHANGED <<server, call>>
TakesCall == /\ call.phase = "ok" /\ call.op \in {"select", "detach"} /\ ~CallStale
             /\ rev' = call.rev /\ session' = call.sess /\ call' = NoCall
             /\ UNCHANGED <<server, put>>
TakesRead == /\ refresh.phase = "ok" /\ RefreshUseful /\ rev' = refresh.rev /\ session' = session
             /\ UNCHANGED <<server, put, call>>

\* The form changes workspace or revision only by opening, by an answer, or by closing.
LEMMA Taken ==
    ASSUME [Next]_vars, ~UNCHANGED <<session, rev>>
    PROVE  \/ \E s \in Sessions : Open(s)
           \/ TakesPut \/ TakesCall \/ TakesRead
           \/ call.phase = "ok" /\ CallCloses
  <1>1. CASE PutAnswered
    <2>1. CASE PutIgnored \/ PutFailed
        BY <2>1 DEF PutIgnored, PutFailed
    <2>2. CASE PutOvertaken \/ RowsAcknowledged
        BY <2>2 DEF PutOvertaken, RowsAcknowledged, TakesPut
    <2>3. CASE CustomerAcknowledged
        BY <2>3 DEF CustomerAcknowledged, ApplyWorkspace, TakesPut
    <2>4. QED
        BY <1>1, <2>1, <2>2, <2>3 DEF PutAnswered
  <1>2. CASE CallAnswered
    <2>1. CASE CallCloses
        BY <2>1 DEF CallCloses
    <2>2. CASE CallApplies
        BY <1>2, <2>2 DEF CallAnswered, CallApplies, ApplyWorkspace, TakesCall
    <2>3. CASE CallDone
        BY <2>3 DEF CallDone
    <2>4. QED
        BY <1>2, <2>1, <2>2, <2>3 DEF CallAnswered
  <1>3. CASE RefreshAnswered
      BY <1>3 DEF RefreshAnswered, RefreshApplies, TakesRead
  <1>4. QED
      BY <1>1, <1>2, <1>3, ShownMoves

-----------------------------------------------------------------------------
(* The form knows the revision.                                            *)

Picks == call.op \in {"select", "detach"}

\* No answer that is on its way, nor the form, is ahead of the server.
RevBound == session # NoSession => rev <= server[session].rev
PutBound == put.phase = "ok" => put.sess \in Sessions /\ put.rev <= server[put.sess].rev
CallBound == call.phase = "ok" /\ Picks => call.rev <= server[call.sess].rev
ReadBound == refresh.phase = "ok" => /\ refresh.sess \in Sessions
                                     /\ refresh.rev <= server[refresh.sess].rev
BoundInv == RevBound /\ PutBound /\ CallBound /\ ReadBound

\* A revision that a workspace had stays at most the one it has.
LEMMA StillBound ==
    ASSUME IInv, [Next]_vars, NEW s \in Sessions, NEW r \in Nat, r <= server[s].rev
    PROVE  r <= server'[s].rev
  <1>1. server[s].rev \in Nat /\ server'[s].rev \in Nat
      BY NextKeeps, Records DEF Workspaces, IInv, BookTypeOK
  <1>2. QED
      BY <1>1, ServerMoves

\* No step brings an answer ahead of the server.
LEMMA BoundKept ==
    ASSUME IInv, [Next]_vars, BoundInv
    PROVE  BoundInv'
  <1>1. /\ put.rev \in Nat /\ call.rev \in Nat /\ refresh.rev \in Nat /\ rev \in Nat
        /\ session \in Sessions \cup {NoSession}
        /\ call.phase = "ok" /\ Picks => call.sess \in Sessions
        /\ \A s \in Sessions : server[s].rev \in Nat
      BY Records DEF PutRecords, CallRecords, RefreshRecords, Workspaces, IInv, HandlerOK,
                     KnownSessions, Picks
  <1>2. RevBound'
    <2>1. CASE UNCHANGED <<session, rev>>
        BY <1>1, <2>1, StillBound DEF BoundInv, RevBound
    <2>2. ASSUME NEW s \in Sessions, Open(s)
          PROVE  RevBound'
        BY <1>1, <2>2 DEF Open, RevBound
    <2>3. CASE TakesPut
        BY <1>1, <2>3, StillBound DEF BoundInv, PutBound, RevBound, TakesPut, PutUseless
    <2>4. CASE TakesCall
        BY <1>1, <2>4, StillBound DEF BoundInv, CallBound, RevBound, TakesCall, Picks
    <2>5. CASE TakesRead
        BY <1>1, <2>5, StillBound DEF BoundInv, ReadBound, RevBound, TakesRead, RefreshUseful
    <2>6. CASE CallCloses
        BY <2>6 DEF CallCloses, RevBound
    <2>7. QED
        BY <2>1, <2>2, <2>3, <2>4, <2>5, <2>6, Taken
  <1>3. PutBound'
    <2>1. CASE put' = put
        BY <1>1, <2>1, StillBound DEF BoundInv, PutBound
    <2>2. CASE ServerSaves("ok")
      <3>1. put'.sess = put.sess /\ put.sess \in Sessions /\ put'.rev = server'[put.sess].rev
          BY <2>2, SavesOnce, Records DEF PutRecords
      <3>2. server'[put.sess].rev \in Nat
          BY <3>1, NextKeeps DEF IInv, BookTypeOK, Workspaces
      <3>3. QED
          BY <3>1, <3>2 DEF PutBound
    <2>3. QED
        BY <2>1, <2>2, PutMoves DEF PutBound
  <1>4. CallBound'
    <2>1. CASE call' = call
        BY <1>1, <2>1, StillBound DEF BoundInv, CallBound, Picks
    <2>2. CASE ServerSetsCustomer
      <3>1. call'.sess = call.sess /\ call.sess \in Sessions /\ call'.rev = server'[call.sess].rev
          BY <2>2, SetsOnce, Records DEF CallRecords
      <3>2. server'[call.sess].rev \in Nat
          BY <3>1, NextKeeps DEF IInv, BookTypeOK, Workspaces
      <3>3. QED
          BY <3>1, <3>2 DEF CallBound
    <2>3. CASE ServerCloses
      <3>1. call'.op \in {"finalize", "cancel"}
          BY <2>3, ClosesOnly, Records DEF CallRecords
      <3>2. QED
          BY <3>1 DEF CallBound, Picks
    <2>4. CASE Posted
        BY <2>4 DEF Posted, CallBound
    <2>5. QED
        BY <2>1, <2>2, <2>3, <2>4, CallMoves DEF CallBound
  <1>5. ReadBound'
    <2>1. CASE ServerReads
        BY <1>1, <2>1, Read DEF ReadBound
    <2>2. CASE ~ServerReads /\ refresh'.phase = "ok"
        BY <1>1, <2>2, ReadMoves, StillBound DEF BoundInv, ReadBound
    <2>3. QED
        BY <2>1, <2>2 DEF ReadBound
  <1>6. QED
      BY <1>2, <1>3, <1>4, <1>5 DEF BoundInv

\* A selection or detachment is awaited in the workspace it is for, and no
\* handler is in its flush meanwhile.
CallOwn == /\ flow.phase # "none" => call.phase = "none"
           /\ call.phase \in {"sent", "ok"} /\ Picks => call.sess = session

\* What the operator lets happen before another workspace is opened.
Awaits == \A s \in Sessions : Open(s) => call.phase = "none"

\* The form has the revision of the server, or the answer that has it is on
\* its way.
Told ==
    (session # NoSession /\ server[session].open /\ writes = 0 /\ faults = 0) =>
      \/ rev = server[session].rev
      \/ put.phase = "ok" /\ put.sess = session /\ put.rev = server[session].rev
      \/ call.phase = "ok" /\ Picks /\ call.rev = server[session].rev

KnownInv == BoundInv /\ CallOwn /\ Told


\* A handler starts its flush only with no POST under way.
LEMMA FlowMoves ==
    ASSUME [Next]_vars, flow'.phase # "none", IInv
    PROVE  \/ flow.phase # "none"
           \/ \E op \in Flows : FlowStart(op)
  <1>1. CASE flow' = flow
      BY <1>1
  <1>2. CASE FlowActs
      BY <1>2 DEF FlowActs, FlowPauses, FlowGivesUp, FlowPosts, FlowSwitches
  <1>3. CASE LoopEnds \/ PutFailed
    <2>1. flow' = flow \/ flow.phase \in Kinds
      <3>1. Head(chain) \in Kinds \/ PutFailed
          BY <1>3, ChainDistinct, HeadTailProperties DEF LoopEnds
      <3>2. put.kind \in Kinds
          BY Records DEF PutRecords
      <3>3. QED
          BY <1>3, <3>1, <3>2 DEF LoopEnds, PutFailed, Settle
    <2>2. QED
        BY <2>1 DEF Kinds
  <1>4. CASE FlowGoesOn \/ PauseEnds
      BY <1>4 DEF FlowGoesOn, PauseEnds
  <1>5. CASE PutAnswered /\ ~PutFailed
      BY <1>1, <1>5 DEF PutAnswered, PutIgnored, PutOvertaken, RowsAcknowledged, CustomerAcknowledged
  <1>6. CASE \/ \E s \in Sessions : Open(s) \/ OtherSurfaceSaves(s)
             \/ \E k \in Kinds : Edit(k) \/ DebounceFires(k)
             \/ CustomerBlur \/ SelectCustomer \/ CancelWorkspace \/ ArtifactSignal
      BY <1>1, <1>6 DEF Open, OtherSurfaceSaves, Edit, DebounceFires, CustomerBlur,
                  SelectCustomer, CancelWorkspace, ArtifactSignal
  <1>7. CASE \/ LoopSends \/ RetryFires \/ CallAnswered \/ RefreshAnswered
             \/ ServerAnswersPut \/ ServerAnswersCall \/ ServerReads \/ NetworkFails
             \/ UNCHANGED vars
      BY <1>1, <1>7 DEF LoopSends, RetryFires, CallAnswered, RefreshAnswered, ServerAnswersPut,
                  ServerAnswersCall, ServerReads, NetworkFails, vars
  <1>8. QED
      BY <1>2, <1>3, <1>4, <1>5, <1>6, <1>7 DEF Next

\* With no POST under way a step posts one or leaves it so.
LEMMA CallIdle ==
    ASSUME [Next]_vars, call.phase = "none"
    PROVE  \/ call' = call
           \/ flow.phase = "none" /\ UNCHANGED flow
           \/ flow'.phase = "none"
  <1>1. CASE SelectCustomer \/ CancelWorkspace
      BY <1>1 DEF SelectCustomer, CancelWorkspace
  <1>2. CASE FlowActs
    <2>1. NoFlow.phase = "none"
        BY DEF NoFlow
    <2>2. QED
        BY <1>2, <2>1 DEF FlowActs, FlowPauses, FlowGivesUp, FlowPosts, FlowSwitches
  <1>3. CASE CallAnswered
      BY <1>3 DEF CallAnswered, CallCloses, CallApplies, CallDone
  <1>4. CASE ServerAnswersCall \/ NetworkFails
      BY <1>4 DEF ServerAnswersCall, NetworkFails
  <1>5. CASE \/ \E s \in Sessions : Open(s) \/ OtherSurfaceSaves(s)
             \/ \E k \in Kinds : Edit(k) \/ DebounceFires(k)
             \/ \E op \in Flows : FlowStart(op)
             \/ CustomerBlur \/ ArtifactSignal
      BY <1>5 DEF Open, OtherSurfaceSaves, Edit, DebounceFires, FlowStart, CustomerBlur, ArtifactSignal
  <1>6. CASE \/ LoopSends \/ LoopEnds \/ PutAnswered \/ RetryFires \/ FlowGoesOn \/ PauseEnds
             \/ RefreshAnswered \/ ServerAnswersPut \/ ServerReads \/ UNCHANGED vars
      BY <1>6 DEF LoopSends, LoopEnds, PutAnswered, PutIgnored, PutOvertaken, RowsAcknowledged,
                  CustomerAcknowledged, PutFailed, RetryFires, FlowGoesOn, PauseEnds,
                  RefreshAnswered, ServerAnswersPut, ServerReads, vars
  <1>7. QED
      BY <1>1, <1>2, <1>3, <1>4, <1>5, <1>6 DEF Next

\* No POST is under way beside a handler's flush, and a selection is awaited in its workspace.
LEMMA OwnKept ==
    ASSUME IInv, [Next]_vars, CallOwn, Awaits
    PROVE  CallOwn'
  <1>1. ASSUME flow'.phase # "none"
        PROVE  call'.phase = "none"
    <2>1. CASE \E op \in Flows : FlowStart(op)
        BY <2>1 DEF FlowStart
    <2>2. CASE flow.phase # "none"
        BY <1>1, <2>2, CallIdle DEF CallOwn
    <2>3. QED
        BY <1>1, <2>1, <2>2, FlowMoves
  <1>2. ASSUME call'.phase \in {"sent", "ok"}, Picks'
        PROVE  call'.sess = session'
    <2>1. CASE call' = call
      <3>1. call.sess = session /\ call.phase # "none" /\ call.phase # "settling"
          BY <1>2, <2>1 DEF CallOwn, Picks
      <3>2. CASE UNCHANGED session
          BY <2>1, <3>1, <3>2
      <3>3. CASE \E s \in Sessions : Open(s)
          BY <3>1, <3>3 DEF Awaits
      <3>4. CASE CallCloses
          BY <1>2, <2>1, <3>4 DEF CallCloses, Picks, CallOwn
      <3>5. CASE TakesCall
        <4>1. NoCall.phase = "none"
            BY DEF NoCall
        <4>2. QED
            BY <1>2, <3>5, <4>1 DEF TakesCall
      <3>6. QED
          BY <3>2, <3>3, <3>4, <3>5, Taken DEF TakesPut, TakesRead
    <2>2. CASE Posted
      <3>1. session' = session
          BY <2>2 DEF Posted, SelectCustomer, CancelWorkspace, FlowActs
      <3>2. QED
          BY <2>2, <3>1 DEF Posted
    <2>3. CASE call.phase = "sent" /\ (ServerCloses \/ ServerSetsCustomer)
      <3>2. CASE ServerSetsCustomer
        <4>1. call'.sess = call.sess /\ Picks
            BY <3>2, SetsOnce, Records DEF Picks, CallRecords
        <4>2. Written(call.sess) /\ server[call.sess].rev \in Nat
            BY <3>2, SetsOnce, Records DEF Workspaces
        <4>3. server' # server
            BY <4>2 DEF Written
        <4>4. session' = session
            BY <4>3, WritersOnly
        <4>5. QED
            BY <2>3, <4>1, <4>4 DEF CallOwn
      <3>3. CASE ServerCloses
        <4>1. call'.op \in {"finalize", "cancel"}
            BY <3>3, ClosesOnly, Records DEF CallRecords
        <4>2. QED
            BY <1>2, <4>1 DEF Picks
      <3>4. QED
          BY <2>3, <3>2, <3>3
    <2>4. QED
        BY <1>2, <2>1, <2>2, <2>3, CallMoves
  <1>3. QED
      BY <1>1, <1>2 DEF CallOwn

\* With nothing lost and no other writer so far, this step was neither.
LEMMA Undisturbed ==
    ASSUME IInv, [Next]_vars, writes' = 0, faults' = 0
    PROVE  /\ writes = 0 /\ faults = 0
           /\ ~NetworkFails /\ \A s \in Sessions : ~OtherSurfaceSaves(s)
  <1>1. writes \in Nat /\ faults \in Nat
      BY DEF IInv, BookTypeOK
  <1>2. CASE NetworkFails
      BY <1>1, <1>2 DEF NetworkFails
  <1>3. CASE \E s \in Sessions : OtherSurfaceSaves(s)
      BY <1>1, <1>3 DEF OtherSurfaceSaves
  <1>4. CASE \/ \E s \in Sessions : Open(s)
             \/ \E k \in Kinds : Edit(k) \/ DebounceFires(k)
             \/ \E op \in Flows : FlowStart(op)
             \/ CustomerBlur \/ SelectCustomer \/ CancelWorkspace \/ ArtifactSignal
             \/ LoopSends \/ LoopEnds \/ PutAnswered \/ RetryFires
      BY <1>2, <1>3, <1>4
      DEF Open, Edit, DebounceFires, FlowStart, CustomerBlur, SelectCustomer, CancelWorkspace,
          ArtifactSignal, LoopSends, LoopEnds, PutAnswered, PutIgnored, PutOvertaken,
          RowsAcknowledged, CustomerAcknowledged, PutFailed, RetryFires
  <1>5. CASE \/ FlowGoesOn \/ PauseEnds \/ FlowActs \/ CallAnswered \/ RefreshAnswered
             \/ ServerAnswersPut \/ ServerAnswersCall \/ ServerReads \/ UNCHANGED vars
      BY <1>2, <1>3, <1>5
      DEF FlowGoesOn, PauseEnds, FlowActs, CallAnswered, RefreshAnswered, ServerAnswersPut,
          ServerAnswersCall, ServerReads, vars
  <1>6. QED
      BY <1>2, <1>3, <1>4, <1>5 DEF Next

\* The answer of a PUT goes when the form takes it or finds it useless.
LEMMA PutGone ==
    ASSUME [Next]_vars, put.phase = "ok", put' # put
    PROVE  TakesPut \/ PutIgnored
  <1>1. CASE PutAnswered
    <2>1. CASE PutFailed
        BY <2>1 DEF PutFailed
    <2>2. CASE PutOvertaken \/ RowsAcknowledged
        BY <2>2 DEF PutOvertaken, RowsAcknowledged, TakesPut
    <2>3. CASE CustomerAcknowledged
        BY <2>3 DEF CustomerAcknowledged, ApplyWorkspace, TakesPut
    <2>4. QED
        BY <1>1, <2>1, <2>2, <2>3 DEF PutAnswered
  <1>2. CASE LoopSends \/ ServerAnswersPut \/ NetworkFails
      BY <1>2 DEF LoopSends, PutPending, ServerAnswersPut, ServerSaves, NetworkFails
  <1>3. CASE \/ \E s \in Sessions : Open(s) \/ OtherSurfaceSaves(s)
             \/ \E k \in Kinds : Edit(k) \/ DebounceFires(k)
             \/ \E op \in Flows : FlowStart(op)
             \/ CustomerBlur \/ SelectCustomer \/ CancelWorkspace \/ ArtifactSignal
      BY <1>3 DEF Open, OtherSurfaceSaves, Edit, DebounceFires, FlowStart, CustomerBlur,
                  SelectCustomer, CancelWorkspace, ArtifactSignal
  <1>4. CASE LoopEnds
      BY <1>4 DEF LoopEnds
  <1>5. CASE \/ RetryFires \/ FlowGoesOn \/ PauseEnds \/ FlowActs
             \/ CallAnswered \/ RefreshAnswered \/ ServerAnswersCall \/ ServerReads \/ UNCHANGED vars
      BY <1>5 DEF RetryFires, FlowGoesOn, PauseEnds, FlowActs, CallAnswered,
                  RefreshAnswered, ServerAnswersCall, ServerReads, vars
  <1>6. QED
      BY <1>1, <1>2, <1>3, <1>4, <1>5 DEF Next

\* The answer of a selection or detachment goes when the form takes it or finds
\* it stale, or is lost.
LEMMA CallGone ==
    ASSUME [Next]_vars, CallOwn, call.phase = "ok", Picks, call' # call
    PROVE  \/ TakesCall \/ NetworkFails
           \/ CallStale /\ UNCHANGED <<server, session, rev, put>>
  <1>1. flow.phase = "none"
      BY DEF CallOwn
  <1>2. CASE CallAnswered
    <2>1. CASE CallCloses
        BY <2>1 DEF CallCloses, Picks
    <2>2. CASE CallApplies
        BY <1>2, <2>2 DEF CallAnswered, CallApplies, ApplyWorkspace, TakesCall
    <2>3. CASE CallDone
        BY <1>2, <2>3 DEF CallAnswered, CallDone
    <2>4. QED
        BY <1>2, <2>1, <2>2, <2>3 DEF CallAnswered
  <1>3. CASE SelectCustomer \/ CancelWorkspace \/ FlowActs \/ ServerAnswersCall
      BY <1>1, <1>3 DEF SelectCustomer, CancelWorkspace, FlowActs, FlowPauses, FlowGivesUp,
                        FlowPosts, FlowSwitches, ServerAnswersCall
  <1>4. CASE \/ \E s \in Sessions : Open(s) \/ OtherSurfaceSaves(s)
             \/ \E k \in Kinds : Edit(k) \/ DebounceFires(k)
             \/ \E op \in Flows : FlowStart(op)
             \/ CustomerBlur \/ ArtifactSignal
      BY <1>4 DEF Open, OtherSurfaceSaves, Edit, DebounceFires, FlowStart, CustomerBlur, ArtifactSignal
  <1>5. CASE \/ LoopSends \/ LoopEnds \/ PutAnswered \/ RetryFires \/ FlowGoesOn \/ PauseEnds
             \/ RefreshAnswered \/ ServerAnswersPut \/ ServerReads \/ UNCHANGED vars
      BY <1>5 DEF LoopSends, LoopEnds, PutAnswered, PutIgnored, PutOvertaken, RowsAcknowledged,
                  CustomerAcknowledged, PutFailed, RetryFires, FlowGoesOn, PauseEnds,
                  RefreshAnswered, ServerAnswersPut, ServerReads, vars
  <1>6. QED
      BY <1>2, <1>3, <1>4, <1>5 DEF Next

\* Whenever a step leaves the form behind, the answer that tells is there.
LEMMA ToldKept ==
    ASSUME IInv, [Next]_vars, KnownInv
    PROVE  Told'
  <1> SUFFICES ASSUME session' # NoSession, server'[session'].open, writes' = 0, faults' = 0
               PROVE  \/ rev' = server'[session'].rev
                      \/ /\ put'.phase = "ok" /\ put'.sess = session'
                         /\ put'.rev = server'[session'].rev
                      \/ /\ call'.phase = "ok" /\ Picks'
                         /\ call'.rev = server'[session'].rev
      BY DEF Told
  <1>1. /\ writes = 0 /\ faults = 0 /\ ~NetworkFails
        /\ \A s \in Sessions : ~OtherSurfaceSaves(s)
      BY Undisturbed
  <1>2. /\ session' \in Sessions /\ rev \in Nat /\ put.rev \in Nat /\ call.rev \in Nat
        /\ refresh.rev \in Nat /\ \A s \in Sessions : server[s].rev \in Nat
      BY NextKeeps, Records DEF IInv, FormTypeOK, PutRecords, CallRecords, RefreshRecords, Workspaces
  <1>3. CASE UNCHANGED <<session, rev, server>>
    <2>1. CASE rev = server[session].rev
        BY <1>3, <2>1
    <2>2. CASE put.phase = "ok" /\ put.sess = session /\ put.rev = server[session].rev
      <3>1. CASE put' = put
          BY <1>3, <2>2, <3>1
      <3>2. CASE PutIgnored
          BY <1>2, <1>3, <2>2, <3>2 DEF PutIgnored, PutUseless, KnownInv, BoundInv, RevBound
      <3>3. CASE TakesPut
          BY <1>3, <2>2, <3>3 DEF TakesPut
      <3>4. QED
          BY <2>2, <3>1, <3>2, <3>3, PutGone
    <2>3. CASE call.phase = "ok" /\ Picks /\ call.rev = server[session].rev
      <3>1. CASE call' = call
          BY <1>3, <2>3, <3>1 DEF Picks
      <3>2. CASE TakesCall
          BY <1>3, <2>3, <3>2 DEF TakesCall
      <3>3. CASE CallStale
          BY <1>2, <1>3, <2>3, <3>3 DEF CallStale, KnownInv, BoundInv, RevBound
      <3>4. QED
          BY <1>1, <2>3, <3>1, <3>2, <3>3, CallGone DEF KnownInv
    <2>4. QED
        BY <1>1, <1>3, <2>1, <2>2, <2>3 DEF KnownInv, Told
  <1>4. CASE server' # server
    <2>1. session' = session /\ rev' = rev
        BY <1>4, WritersOnly
    <2>2. CASE ServerSaves("ok") /\ UNCHANGED call
      <3>1. CASE put.sess = session
          BY <2>1, <2>2, <3>1, SavesOnce, Records DEF PutRecords
      <3>2. CASE put.sess # session
        <4>1. put.phase = "sent" /\ Same(session)
            BY <1>2, <2>1, <2>2, <3>2, SavesOnce
        <4>2. QED
            BY <1>1, <2>1, <2>2, <4>1 DEF Same, KnownInv, Told, Picks
      <3>3. QED
          BY <3>1, <3>2
    <2>3. CASE ServerCloses /\ call.phase = "sent" /\ UNCHANGED put
        BY <1>1, <1>2, <2>1, <2>3, ClosesOnly DEF KnownInv, Told
    <2>4. CASE ServerSetsCustomer /\ call.phase = "sent"
      <3>1. call.sess = session
          BY <2>4, SetsOnce DEF KnownInv, CallOwn, Picks
      <3>2. QED
          BY <2>1, <2>4, <3>1, SetsOnce, Records DEF CallRecords, Picks
    <2>5. QED
        BY <1>1, <1>4, <2>2, <2>3, <2>4, WritersOnly
  <1>5. CASE server' = server /\ ~UNCHANGED <<session, rev>>
    <2>1. CASE \E s \in Sessions : Open(s)
        BY <2>1 DEF Open
    <2>2. CASE CallCloses
        BY <2>2 DEF CallCloses
    <2>3. CASE TakesPut
      <3>1. put.sess = session /\ put.rev >= rev /\ put.rev <= server[session].rev
          BY <1>2, <2>3 DEF TakesPut, PutUseless, KnownInv, BoundInv, PutBound
      <3>2. CASE call.phase = "ok" /\ Picks /\ call.rev = server[session].rev
          BY <2>3, <3>2 DEF TakesPut, Picks
      <3>3. CASE rev = server[session].rev \/ put.rev = server[session].rev
          BY <1>2, <2>3, <3>1, <3>3 DEF TakesPut
      <3>4. QED
          BY <1>1, <1>5, <2>3, <3>2, <3>3 DEF TakesPut, KnownInv, Told
    <2>4. CASE TakesCall
      <3>1. Picks /\ call.sess = session /\ call.rev >= rev /\ call.rev <= server[session].rev
          BY <1>2, <2>4 DEF TakesCall, CallStale, KnownInv, BoundInv, CallBound, CallOwn, Picks
      <3>2. CASE put.phase = "ok" /\ put.sess = session /\ put.rev = server[session].rev
          BY <2>4, <3>1, <3>2 DEF TakesCall
      <3>3. CASE rev = server[session].rev \/ call.rev = server[session].rev
          BY <1>2, <2>4, <3>1, <3>3 DEF TakesCall
      <3>4. QED
          BY <1>1, <1>5, <2>4, <3>1, <3>2, <3>3 DEF TakesCall, KnownInv, Told
    <2>5. CASE TakesRead
      <3>1. refresh.sess = session /\ refresh.rev >= rev /\ refresh.rev <= server[session].rev
          BY <1>2, <2>5 DEF TakesRead, RefreshUseful, KnownInv, BoundInv, ReadBound
      <3>2. CASE \/ put.phase = "ok" /\ put.sess = session /\ put.rev = server[session].rev
                 \/ call.phase = "ok" /\ Picks /\ call.rev = server[session].rev
          BY <2>5, <3>2 DEF TakesRead, Picks
      <3>3. CASE rev = server[session].rev
          BY <1>2, <2>5, <3>1, <3>3 DEF TakesRead
      <3>4. QED
          BY <1>1, <1>5, <2>5, <3>2, <3>3 DEF TakesRead, KnownInv, Told
    <2>6. QED
        BY <1>5, <2>1, <2>2, <2>3, <2>4, <2>5, Taken
  <1>6. QED
      BY <1>3, <1>4, <1>5

\* Before another workspace is opened, the answer to a selection, a detachment,
\* a finalization or a cancellation has come.
CallsAwaited == [][Awaits]_vars

LEMMA KnownInit ==
    ASSUME Init
    PROVE  KnownInv
  BY DEF Init, KnownInv, BoundInv, RevBound, PutBound, CallBound, ReadBound, CallOwn, Told,
         NoPut, NoCall, NoRefresh, NoFlow

\* The form's own saves never make it lose track of the revision, whatever the
\* operator's habits and however many workspaces there are, as long as none is
\* left while a POST is awaited.
THEOREM RevisionStaysKnown == Spec /\ CallsAwaited => []RevisionKnown
  <1>1. Init => KnownInv
      BY KnownInit
  <1>2. IInv /\ KnownInv /\ [Next]_vars /\ [Awaits]_vars => KnownInv'
    <2>1. ASSUME IInv, KnownInv, [Next]_vars, Awaits
          PROVE  KnownInv'
        BY <2>1, BoundKept, OwnKept, ToldKept DEF KnownInv
    <2>2. ASSUME KnownInv, UNCHANGED vars
          PROVE  KnownInv'
        BY <2>2 DEF vars, KnownInv, BoundInv, RevBound, PutBound, CallBound, ReadBound, CallOwn,
                    Told, Picks
    <2>3. QED
        BY <2>1, <2>2
  <1>3. IInv /\ KnownInv => RevisionKnown
      BY DEF KnownInv, Told, RevisionKnown
  <1>4. QED
      BY <1>1, <1>2, <1>3, Inductive, PTL DEF Spec, CallsAwaited

-----------------------------------------------------------------------------
(* Which steps touch what.                                                 *)

Opens == \E s \in Sessions : Open(s)
Edits == \E k \in Kinds : Edit(k)
Fires == \E k \in Kinds : DebounceFires(k)
Starts == \E op \in Flows : FlowStart(op)
FlushGoesOn == FlowGoesOn \/ PauseEnds

FormFrame == \/ UNCHANGED <<form, acked>>
             \/ Opens \/ Edits \/ PutAnswered \/ CallAnswered \/ RefreshAnswered
QueueFrame == \/ UNCHANGED <<queue, timer>>
              \/ Opens \/ Edits \/ PutAnswered \/ CallAnswered \/ RefreshAnswered
              \/ Fires \/ CustomerBlur \/ LoopSends \/ Starts \/ FlushGoesOn
ShortcutFrame == \/ UNCHANGED shortcut
                 \/ Opens \/ PutAnswered \/ CallAnswered \/ RefreshAnswered
                 \/ FlowActs \/ CancelWorkspace
PutFrame == \/ UNCHANGED put
            \/ LoopSends \/ PutAnswered \/ ServerAnswersPut \/ NetworkFails
CallFrame == \/ UNCHANGED call
             \/ SelectCustomer \/ CancelWorkspace \/ FlowActs \/ CallAnswered
             \/ ServerAnswersCall \/ NetworkFails
FlowFrame == \/ UNCHANGED flow
             \/ Starts \/ LoopEnds \/ PutAnswered \/ FlushGoesOn \/ FlowActs
ReadFrame == \/ UNCHANGED refresh
             \/ Opens \/ Edits \/ PutAnswered \/ CallAnswered \/ RefreshAnswered
             \/ FlowActs \/ ArtifactSignal \/ ServerReads \/ NetworkFails
ServerFrame == \/ UNCHANGED server
               \/ ServerAnswersPut \/ ServerAnswersCall \/ NetworkFails
               \/ \E s \in Sessions : OtherSurfaceSaves(s)
EditsFrame == UNCHANGED edits \/ Edits \/ SelectCustomer

\* Each group of variables is left alone by all but the named steps.
LEMMA Frames ==
    ASSUME [Next]_vars
    PROVE  /\ FormFrame /\ QueueFrame /\ ShortcutFrame /\ PutFrame /\ CallFrame /\ FlowFrame
           /\ ReadFrame /\ ServerFrame /\ EditsFrame
  <1> USE DEF FormFrame, QueueFrame, ShortcutFrame, PutFrame, CallFrame, FlowFrame, ReadFrame,
              ServerFrame, EditsFrame, formVars
  <1>1. CASE Opens \/ \E s \in Sessions : OtherSurfaceSaves(s)
      BY <1>1 DEF Opens, Open, OtherSurfaceSaves
  <1>2. CASE Edits \/ Fires
      BY <1>2 DEF Edits, Edit, Fires, DebounceFires
  <1>3. CASE Starts
      BY <1>3 DEF Starts, FlowStart
  <1>4. CASE FlushGoesOn
      BY <1>4 DEF FlushGoesOn, FlowGoesOn, PauseEnds
  <1>5. CASE CustomerBlur \/ SelectCustomer \/ CancelWorkspace \/ ArtifactSignal
      BY <1>5 DEF CustomerBlur, SelectCustomer, CancelWorkspace, ArtifactSignal
  <1>6. CASE LoopSends \/ LoopEnds \/ RetryFires
      BY <1>6 DEF LoopSends, LoopEnds, RetryFires
  <1>7. CASE PutAnswered
      BY <1>7 DEF PutAnswered, PutIgnored, PutOvertaken, RowsAcknowledged, CustomerAcknowledged,
                  PutFailed
  <1>8. CASE FlowActs
      BY <1>8 DEF FlowActs
  <1>9. CASE CallAnswered
      BY <1>9 DEF CallAnswered
  <1>10. CASE RefreshAnswered
      BY <1>10 DEF RefreshAnswered
  <1>11. CASE ServerAnswersPut \/ ServerAnswersCall \/ ServerReads \/ NetworkFails
      BY <1>11 DEF ServerAnswersPut, ServerAnswersCall, ServerReads, NetworkFails
  <1>12. CASE UNCHANGED vars
      BY <1>12 DEF vars
  <1>13. QED
      BY <1>1, <1>2, <1>3, <1>4, <1>5, <1>6, <1>7, <1>8, <1>9, <1>10, <1>11, <1>12
      DEF Next, Opens, Edits, Fires, Starts, FlushGoesOn

-----------------------------------------------------------------------------
(* Every value in the system has been given to a half.                     *)

Given == Halves(edits)
UsedBook == \A s \in Sessions : server[s].rows \in Given /\ server[s].cust \in Given
UsedForm == \A k \in Kinds : form[k] \in Given /\ acked[k] \in Given
UsedQueue == \A k \in Kinds : /\ queue[k] # NoPayload => queue[k] \in Given
                              /\ timer[k] # NoPayload => timer[k] \in Given
UsedPut == put.payload \in Given /\ put.rows \in Given
UsedRead == refresh.rows \in Given /\ refresh.cust \in Given
UsedCall == call.rows \in Given /\ call.cust \in Given
UsedFlow == /\ flow.cust \in Given /\ flow.terms \in 0..edits
            /\ shortcut.cust \in Given /\ shortcut.terms \in 0..edits
UsedInv == UsedBook /\ UsedForm /\ UsedQueue /\ UsedPut /\ UsedRead /\ UsedCall /\ UsedFlow

\* Values once given stay given, part by part.
LEMMA GivenGrows ==
    ASSUME IInv, [Next]_vars
    PROVE  /\ edits \in Nat /\ edits' \in Nat /\ edits' >= edits
           /\ Blank \in Given /\ Blank \in Given' /\ 0 \in 0..edits
           /\ \A n \in 0..edits : n \in 0..edits'
           /\ \A v \in Given : v \in Given'
  <1>1. edits \in Nat /\ edits' \in Nat
      BY NextKeeps, BoundAssumption DEF IInv, BookTypeOK
  <1>2. edits' >= edits
    <2>1. ASSUME NEW k \in Kinds, Edit(k)
          PROVE  edits' >= edits
        BY <1>1, <2>1 DEF Edit
    <2>2. CASE SelectCustomer
        BY <1>1, <2>2 DEF SelectCustomer
    <2>3. QED
        BY <1>1, <2>1, <2>2, Frames DEF EditsFrame, Edits
  <1>3. 0 \in 0..edits /\ 0 \in 0..edits' /\ \A n \in 0..edits : n \in 0..edits'
      BY <1>1, <1>2
  <1>4. Blank \in Given /\ Blank \in Given'
      BY <1>1, <1>3, HalfOf DEF Blank, Given
  <1>5. ASSUME NEW v \in Given
        PROVE  v \in Given'
    <2>1. v.live \in 0..edits' /\ v.held \in 0..edits' /\ v = Half(v.live, v.held)
        BY <1>1, <1>3, HalfOf DEF Given
    <2>2. Half(v.live, v.held) \in Halves(edits')
        BY <1>1, <2>1, HalfOf
    <2>3. QED
        BY <2>1, <2>2 DEF Given
  <1>6. QED
      BY <1>1, <1>2, <1>3, <1>4, <1>5

\* The parts of a given value, and what two parts make.
LEMMA GivenParts ==
    ASSUME IInv
    PROVE  /\ \A v \in Given : v.live \in 0..edits /\ v.held \in 0..edits /\ v = Half(v.live, v.held)
           /\ \A l, h \in 0..edits : Half(l, h) \in Given
  BY HalfOf DEF IInv, BookTypeOK, Given

\* What is typed has a part nobody used before.
LEMMA NewGiven ==
    ASSUME IInv, NEW k \in Kinds, form[k] \in Given, NEW v \in NewValues(k), v # form[k]
    PROVE  v \in Halves(edits + 1) /\ v \notin Given
  <1>1. edits \in Nat
      BY DEF IInv, BookTypeOK
  <1>2. /\ form[k].live \in 0..(edits + 1) /\ form[k].held \in 0..(edits + 1)
        /\ form[k] = Half(form[k].live, form[k].held)
      BY <1>1, GivenParts
  <1>3. PICK l \in 0..(edits + 1), h \in 0..(edits + 1) :
               v = Half(l, h) /\ (l = edits + 1 \/ h = edits + 1)
    <2>1. CASE k = "rows"
        BY <1>1, <1>2, <2>1 DEF NewValues
    <2>2. CASE k # "rows"
        BY <1>1, <2>2 DEF NewValues
    <2>3. QED
        BY <2>1, <2>2
  <1>4. v \in Halves(edits + 1) /\ v.live = l /\ v.held = h
      BY <1>1, <1>3, HalfOf
  <1>5. QED
      BY <1>1, <1>3, <1>4, GivenParts

\* The server is given no value that nobody typed.
LEMMA UsedBookKept ==
    ASSUME IInv, [Next]_vars, UsedInv
    PROVE  UsedBook'
  <1> USE DEF UsedInv
  <1> SUFFICES ASSUME NEW s \in Sessions
               PROVE  server'[s].rows \in Given' /\ server'[s].cust \in Given'
      BY DEF UsedBook
  <1>1. CASE server' = server
      BY <1>1, GivenGrows DEF UsedBook
  <1>2. ASSUME NEW answer \in {"ok", "lost"}, ServerSaves(answer)
        PROVE  server'[s].rows \in Given' /\ server'[s].cust \in Given'
      BY <1>2, SavesOnce, GivenGrows, Records DEF UsedBook, UsedPut, Same, PutRecords, Kinds
  <1>3. CASE ServerCloses
      BY <1>3, ClosesOnly, GivenGrows DEF UsedBook
  <1>4. CASE ServerSetsCustomer
    <2>1. call.cust \in Given' /\ Blank \in Given'
        BY GivenGrows DEF UsedCall
    <2>2. QED
        BY <1>4, <2>1, SetsOnce, GivenGrows DEF UsedBook, Same
  <1>5. CASE \E t \in Sessions : OtherSurfaceSaves(t)
    <2>1. PICK t \in Sessions : OtherSurfaceSaves(t)
        BY <1>5
    <2>2. server'[t].rows \in Given /\ server'[t].cust = server[t].cust
          /\ (s # t => Same(s))
        BY <2>1, OtherOnce DEF Given
    <2>3. QED
        BY <2>2, GivenGrows DEF UsedBook, Same
  <1>6. QED
      BY <1>1, <1>2, <1>3, <1>4, <1>5, WritersOnly

\* What applyWorkspace leaves in the form.
LEMMA Applied ==
    ASSUME IInv, NEW s, NEW d, NEW pend, ApplyWorkspace(s, d, pend)
    PROVE  /\ session' = s /\ rev' = d.rev
           /\ form'["rows"] = d.rows /\ form'["cust"] = d.cust
           /\ \A k \in Kinds : /\ acked'[k] = form'[k] /\ timer'[k] = NoPayload
                               /\ queue'[k] = NoPayload \/ queue'[k] = queue[k]
                               /\ ~Muted(k) /\ ~Invalid(k, form'[k]) => queue'[k] = NoPayload
           /\ shortcut'.cust = d.cust /\ shortcut'.terms = form'["rows"].held
           /\ refresh' = Overtaken(form') \/ refresh' = Reading(s, refresh)
           /\ s = session => refresh' = Overtaken(form')
  <1> DEFINE f == [k \in Kinds |-> IF k = "rows" THEN d.rows ELSE d.cust]
  <1>1. /\ session' = s /\ rev' = d.rev /\ form' = f /\ acked' = f
        /\ timer' = [k \in Kinds |-> NoPayload]
        /\ queue' = [k \in Kinds |-> EffectQueue(k, f[k], f[k])]
        /\ shortcut' = Render(f, pend)
        /\ refresh' = IF s = session THEN Overtaken(f) ELSE Reading(s, refresh)
      BY DEF ApplyWorkspace
  <1>2. f["rows"] = d.rows /\ f["cust"] = d.cust
      BY DEF Kinds
  <1>3. shortcut'.cust = d.cust /\ shortcut'.terms = form'["rows"].held
      BY <1>1, <1>2 DEF Render
  <1> HIDE DEF f
  <1>4. \A k \in Kinds : /\ acked'[k] = form'[k] /\ timer'[k] = NoPayload
                         /\ queue'[k] = EffectQueue(k, form'[k], form'[k])
      BY <1>1
  <1>5. ASSUME NEW k \in Kinds
        PROVE  /\ queue'[k] = NoPayload \/ queue'[k] = queue[k]
               /\ ~Muted(k) /\ ~Invalid(k, form'[k]) => queue'[k] = NoPayload
      BY <1>4 DEF EffectQueue
  <1>6. QED
      BY <1>1, <1>2, <1>3, <1>4, <1>5

\* What a read that is used leaves in the form.
LEMMA ReadApplied ==
    ASSUME IInv, RefreshApplies
    PROVE  /\ rev' = refresh.rev
           /\ form'["rows"] = refresh.rows /\ form'["cust"] = refresh.cust
           /\ \A k \in Kinds : /\ acked'[k] = form'[k] /\ timer'[k] = NoPayload
                               /\ queue'[k] = NoPayload
           /\ shortcut'.cust = refresh.cust /\ shortcut'.terms = form'["rows"].held
  <1> DEFINE f == [k \in Kinds |-> IF k = "rows" THEN refresh.rows ELSE refresh.cust]
  <1>1. /\ rev' = refresh.rev /\ form' = f /\ acked' = f
        /\ timer' = [k \in Kinds |-> NoPayload]
        /\ queue' = [k \in Kinds |-> EffectQueue(k, f[k], f[k])]
        /\ shortcut' = Render(f, PutPending)
        /\ \A k \in Kinds : queue[k] = NoPayload
      BY DEF RefreshApplies, RefreshUseful, Queued
  <1>2. f["rows"] = refresh.rows /\ f["cust"] = refresh.cust
      BY DEF Kinds
  <1>3. shortcut'.cust = refresh.cust /\ shortcut'.terms = form'["rows"].held
      BY <1>1, <1>2 DEF Render
  <1> HIDE DEF f
  <1>4. \A k \in Kinds : queue'[k] = NoPayload
      BY <1>1 DEF EffectQueue
  <1>5. QED
      BY <1>1, <1>2, <1>3, <1>4

\* What an opened workspace leaves in the form.
LEMMA Opened ==
    ASSUME IInv, NEW s \in Sessions, Open(s)
    PROVE  /\ session' = s /\ rev' = server[s].rev
           /\ form'["rows"] = server[s].rows /\ form'["cust"] = server[s].cust
           /\ \A k \in Kinds : /\ acked'[k] = form'[k] /\ timer'[k] = NoPayload
                               /\ queue'[k] = NoPayload
           /\ shortcut'.cust = server[s].cust /\ shortcut'.terms = form'["rows"].held
           /\ refresh' = Reading(s, refresh)
           /\ server[s].open /\ ~Micro
           /\ UNCHANGED <<server, chain, put, call, flow, finalizing, retryArmed, edits>>
  <1> DEFINE f == [k \in Kinds |-> IF k = "rows" THEN server[s].rows ELSE server[s].cust]
  <1>1. /\ session' = s /\ rev' = server[s].rev /\ form' = f /\ acked' = f
        /\ timer' = [k \in Kinds |-> NoPayload] /\ queue' = [k \in Kinds |-> NoPayload]
        /\ shortcut' = Render(f, PutPending)
        /\ refresh' = Reading(s, refresh)
        /\ server[s].open /\ ~Micro
        /\ UNCHANGED <<server, chain, put, call, flow, finalizing, retryArmed, edits>>
      BY DEF Open
  <1>2. f["rows"] = server[s].rows /\ f["cust"] = server[s].cust
      BY DEF Kinds
  <1>3. shortcut'.cust = server[s].cust /\ shortcut'.terms = form'["rows"].held
      BY <1>1, <1>2 DEF Render
  <1> HIDE DEF f
  <1>4. QED
      BY <1>1, <1>2, <1>3

\* What closing leaves in the form.
LEMMA Closed ==
    ASSUME CallCloses
    PROVE  /\ session' = NoSession /\ \A k \in Kinds : /\ form'[k] = Blank /\ acked'[k] = Blank
                                                       /\ queue'[k] = NoPayload /\ timer'[k] = NoPayload
           /\ shortcut'.cust = Blank /\ shortcut'.terms = 0 /\ refresh' = refresh
           /\ call.phase = "ok" /\ call.op \in {"finalize", "cancel"}
           /\ \/ call' = [NoCall EXCEPT !.phase = "settling", !.op = "finalize"]
              \/ call' = NoCall
  BY DEF CallCloses, BlankRender

\* What the answer to a selection or detachment leaves in the form.
LEMMA CallApplied ==
    ASSUME IInv, CallApplies
    PROVE  /\ session' = call.sess /\ rev' = call.rev
           /\ form'["rows"] = call.rows /\ form'["cust"] = call.cust
           /\ \A k \in Kinds : /\ acked'[k] = form'[k] /\ timer'[k] = NoPayload
                               /\ queue'[k] = NoPayload \/ queue'[k] = queue[k]
           /\ shortcut'.cust = call.cust /\ shortcut'.terms = form'["rows"].held
           /\ refresh' = Overtaken(form') \/ refresh' = Reading(call.sess, refresh)
           /\ call.sess = session => refresh' = Overtaken(form')
  <1>1. ApplyWorkspace(call.sess, call, PutPending)
      BY DEF CallApplies
  <1>2. QED
      BY <1>1, Applied

\* What the answer to a customer PUT leaves in the form.
LEMMA CustomerApplied ==
    ASSUME IInv, CustomerAcknowledged
    PROVE  /\ session' = session /\ rev' = put.rev
           /\ form'["rows"] = put.rows /\ form'["cust"] = put.payload
           /\ \A k \in Kinds : /\ acked'[k] = form'[k] /\ timer'[k] = NoPayload
                               /\ queue'[k] = NoPayload \/ queue'[k] = queue[k]
                               /\ ~Muted(k) /\ ~Invalid(k, form'[k]) => queue'[k] = NoPayload
           /\ shortcut'.cust = put.payload /\ shortcut'.terms = form'["rows"].held
           /\ refresh' = Overtaken(form')
  <1>1. PICK d : /\ d.rows = put.rows /\ d.cust = put.payload /\ d.rev = put.rev
                 /\ ApplyWorkspace(session, d, FALSE)
      BY DEF CustomerAcknowledged
  <1>2. QED
      BY <1>1, Applied

\* Neither is the form.
LEMMA UsedFormKept ==
    ASSUME IInv, [Next]_vars, UsedInv
    PROVE  UsedForm'
  <1> USE DEF UsedInv
  <1>1. ASSUME \A k \in Kinds : form'[k] \in Given /\ acked'[k] \in Given
        PROVE  UsedForm'
      BY <1>1, GivenGrows DEF UsedForm
  <1>2. CASE UNCHANGED <<form, acked>>
      BY <1>1, <1>2 DEF UsedForm
  <1>3. CASE Opens
      BY <1>1, <1>3, Opened DEF Opens, UsedBook, Kinds
  <1>4. ASSUME NEW k \in Kinds, Edit(k)
        PROVE  UsedForm'
    <2>1. PICK v \in EditValues(k) :
            /\ v # form[k]
            /\ form' = [form EXCEPT ![k] = v]
            /\ edits' = IF v = acked[k] THEN edits ELSE edits + 1
        BY <1>4 DEF Edit
    <2>2. v \in Given'
      <3>1. CASE v = acked[k]
          BY <3>1, GivenGrows DEF UsedForm
      <3>2. CASE v # acked[k]
        <4>1. v \in NewValues(k) /\ edits' = edits + 1
            BY <2>1, <3>2 DEF EditValues
        <4>2. QED
            BY <2>1, <4>1, NewGiven DEF UsedForm, Given
      <3>3. QED
          BY <3>1, <3>2
    <2>3. acked' = acked /\ form \in [Kinds -> Values]
        BY <1>4, Records DEF Edit
    <2>4. \A j \in Kinds : form'[j] = IF j = k THEN v ELSE form[j]
        BY <2>1, <2>3
    <2>5. QED
        BY <2>2, <2>3, <2>4, GivenGrows DEF UsedForm
  <1>5. CASE PutAnswered
    <2>1. CASE PutIgnored \/ PutOvertaken \/ PutFailed
        BY <1>2, <2>1 DEF PutIgnored, PutOvertaken, PutFailed
    <2>2. CASE RowsAcknowledged
      <3>1. form' = form /\ acked' = [acked EXCEPT !["rows"] = put.payload]
            /\ acked \in [Kinds -> Values]
          BY <2>2, Records DEF RowsAcknowledged
      <3>2. \A k \in Kinds : acked'[k] = IF k = "rows" THEN put.payload ELSE acked[k]
          BY <3>1
      <3>3. QED
          BY <1>1, <3>1, <3>2 DEF UsedForm, UsedPut
    <2>3. CASE CustomerAcknowledged
        BY <1>1, <2>3, CustomerApplied DEF UsedPut, Kinds
    <2>4. QED
        BY <1>5, <2>1, <2>2, <2>3 DEF PutAnswered
  <1>6. CASE CallAnswered
    <2>1. CASE CallApplies
        BY <1>1, <2>1, CallApplied DEF UsedCall, Kinds
    <2>2. CASE CallCloses
        BY <1>1, <2>2, Closed, GivenGrows
    <2>3. CASE CallDone
        BY <1>2, <2>3 DEF CallDone, formVars
    <2>4. QED
        BY <1>6, <2>1, <2>2, <2>3 DEF CallAnswered
  <1>7. CASE RefreshAnswered
    <2>1. CASE RefreshApplies
        BY <1>1, <2>1, ReadApplied DEF UsedRead, Kinds
    <2>2. CASE UNCHANGED formVars
        BY <1>2, <2>2 DEF formVars
    <2>3. QED
        BY <1>7, <2>1, <2>2 DEF RefreshAnswered
  <1>8. QED
      BY <1>2, <1>3, <1>4, <1>5, <1>6, <1>7, Frames DEF FormFrame, Edits

\* What a flush does: it queues the rows, or the captured customer, or it is
\* over at once.
Captured(fl) == /\ flow'.op = fl.op /\ flow'.sess = fl.sess /\ flow'.terms = fl.terms
                /\ flow'.cust = fl.cust /\ flow'.pend = fl.pend /\ flow'.again = fl.again
FlushesRows(fl, q) ==
    /\ flow'.phase = "rows" /\ fl.sess = session /\ Sections(fl) # acked["rows"]
    /\ queue' = [q EXCEPT !["rows"] = Sections(fl)]
    /\ chain' = Enqueued(chain, "rows")
FlushesCustomer(fl, q) ==
    /\ flow'.phase = "cust" /\ ~Invalid("cust", fl.cust) /\ fl.cust # acked["cust"]
    /\ queue' = [q EXCEPT !["cust"] = fl.cust]
    /\ chain' = Enqueued(chain, "cust")
FlushesNothing(fl, q) ==
    /\ flow'.phase = "flushed" /\ queue' = q /\ chain' = chain

\* The customer half of a flush queues what the handler captured, or finds nothing to save.
LEMMA CustomerFlushed ==
    ASSUME NEW fl \in FlowRecords, NEW q, FlushCustomer(fl, q, chain)
    PROVE  /\ Captured(fl)
           /\ FlushesCustomer(fl, q) \/ FlushesNothing(fl, q)
           /\ FlushesNothing(fl, q) => Invalid("cust", fl.cust) \/ fl.cust = acked["cust"]
  <1>1. CASE Invalid("cust", fl.cust) \/ fl.cust = acked["cust"]
      BY <1>1 DEF FlushCustomer, FlowRecords, Captured, FlushesNothing
  <1>2. CASE ~(Invalid("cust", fl.cust) \/ fl.cust = acked["cust"])
    <2>1. /\ flow' = [fl EXCEPT !.phase = "cust"] /\ queue' = [q EXCEPT !["cust"] = fl.cust]
          /\ chain' = Enqueued(chain, "cust")
        BY <1>2 DEF FlushCustomer
    <2>2. QED
        BY <1>2, <2>1 DEF FlowRecords, Captured, FlushesCustomer, FlushesNothing
  <1>3. QED
      BY <1>1, <1>2

\* A flush takes the rows first, and is over only with both halves saved or not savable.
LEMMA Flushed ==
    ASSUME NEW fl \in FlowRecords, NEW q, Flush(fl, q)
    PROVE  /\ Captured(fl)
           /\ FlushesRows(fl, q) \/ FlushesCustomer(fl, q) \/ FlushesNothing(fl, q)
           /\ FlushesCustomer(fl, q) => fl.sess = session /\ Sections(fl) = acked["rows"]
           /\ FlushesNothing(fl, q) /\ fl.sess = session =>
                Sections(fl) = acked["rows"] /\ (Invalid("cust", fl.cust) \/ fl.cust = acked["cust"])
  <1>1. CASE fl.sess # session
      BY <1>1 DEF Flush, FlowRecords, Captured, FlushesNothing, FlushesCustomer
  <1>2. CASE fl.sess = session /\ Sections(fl) # acked["rows"]
      BY <1>2 DEF Flush, FlowRecords, Captured, FlushesRows, FlushesNothing, FlushesCustomer
  <1>3. CASE fl.sess = session /\ Sections(fl) = acked["rows"]
      BY <1>3, CustomerFlushed DEF Flush
  <1>4. QED
      BY <1>1, <1>2, <1>3

\* What a handler captures when it starts.
LEMMA Started ==
    ASSUME IInv, NEW op \in Flows, FlowStart(op)
    PROVE  /\ session # NoSession /\ flow.phase = "none" /\ call.phase = "none" /\ ~Micro
           /\ op = "detach" /\ Pending => "mix" \in Habits
           /\ op = "shortcut" => "keys" \in Habits
           /\ \E fl \in FlowRecords, q \in [Kinds -> Payloads] :
                /\ Flush(fl, q)
                /\ fl.op = op /\ fl.sess = session /\ fl.again = FALSE
                /\ fl.cust = IF op = "shortcut" THEN shortcut.cust ELSE form["cust"]
                /\ fl.terms = IF op = "shortcut" THEN shortcut.terms ELSE form["rows"].held
                /\ op # "shortcut" => fl.pend = PutPending
                /\ q["rows"] = queue["rows"]
                /\ q["cust"] = IF op = "detach" THEN NoPayload ELSE queue["cust"]
           /\ UNCHANGED <<server, session, rev, form, acked, timer, put, refresh, call, shortcut,
                          edits>>
  <1> DEFINE seen == IF op = "shortcut" THEN shortcut ELSE Render(form, PutPending)
             fl == [NoFlow EXCEPT !.op = op, !.sess = session, !.terms = seen.terms,
                                  !.cust = seen.cust, !.pend = seen.pend]
             q == IF op = "detach" THEN [queue EXCEPT !["cust"] = NoPayload] ELSE queue
  <1>1. /\ session # NoSession /\ flow.phase = "none" /\ call.phase = "none" /\ ~Micro
        /\ op = "detach" /\ Pending => "mix" \in Habits
        /\ op = "shortcut" => "keys" \in Habits
        /\ Flush(fl, q)
        /\ UNCHANGED <<server, session, rev, form, acked, timer, put, refresh, call, shortcut, edits>>
      BY DEF FlowStart
  <1>2. seen.cust \in Values /\ seen.terms \in 0..MaxEdits /\ seen.pend \in BOOLEAN
    <2>1. Render(form, PutPending) \in Renders
        BY RenderTyped DEF PutPending, IInv, FormTypeOK
    <2>2. QED
        BY <2>1, Records DEF Renders
  <1>3. /\ seen.cust = IF op = "shortcut" THEN shortcut.cust ELSE form["cust"]
        /\ seen.terms = IF op = "shortcut" THEN shortcut.terms ELSE form["rows"].held
        /\ op # "shortcut" => seen.pend = PutPending
      BY DEF Render
  <1> HIDE DEF seen
  <1>4. /\ fl \in FlowRecords /\ fl.op = op /\ fl.sess = session /\ fl.again = FALSE
        /\ fl.terms = seen.terms /\ fl.cust = seen.cust /\ fl.pend = seen.pend
      BY <1>2, Records DEF NoFlow, FlowRecords
  <1>5. /\ q \in [Kinds -> Payloads] /\ q["rows"] = queue["rows"]
        /\ q["cust"] = IF op = "detach" THEN NoPayload ELSE queue["cust"]
      BY Records DEF Payloads, Kinds
  <1> HIDE DEF fl, q
  <1>6. QED
      BY <1>1, <1>3, <1>4, <1>5

\* A handler that goes on works on what it captured.
LEMMA WentOn ==
    ASSUME IInv, FlushGoesOn
    PROVE  /\ flow \in FlowRecords /\ queue \in [Kinds -> Payloads]
           /\ UNCHANGED <<server, session, rev, form, acked, timer, put, refresh, call, finalizing,
                          shortcut, edits>>
           /\ \/ FlowGoesOn /\ flow.phase = "rowsDone" /\ FlushCustomer(flow, queue, chain)
              \/ PauseEnds /\ flow.phase = "pause" /\ Flush(flow, queue)
  BY Records DEF FlushGoesOn, FlowGoesOn, PauseEnds

\* Every handler's flush, seen from the queue.
LEMMA QueueFlushed ==
    ASSUME IInv, Starts \/ FlushGoesOn
    PROVE  /\ queue'["rows"] # queue["rows"] => /\ queue'["rows"] = Sections(flow')
                                                   /\ queue'["rows"] # acked["rows"]
           /\ \/ queue'["cust"] = queue["cust"] \/ queue'["cust"] = NoPayload
              \/ /\ ~Invalid("cust", queue'["cust"]) /\ queue'["cust"] # acked["cust"]
                 /\ queue'["cust"] = flow'.cust /\ flow'.phase = "cust"
           /\ flow'.cust \in {flow.cust, form["cust"], shortcut.cust}
           /\ flow'.terms \in {flow.terms, form["rows"].held, shortcut.terms}
           /\ flow'.phase = "rows" => queue'["rows"] = Sections(flow')
           /\ UNCHANGED <<timer, put, edits, form, acked, call, server, refresh, shortcut, session, rev>>
  <1>1. ASSUME NEW fl \in FlowRecords, NEW q \in [Kinds -> Payloads],
               Flush(fl, q) \/ FlushCustomer(fl, q, chain),
               q["rows"] = queue["rows"], q["cust"] \in {queue["cust"], NoPayload}
        PROVE  /\ queue'["rows"] # queue["rows"] => /\ queue'["rows"] = Sections(flow')
                                                   /\ queue'["rows"] # acked["rows"]
               /\ \/ queue'["cust"] = queue["cust"] \/ queue'["cust"] = NoPayload
                  \/ /\ ~Invalid("cust", queue'["cust"]) /\ queue'["cust"] # acked["cust"]
                     /\ queue'["cust"] = flow'.cust /\ flow'.phase = "cust"
               /\ flow'.cust = fl.cust /\ flow'.terms = fl.terms
               /\ flow'.phase = "rows" => queue'["rows"] = Sections(flow')
    <2>0. Captured(fl) => Sections(flow') = Sections(fl)
        BY DEF Captured, Sections
    <2>1. CASE FlushesRows(fl, q)
        BY <1>1, <2>0, <2>1, Flushed, CustomerFlushed DEF FlushesRows, Captured, Kinds
    <2>2. CASE FlushesCustomer(fl, q)
        BY <1>1, <2>2, Flushed, CustomerFlushed DEF FlushesCustomer, Captured, Kinds
    <2>3. CASE FlushesNothing(fl, q)
        BY <1>1, <2>3, Flushed, CustomerFlushed DEF FlushesNothing, Captured
    <2>4. QED
        BY <1>1, <2>1, <2>2, <2>3, Flushed, CustomerFlushed
  <1>2. CASE FlushGoesOn
      BY <1>1, <1>2, WentOn
  <1>3. CASE Starts
    <2>1. PICK op \in Flows : FlowStart(op)
        BY <1>3 DEF Starts
    <2>2. PICK fl \in FlowRecords, q \in [Kinds -> Payloads] :
                /\ Flush(fl, q)
                /\ fl.op = op /\ fl.sess = session /\ fl.again = FALSE
                /\ fl.cust = IF op = "shortcut" THEN shortcut.cust ELSE form["cust"]
                /\ fl.terms = IF op = "shortcut" THEN shortcut.terms ELSE form["rows"].held
                /\ op # "shortcut" => fl.pend = PutPending
                /\ q["rows"] = queue["rows"]
                /\ q["cust"] = IF op = "detach" THEN NoPayload ELSE queue["cust"]
        BY <2>1, Started
    <2>3. fl.cust \in {form["cust"], shortcut.cust} /\ fl.terms \in {form["rows"].held, shortcut.terms}
          /\ q["cust"] \in {queue["cust"], NoPayload}
        BY <2>2
    <2>4. UNCHANGED <<timer, put, edits, form, acked, call, server, refresh, shortcut, session, rev>>
        BY <2>1, Started
    <2>5. flow'.cust = fl.cust /\ flow'.terms = fl.terms
        BY <1>1, <2>2, <2>3
    <2>6. QED
        BY <1>1, <2>2, <2>3, <2>4, <2>5
  <1>4. QED
      BY <1>2, <1>3

\* What a loop's turn sends.
LEMMA Sent ==
    ASSUME IInv, LoopSends
    PROVE  /\ chain # <<>> /\ Head(chain) \in Kinds /\ ~PutPending
           /\ queue[Head(chain)] # NoPayload
           /\ \A k \in Kinds : queue'[k] = IF k = Head(chain) THEN NoPayload ELSE queue[k]
           /\ \/ put' = NoPut /\ put'.phase = "none" /\ queue[Head(chain)] = acked[Head(chain)]
              \/ /\ put'.phase = "sent" /\ put'.kind = Head(chain) /\ put'.sess = session
                 /\ put'.payload = queue[Head(chain)] /\ put'.base = rev /\ put'.rows = Blank
                 /\ queue[Head(chain)] # acked[Head(chain)]
           /\ UNCHANGED <<server, session, rev, form, acked, timer, chain, refresh, call, flow,
                          finalizing, shortcut, edits>>
  <1>1. Head(chain) \in Kinds /\ chain # <<>>
      BY ChainDistinct, HeadTailProperties DEF LoopSends
  <1>2. queue \in [Kinds -> Payloads]
      BY Records
  <1>3. /\ ~PutPending /\ queue[Head(chain)] # NoPayload
        /\ queue' = [queue EXCEPT ![Head(chain)] = NoPayload]
        /\ UNCHANGED <<server, session, rev, form, acked, timer, chain, refresh, call, flow,
                       finalizing, shortcut, edits>>
      BY DEF LoopSends, Waiting
  <1>4. CASE queue[Head(chain)] = acked[Head(chain)]
      BY <1>1, <1>2, <1>3, <1>4 DEF LoopSends, NoPut
  <1>5. CASE queue[Head(chain)] # acked[Head(chain)]
    <2>1. put' = [NoPut EXCEPT !.phase = "sent", !.kind = Head(chain), !.sess = session,
                               !.payload = queue[Head(chain)], !.base = rev]
        BY <1>5 DEF LoopSends
    <2>2. /\ put'.phase = "sent" /\ put'.kind = Head(chain) /\ put'.sess = session
          /\ put'.payload = queue[Head(chain)] /\ put'.base = rev /\ put'.rows = Blank
        BY <2>1 DEF NoPut
    <2>3. QED
        BY <1>1, <1>2, <1>3, <1>5, <2>2
  <1>6. QED
      BY <1>4, <1>5

\* What a failed PUT leaves behind.
LEMMA Failed ==
    ASSUME IInv, PutFailed
    PROVE  /\ put.phase \in {"refused", "lost"} /\ put' = NoPut /\ put'.phase = "none"
           /\ put.kind \in Kinds
           /\ \A k \in Kinds : queue'[k] = IF k = put.kind /\ queue[k] = NoPayload
                                           THEN put.payload ELSE queue[k]
           /\ Settle(put.kind, Requeued, Transient(put.phase))
           /\ UNCHANGED <<server, session, rev, form, acked, timer, refresh, call, finalizing,
                          shortcut, edits>>
  <1>1. put.kind \in Kinds /\ queue \in [Kinds -> Payloads]
      BY Records DEF PutRecords
  <1>2. /\ put.phase \in {"refused", "lost"} /\ put' = NoPut
        /\ queue' = [queue EXCEPT ![put.kind] = IF queue[put.kind] = NoPayload
                                                THEN put.payload ELSE queue[put.kind]]
        /\ Settle(put.kind, Requeued, Transient(put.phase))
        /\ UNCHANGED <<server, session, rev, form, acked, timer, refresh, call, finalizing,
                       shortcut, edits>>
      BY DEF PutFailed, Requeued
  <1>3. QED
      BY <1>1, <1>2 DEF NoPut

\* What the answer to a rows PUT leaves behind.
LEMMA RowsTaken ==
    ASSUME IInv, RowsAcknowledged
    PROVE  /\ put.phase = "ok" /\ ~PutUseless /\ put.kind = "rows" /\ form["rows"] = put.payload
           /\ rev' = put.rev
           /\ acked'["rows"] = put.payload /\ acked'["cust"] = acked["cust"]
           /\ timer'["rows"] = NoPayload /\ timer'["cust"] = timer["cust"]
           /\ queue'["rows"] \in {NoPayload, queue["rows"]} /\ queue'["cust"] = queue["cust"]
           /\ shortcut'.cust = form["cust"] /\ shortcut'.terms = form["rows"].held
           /\ put' = NoPut /\ put'.phase = "none"
           /\ UNCHANGED <<server, session, form, chain, refresh, call, flow, finalizing, edits>>
  <1>1. /\ acked \in [Kinds -> Values] /\ timer \in [Kinds -> Payloads] /\ "rows" \in Kinds
        /\ queue \in [Kinds -> Payloads] /\ "cust" \in Kinds
      BY Records DEF Kinds
  <1>2. EffectQueue("rows", put.payload, put.payload) \in {NoPayload, queue["rows"]}
      BY DEF EffectQueue
  <1>3. QED
      BY <1>1, <1>2 DEF RowsAcknowledged, NoPut, Render

LEMMA CustomerTaken ==
    ASSUME IInv, CustomerAcknowledged
    PROVE  /\ put.phase = "ok" /\ ~PutUseless /\ put.kind = "cust" /\ form["cust"] = put.payload
           /\ put' = NoPut /\ put'.phase = "none"
           /\ UNCHANGED <<server, chain, call, flow, finalizing, edits>>
  BY DEF CustomerAcknowledged, NoPut

\* What is queued, timed or under way for the customer is not partial.
ValidOnly == /\ queue["cust"] # NoPayload => ~Invalid("cust", queue["cust"])
             /\ timer["cust"] # NoPayload => ~Invalid("cust", timer["cust"])
             /\ PutPending /\ put.kind = "cust" => ~Invalid("cust", put.payload)

\* What a keystroke does.
LEMMA Typed ==
    ASSUME IInv, NEW k \in Kinds, Edit(k)
    PROVE  /\ session # NoSession /\ ~Micro
           /\ flow.phase # "none" \/ call.phase # "none" => "typeOn" \in Habits
           /\ (\E j \in Kinds \ {k} : Dirty(j)) => "mix" \in Habits
           /\ form'[k] # form[k] /\ \A j \in Kinds \ {k} : form'[j] = form[j]
           /\ \A j \in Kinds \ {k} : timer'[j] = timer[j] /\ queue'[j] = queue[j]
           /\ timer'[k] = EffectTimer(k, form'[k], acked[k])
           /\ queue'[k] = EffectQueue(k, form'[k], acked[k])
           /\ UsedForm => \/ edits' = edits + 1 /\ form'[k] \in NewValues(k)
                          \/ edits' = edits /\ form'[k] = acked[k] /\ "revert" \in Habits
           /\ refresh' = [refresh EXCEPT !.fresh = FALSE]
           /\ UNCHANGED <<server, session, rev, acked, chain, put, call, flow, finalizing, shortcut>>
  <1>1. /\ session # NoSession /\ ~Micro
        /\ flow.phase # "none" \/ call.phase # "none" => "typeOn" \in Habits
        /\ (\E j \in Kinds \ {k} : Dirty(j)) => "mix" \in Habits
        /\ UNCHANGED <<server, session, rev, acked, chain, put, call, flow, finalizing, shortcut>>
      BY DEF Edit
  <1>2. PICK v \in EditValues(k) :
          /\ v # form[k]
          /\ form' = [form EXCEPT ![k] = v]
          /\ edits' = IF v = acked[k] THEN edits ELSE edits + 1
          /\ timer' = [timer EXCEPT ![k] = EffectTimer(k, v, acked[k])]
          /\ queue' = [queue EXCEPT ![k] = EffectQueue(k, v, acked[k])]
          /\ refresh' = [refresh EXCEPT !.fresh = FALSE]
      BY DEF Edit
  <1>3. /\ form \in [Kinds -> Values] /\ timer \in [Kinds -> Payloads]
        /\ queue \in [Kinds -> Payloads]
      BY Records
  <1>4. form'[k] = v /\ \A j \in Kinds \ {k} : form'[j] = form[j]
      BY <1>2, <1>3
  <1>5. /\ \A j \in Kinds \ {k} : timer'[j] = timer[j] /\ queue'[j] = queue[j]
        /\ timer'[k] = EffectTimer(k, v, acked[k]) /\ queue'[k] = EffectQueue(k, v, acked[k])
      BY <1>2, <1>3
  <1>6. ASSUME UsedForm
        PROVE  \/ edits' = edits + 1 /\ v \in NewValues(k)
               \/ edits' = edits /\ v = acked[k] /\ "revert" \in Habits
    <2>1. CASE v = acked[k]
      <3>1. v \notin NewValues(k)
          BY <1>2, <1>6, <2>1, NewGiven DEF UsedForm
      <3>2. QED
          BY <1>2, <2>1, <3>1 DEF EditValues
    <2>2. CASE v # acked[k]
        BY <1>2, <2>2 DEF EditValues
    <2>3. QED
        BY <2>1, <2>2
  <1>7. QED
      BY <1>1, <1>2, <1>4, <1>5, <1>6

\* A timer moves what it captured into the queue.
LEMMA Fired ==
    ASSUME IInv, NEW k \in Kinds, DebounceFires(k)
    PROVE  /\ ~Micro /\ timer[k] # NoPayload
           /\ \A j \in Kinds : timer'[j] = IF j = k THEN NoPayload ELSE timer[j]
           /\ \A j \in Kinds : queue'[j] = IF j = k THEN timer[k] ELSE queue[j]
           /\ chain' = Enqueued(chain, k)
           /\ UNCHANGED <<server, session, rev, form, acked, put, refresh, call, flow, finalizing,
                          shortcut, edits>>
  BY Records DEF DebounceFires

\* Leaving the customer field queues the customer shown.
LEMMA Blurred ==
    ASSUME IInv, CustomerBlur
    PROVE  /\ ~Micro /\ session # NoSession /\ Dirty("cust") /\ ~Invalid("cust", form["cust"])
           /\ queue'["cust"] = form["cust"] /\ queue'["rows"] = queue["rows"]
           /\ chain' = Enqueued(chain, "cust")
           /\ UNCHANGED <<server, session, rev, form, acked, timer, put, refresh, call, flow,
                          finalizing, shortcut, edits>>
  BY Records DEF CustomerBlur, Kinds

\* Only values in the system are queued or timed.
LEMMA UsedQueueKept ==
    ASSUME IInv, [Next]_vars, UsedInv
    PROVE  UsedQueue'
  <1> USE DEF UsedInv
  <1>1. ASSUME \A k \in Kinds : /\ queue'[k] # NoPayload => queue'[k] \in Given'
                                /\ timer'[k] # NoPayload => timer'[k] \in Given'
        PROVE  UsedQueue'
      BY <1>1 DEF UsedQueue
  <1>2. CASE UNCHANGED <<queue, timer>>
      BY <1>1, <1>2, GivenGrows DEF UsedQueue
  <1>3. CASE Opens
      BY <1>1, <1>3, Opened DEF Opens
  <1>4. ASSUME NEW k \in Kinds, Edit(k)
        PROVE  UsedQueue'
    <2>1. form'[k] \in Given'
        BY UsedFormKept DEF UsedForm
    <2>2. timer'[k] \in {NoPayload, form'[k]} /\ queue'[k] \in {NoPayload, queue[k]}
        BY <1>4, Typed DEF EffectTimer, EffectQueue
    <2>3. \A j \in Kinds \ {k} : timer'[j] = timer[j] /\ queue'[j] = queue[j]
        BY <1>4, Typed
    <2>4. QED
        BY <1>1, <2>1, <2>2, <2>3, GivenGrows DEF UsedQueue
  <1>5. CASE PutAnswered
    <2>1. CASE PutIgnored \/ PutOvertaken
        BY <1>2, <2>1 DEF PutIgnored, PutOvertaken
    <2>2. CASE RowsAcknowledged
        BY <1>1, <2>2, RowsTaken, GivenGrows DEF UsedQueue, Kinds
    <2>3. CASE CustomerAcknowledged
        BY <1>1, <2>3, CustomerApplied, GivenGrows DEF UsedQueue
    <2>4. CASE PutFailed
        BY <1>1, <2>4, Failed, GivenGrows DEF UsedQueue, UsedPut
    <2>5. QED
        BY <1>5, <2>1, <2>2, <2>3, <2>4 DEF PutAnswered
  <1>6. CASE CallAnswered
    <2>1. CASE CallApplies
        BY <1>1, <2>1, CallApplied, GivenGrows DEF UsedQueue
    <2>2. CASE CallCloses
        BY <1>1, <2>2, Closed
    <2>3. CASE CallDone
        BY <1>2, <2>3 DEF CallDone, formVars
    <2>4. QED
        BY <1>6, <2>1, <2>2, <2>3 DEF CallAnswered
  <1>7. CASE RefreshAnswered
    <2>1. CASE RefreshApplies
        BY <1>1, <2>1, ReadApplied
    <2>2. CASE UNCHANGED formVars
        BY <1>2, <2>2 DEF formVars
    <2>3. QED
        BY <1>7, <2>1, <2>2 DEF RefreshAnswered
  <1>8. CASE Fires
      BY <1>1, <1>8, Fired, GivenGrows DEF Fires, UsedQueue
  <1>9. CASE CustomerBlur
      BY <1>1, <1>9, Blurred, GivenGrows DEF UsedQueue, UsedForm, Kinds
  <1>10. CASE LoopSends
      BY <1>1, <1>10, Sent, GivenGrows DEF UsedQueue
  <1>11. CASE Starts \/ FlushGoesOn
    <2>1. flow'.cust \in Given'
        BY <1>11, QueueFlushed, GivenGrows DEF UsedFlow, UsedForm, Kinds
    <2>2. timer' = timer /\ Sections(flow') \in Given'
      <3>1. form["rows"] \in Given /\ form["rows"].live \in 0..edits /\ form["rows"].held \in 0..edits
          BY GivenParts DEF UsedForm, Kinds
      <3>2. flow'.terms \in 0..edits
          BY <1>11, <3>1, QueueFlushed DEF UsedFlow
      <3>3. Sections(flow') \in Given
          BY <3>1, <3>2, GivenParts DEF Sections
      <3>4. QED
          BY <1>11, <3>3, QueueFlushed, GivenGrows
    <2>3. queue'["rows"] = queue["rows"] \/ queue'["rows"] = Sections(flow')
        BY <1>11, QueueFlushed
    <2>4. queue'["cust"] \in {queue["cust"], NoPayload, flow'.cust}
        BY <1>11, QueueFlushed
    <2>5. QED
        BY <1>1, <2>1, <2>2, <2>3, <2>4, GivenGrows DEF UsedQueue, Kinds
  <1>12. QED
      BY <1>2, <1>3, <1>4, <1>5, <1>6, <1>7, <1>8, <1>9, <1>10, <1>11, Frames DEF QueueFrame, Edits

\* The answer to a PUT is used up.
LEMMA PutsUsed ==
    ASSUME IInv, PutAnswered
    PROVE  put' = NoPut
  BY DEF PutAnswered, PutIgnored, PutOvertaken, RowsAcknowledged, CustomerAcknowledged, PutFailed

\* What the server or the network make of a PUT.
LEMMA PutTravels ==
    ASSUME IInv, ServerAnswersPut \/ NetworkFails
    PROVE  /\ UNCHANGED <<put.kind, put.sess, put.payload, put.base>>
           /\ put'.phase # "none" <=> put.phase # "none"
           /\ put' # put => put.phase = "sent" /\ put'.phase \in {"ok", "refused", "lost"}
           /\ put'.rows # put.rows =>
                \E answer \in {"ok", "lost"} : ServerSaves(answer) /\ put'.rows = server'[put.sess].rows
  <1>1. put \in PutRecords
      BY Records
  <1>2. ASSUME NEW answer \in {"ok", "lost"}, ServerSaves(answer)
        PROVE  /\ UNCHANGED <<put.kind, put.sess, put.payload, put.base>>
               /\ put'.phase # "none" /\ put.phase = "sent"
               /\ put'.phase \in {"ok", "refused", "lost"} /\ put'.rows = server'[put.sess].rows
    <2>1. put.phase = "sent" /\ put' = [put EXCEPT !.phase = answer, !.rows = server'[put.sess].rows,
                                                   !.rev = server'[put.sess].rev]
        BY <1>2, SavesOnce
    <2>2. QED
        BY <1>1, <2>1 DEF PutRecords
  <1>3. ASSUME NEW a \in {"refused", "lost"}, put.phase = "sent", put' = [put EXCEPT !.phase = a]
        PROVE  /\ UNCHANGED <<put.kind, put.sess, put.payload, put.base, put.rows>>
               /\ put'.phase # "none" /\ put'.phase \in {"ok", "refused", "lost"}
      BY <1>1, <1>3 DEF PutRecords
  <1>4. CASE put' = put
      BY <1>4
  <1>5. \/ put' = put
        \/ \E answer \in {"ok", "lost"} : ServerSaves(answer)
        \/ \E a \in {"refused", "lost"} : put.phase = "sent" /\ put' = [put EXCEPT !.phase = a]
      BY DEF ServerAnswersPut, NetworkFails
  <1>6. QED
      BY <1>2, <1>3, <1>4, <1>5

\* Only values in the system are sent and answered.
LEMMA UsedPutKept ==
    ASSUME IInv, [Next]_vars, UsedInv
    PROVE  UsedPut'
  <1> USE DEF UsedInv
  <1>1. ASSUME put'.payload \in Given', put'.rows \in Given'
        PROVE  UsedPut'
      BY <1>1 DEF UsedPut
  <1>2. CASE put' = put
      BY <1>2, GivenGrows DEF UsedPut
  <1>3. CASE put' = NoPut
      BY <1>1, <1>3, GivenGrows DEF NoPut
  <1>4. CASE LoopSends
      BY <1>1, <1>3, <1>4, Sent, GivenGrows DEF UsedQueue
  <1>5. CASE PutAnswered
      BY <1>3, <1>5, PutsUsed
  <1>6. CASE ServerAnswersPut \/ NetworkFails
    <2>1. put'.payload \in Given'
        BY <1>6, PutTravels, GivenGrows DEF UsedPut
    <2>2. CASE put'.rows = put.rows
        BY <1>1, <2>1, <2>2, GivenGrows DEF UsedPut
    <2>3. CASE put'.rows # put.rows
      <3>1. put'.rows = server'[put.sess].rows /\ put.sess \in Sessions
          BY <1>6, <2>3, PutTravels, SavesOnce
      <3>2. QED
          BY <1>1, <2>1, <3>1, UsedBookKept DEF UsedBook
    <2>4. QED
        BY <2>2, <2>3
  <1>7. QED
      BY <1>2, <1>4, <1>5, <1>6, Frames DEF PutFrame

\* Only values in the system are read.
LEMMA UsedReadKept ==
    ASSUME IInv, [Next]_vars, UsedInv
    PROVE  UsedRead'
  <1> USE DEF UsedInv
  <1>1. CASE UNCHANGED <<refresh.rows, refresh.cust>>
      BY <1>1, GivenGrows DEF UsedRead
  <1>2. CASE refresh'.rows = Blank /\ refresh'.cust = Blank
      BY <1>2, GivenGrows DEF UsedRead
  <1>3. NoRefresh.rows = Blank /\ NoRefresh.cust = Blank /\ refresh \in RefreshRecords
      BY Records DEF NoRefresh
  <1>4. ASSUME NEW s, refresh' = Reading(s, refresh)
        PROVE  UsedRead'
    <2>1. CASE refresh.phase = "none"
      <3>1. refresh'.rows = Blank /\ refresh'.cust = Blank
          BY <1>4, <2>1 DEF Reading, NoRefresh
      <3>2. QED
          BY <1>2, <3>1
    <2>2. CASE refresh.phase # "none"
        BY <1>1, <1>4, <2>2 DEF Reading
    <2>3. QED
        BY <2>1, <2>2
  <1>5. ASSUME NEW f, refresh' = Overtaken(f)
        PROVE  UsedRead'
      BY <1>1, <1>3, <1>5 DEF Overtaken, RefreshRecords
  <1>6. CASE Opens
      BY <1>4, <1>6, Opened DEF Opens
  <1>7. CASE Edits
    <2>1. refresh' = [refresh EXCEPT !.fresh = FALSE]
        BY <1>7, Typed DEF Edits
    <2>2. QED
        BY <1>1, <1>3, <2>1 DEF RefreshRecords
  <1>8. CASE PutAnswered
    <2>1. CASE CustomerAcknowledged
        BY <1>5, <2>1, CustomerApplied
    <2>2. CASE ~CustomerAcknowledged
        BY <1>1, <1>8, <2>2 DEF PutAnswered, PutIgnored, PutOvertaken, RowsAcknowledged, PutFailed
    <2>3. QED
        BY <2>1, <2>2
  <1>9. CASE CallAnswered
    <2>1. CASE CallApplies
        BY <1>4, <1>5, <2>1, CallApplied
    <2>2. CASE CallCloses \/ CallDone
        BY <1>1, <2>2 DEF CallCloses, CallDone
    <2>3. QED
        BY <1>9, <2>1, <2>2 DEF CallAnswered
  <1>10. CASE RefreshAnswered
      BY <1>2, <1>3, <1>10 DEF RefreshAnswered
  <1>11. CASE FlowActs
      BY <1>1, <1>4, <1>11 DEF FlowActs, FlowPauses, FlowGivesUp, FlowPosts, FlowSwitches
  <1>12. CASE ArtifactSignal
      BY <1>4, <1>12 DEF ArtifactSignal
  <1>13. CASE ServerReads
      BY <1>13, Read, GivenGrows DEF UsedBook, UsedRead
  <1>14. CASE NetworkFails
      BY <1>1, <1>2, <1>3, <1>14 DEF NetworkFails
  <1>15. QED
      BY <1>1, <1>6, <1>7, <1>8, <1>9, <1>10, <1>11, <1>12, <1>13, <1>14, Frames DEF ReadFrame

\* Only values in the system are posted, but for the fresh customer of a selection.
LEMMA UsedCallKept ==
    ASSUME IInv, [Next]_vars, UsedInv
    PROVE  UsedCall'
  <1> USE DEF UsedInv
  <1>1. CASE call'.rows = call.rows /\ call'.cust = call.cust
      BY <1>1, GivenGrows DEF UsedCall
  <1>2. CASE call'.rows = Blank /\ call'.cust = Blank
      BY <1>2, GivenGrows DEF UsedCall
  <1>3. NoCall.rows = Blank /\ NoCall.cust = Blank /\ call \in CallRecords
      BY Records DEF NoCall
  <1>4. CASE Posted
    <2>1. form["rows"] \in Given' /\ form["cust"] \in Given'
        BY GivenGrows DEF UsedForm, Kinds
    <2>2. SelectCustomer => Half(0, edits + 1) \in Given'
        BY GivenGrows, HalfOf DEF SelectCustomer, Given
    <2>3. QED
        BY <1>4, <2>1, <2>2 DEF Posted, UsedCall
  <1>5. CASE ServerSetsCustomer
    <2>1. /\ call'.rows = server'[call.sess].rows /\ call'.cust = server'[call.sess].cust
          /\ call.sess \in Sessions
        BY <1>3, <1>5, SetsOnce DEF CallRecords
    <2>2. QED
        BY <2>1, UsedBookKept DEF UsedBook, UsedCall
  <1>6. CASE ServerCloses
      BY <1>1, <1>3, <1>6, ClosesOnly DEF CallRecords
  <1>7. CASE CallAnswered
    <2>1. CASE CallCloses
      <3>1. call'.rows = Blank /\ call'.cust = Blank
          BY <1>3, <2>1, Closed DEF NoCall
      <3>2. QED
          BY <1>2, <3>1
    <2>2. CASE CallApplies \/ CallDone
        BY <1>2, <1>3, <2>2 DEF CallApplies, CallDone
    <2>3. QED
        BY <1>7, <2>1, <2>2 DEF CallAnswered
  <1>8. CASE NetworkFails \/ (ServerAnswersCall /\ ~ServerSetsCustomer /\ ~ServerCloses)
    <2>1. call' = call \/ call' = [call EXCEPT !.phase = "failed"]
        BY <1>8 DEF NetworkFails, ServerAnswersCall, ServerRefusesCall
    <2>2. QED
        BY <1>1, <1>3, <2>1 DEF CallRecords
  <1>9. CASE SelectCustomer \/ CancelWorkspace \/ FlowActs
    <2>1. CASE call'.phase \in {"sent", "ok"}
        BY <1>1, <1>4, <1>5, <1>6, <2>1, CallMoves
    <2>2. CASE call'.phase \notin {"sent", "ok"}
      <3>1. call' = call
          BY <1>9, <2>2, PostSays DEF SelectCustomer, CancelWorkspace, FlowActs, FlowPauses,
                                      FlowGivesUp, FlowPosts, FlowSwitches
      <3>2. QED
          BY <1>1, <3>1
    <2>3. QED
        BY <2>1, <2>2
  <1>10. QED
      BY <1>1, <1>5, <1>6, <1>7, <1>8, <1>9, Frames DEF CallFrame

\* What the end of a loop of k means for the handler that awaits it.
LEMMA FlowSettled ==
    ASSUME IInv, NEW k \in Kinds, NEW q, NEW arm, Settle(k, q, arm)
    PROVE  /\ Captured(flow)
           /\ flow'.phase = IF flow.phase = k THEN (IF k = "rows" THEN "rowsDone" ELSE "flushed")
                            ELSE flow.phase
           /\ chain' = Tail(chain)
  <1>1. flow \in FlowRecords
      BY Records
  <1>2. /\ chain' = Tail(chain)
        /\ flow' = IF flow.phase = k
                   THEN [flow EXCEPT !.phase = IF k = "rows" THEN "rowsDone" ELSE "flushed"]
                   ELSE flow
      BY DEF Settle
  <1>3. CASE flow.phase = k
    <2>1. flow' = [flow EXCEPT !.phase = IF k = "rows" THEN "rowsDone" ELSE "flushed"]
        BY <1>2, <1>3
    <2>2. QED
        BY <1>1, <1>2, <1>3, <2>1 DEF FlowRecords, Captured
  <1>4. CASE flow.phase # k
      BY <1>2, <1>4 DEF Captured
  <1>5. QED
      BY <1>3, <1>4

\* What a loop's end leaves as it was.
LEMMA Ended ==
    ASSUME IInv, LoopEnds
    PROVE  /\ chain # <<>> /\ Head(chain) \in Kinds /\ ~PutPending
           /\ queue[Head(chain)] = NoPayload
           /\ Settle(Head(chain), queue, FALSE)
           /\ UNCHANGED <<server, session, rev, form, acked, queue, timer, put, refresh, call,
                          finalizing, shortcut, edits>>
  BY ChainDistinct, HeadTailProperties DEF LoopEnds, Waiting

\* The ways a handler moves.
LEMMA FlowGoes ==
    ASSUME IInv, [Next]_vars
    PROVE  \/ flow' = flow
           \/ Starts \/ FlushGoesOn
           \/ Captured(flow) /\ (LoopEnds \/ PutFailed)
           \/ FlowActs /\ FlowPauses /\ flow' = [flow EXCEPT !.phase = "pause", !.again = TRUE]
           \/ FlowActs /\ flow' = NoFlow
  <1>1. CASE LoopEnds
      BY <1>1, Ended, FlowSettled
  <1>2. CASE PutAnswered
    <2>1. CASE PutFailed
        BY <2>1, Failed, FlowSettled
    <2>2. CASE ~PutFailed
        BY <1>2, <2>2 DEF PutAnswered, PutIgnored, PutOvertaken, RowsAcknowledged,
                          CustomerAcknowledged
    <2>3. QED
        BY <2>1, <2>2
  <1>3. CASE FlowActs
      BY <1>3 DEF FlowActs, FlowPauses, FlowGivesUp, FlowPosts, FlowSwitches
  <1>4. QED
      BY <1>1, <1>2, <1>3, Frames DEF FlowFrame

\* Handlers capture values in the system.
LEMMA UsedFlowKept ==
    ASSUME IInv, [Next]_vars, UsedInv
    PROVE  UsedFlow'
  <1> USE DEF UsedInv
  <1>0. /\ form["rows"].held \in 0..edits /\ form["cust"] \in Given
        /\ form'["rows"].held \in 0..edits' /\ form'["cust"] \in Given'
    <2>1. UsedForm' /\ IInv'
        BY UsedFormKept, NextKeeps
    <2>2. form["rows"] \in Given /\ form["cust"] \in Given
        BY DEF UsedForm, Kinds
    <2>3. form'["rows"] \in Given' /\ form'["cust"] \in Given'
        BY <2>1 DEF UsedForm, Kinds
    <2>4. edits' \in Nat /\ edits \in Nat
        BY <2>1 DEF IInv, BookTypeOK
    <2>5. QED
        BY <2>2, <2>3, <2>4, HalfOf DEF Given
  <1>1. flow'.cust \in Given' /\ flow'.terms \in 0..edits'
    <2>1. CASE flow'.cust = flow.cust /\ flow'.terms = flow.terms
        BY <2>1, GivenGrows DEF UsedFlow
    <2>2. CASE Starts \/ FlushGoesOn
      <3>1. flow'.terms \in 0..edits /\ flow'.cust \in Given
          BY <1>0, <2>2, QueueFlushed DEF UsedFlow
      <3>2. QED
          BY <3>1, GivenGrows
    <2>3. CASE flow' = [flow EXCEPT !.phase = "pause", !.again = TRUE]
        BY <2>1, <2>3, Records DEF FlowRecords
    <2>4. CASE flow' = NoFlow
        BY <2>4, GivenGrows DEF NoFlow
    <2>5. QED
        BY <2>1, <2>2, <2>3, <2>4, FlowGoes DEF Captured
  <1>2. shortcut'.cust \in Given' /\ shortcut'.terms \in 0..edits'
    <2>1. CASE UNCHANGED shortcut
        BY <2>1, GivenGrows DEF UsedFlow
    <2>2. ASSUME NEW op, ShortcutRemade(op)
          PROVE  shortcut'.cust \in Given' /\ shortcut'.terms \in 0..edits'
        BY <1>0, <2>1, <2>2, GivenGrows DEF ShortcutRemade, Render
    <2>3. CASE Opens
        BY <1>0, <2>3, Opened, GivenGrows DEF Opens, UsedBook
    <2>4. CASE PutAnswered
      <3>1. CASE PutOvertaken
          BY <1>0, <3>1, GivenGrows DEF PutOvertaken, Render
      <3>2. CASE RowsAcknowledged
          BY <1>0, <3>2, RowsTaken, GivenGrows
      <3>3. CASE CustomerAcknowledged
          BY <1>0, <3>3, CustomerApplied, GivenGrows DEF UsedPut
      <3>4. CASE PutIgnored \/ PutFailed
          BY <2>1, <3>4 DEF PutIgnored, PutFailed
      <3>5. QED
          BY <2>4, <3>1, <3>2, <3>3, <3>4 DEF PutAnswered
    <2>5. CASE CallAnswered
      <3>1. CASE CallApplies
          BY <1>0, <3>1, CallApplied, GivenGrows DEF UsedCall
      <3>2. CASE CallCloses
          BY <1>0, <3>2, Closed, GivenGrows
      <3>3. CASE CallDone
          BY <2>2, <3>3 DEF CallDone
      <3>4. QED
          BY <2>5, <3>1, <3>2, <3>3 DEF CallAnswered
    <2>6. CASE RefreshAnswered
      <3>1. CASE RefreshApplies
          BY <1>0, <3>1, ReadApplied, GivenGrows DEF UsedRead
      <3>2. CASE UNCHANGED shortcut
          BY <2>1, <3>2
      <3>3. QED
          BY <2>6, <3>1, <3>2 DEF RefreshAnswered
    <2>7. CASE FlowActs
        BY <2>1, <2>2, <2>7 DEF FlowActs, FlowPauses, FlowGivesUp, FlowPosts, FlowSwitches
    <2>8. CASE CancelWorkspace
        BY <2>2, <2>8 DEF CancelWorkspace
    <2>9. QED
        BY <2>1, <2>3, <2>4, <2>5, <2>6, <2>7, <2>8, Frames DEF ShortcutFrame
  <1>3. QED
      BY <1>1, <1>2 DEF UsedFlow

\* All values stay ones that were typed.
LEMMA UsedKept ==
    ASSUME IInv, [Next]_vars, UsedInv
    PROVE  UsedInv'
  BY UsedBookKept, UsedFormKept, UsedQueueKept, UsedPutKept, UsedReadKept, UsedCallKept,
     UsedFlowKept DEF UsedInv

\* No partial customer gets into a queue, a timer or a PUT.
LEMMA ValidKept ==
    ASSUME IInv, [Next]_vars, ValidOnly
    PROVE  ValidOnly'
  <1>1. "cust" \in Kinds
      BY DEF Kinds
  <1>2. \/ queue'["cust"] = NoPayload \/ queue'["cust"] = queue["cust"]
        \/ ~Invalid("cust", queue'["cust"])
    <2>1. CASE UNCHANGED <<queue, timer>>
        BY <2>1
    <2>2. CASE Opens
        BY <1>1, <2>2, Opened DEF Opens
    <2>3. CASE Edits
        BY <1>1, <2>3, Typed DEF Edits, EffectQueue
    <2>4. CASE PutAnswered
      <3>1. CASE PutFailed
          BY <1>1, <3>1, Failed DEF ValidOnly, PutPending
      <3>2. CASE PutIgnored \/ PutOvertaken
          BY <3>2 DEF PutIgnored, PutOvertaken
      <3>3. CASE RowsAcknowledged
          BY <3>3, RowsTaken
      <3>4. CASE CustomerAcknowledged
          BY <1>1, <3>4, CustomerApplied
      <3>5. QED
          BY <2>4, <3>1, <3>2, <3>3, <3>4 DEF PutAnswered
    <2>5. CASE CallAnswered
      <3>1. CASE CallApplies
          BY <1>1, <3>1, CallApplied
      <3>2. CASE CallCloses
          BY <1>1, <3>2, Closed
      <3>3. CASE CallDone
          BY <3>3 DEF CallDone, formVars
      <3>4. QED
          BY <2>5, <3>1, <3>2, <3>3 DEF CallAnswered
    <2>6. CASE RefreshAnswered
        BY <1>1, <2>6, ReadApplied DEF RefreshAnswered, formVars
    <2>7. CASE Fires
        BY <1>1, <2>7, Fired DEF Fires, ValidOnly
    <2>8. CASE CustomerBlur
        BY <2>8, Blurred
    <2>9. CASE LoopSends
        BY <1>1, <2>9, Sent
    <2>10. CASE Starts \/ FlushGoesOn
        BY <2>10, QueueFlushed
    <2>11. QED
        BY <2>1, <2>2, <2>3, <2>4, <2>5, <2>6, <2>7, <2>8, <2>9, <2>10, Frames DEF QueueFrame
  <1>3. \/ timer'["cust"] = NoPayload \/ timer'["cust"] = timer["cust"]
        \/ ~Invalid("cust", timer'["cust"])
    <2>1. CASE timer' = timer
        BY <2>1
    <2>2. CASE Opens
        BY <1>1, <2>2, Opened DEF Opens
    <2>3. CASE Edits
        BY <1>1, <2>3, Typed DEF Edits, EffectTimer
    <2>4. CASE PutAnswered
      <3>1. CASE PutIgnored \/ PutOvertaken \/ PutFailed
          BY <3>1 DEF PutIgnored, PutOvertaken, PutFailed
      <3>2. CASE RowsAcknowledged
          BY <3>2, RowsTaken
      <3>3. CASE CustomerAcknowledged
          BY <1>1, <3>3, CustomerApplied
      <3>4. QED
          BY <2>4, <3>1, <3>2, <3>3 DEF PutAnswered
    <2>5. CASE CallAnswered
      <3>1. CASE CallApplies
          BY <1>1, <3>1, CallApplied
      <3>2. CASE CallCloses
          BY <1>1, <3>2, Closed
      <3>3. CASE CallDone
          BY <3>3 DEF CallDone, formVars
      <3>4. QED
          BY <2>5, <3>1, <3>2, <3>3 DEF CallAnswered
    <2>6. CASE RefreshAnswered
        BY <1>1, <2>6, ReadApplied DEF RefreshAnswered, formVars
    <2>7. CASE Fires
        BY <1>1, <2>7, Fired DEF Fires
    <2>8. CASE CustomerBlur \/ LoopSends \/ Starts \/ FlushGoesOn
        BY <2>8, Blurred, Sent, QueueFlushed
    <2>9. QED
        BY <2>1, <2>2, <2>3, <2>4, <2>5, <2>6, <2>7, <2>8, Frames DEF QueueFrame
  <1>4. PutPending' /\ put'.kind = "cust" => ~Invalid("cust", put'.payload)
    <2>1. CASE put' = put
        BY <2>1 DEF ValidOnly, PutPending
    <2>2. CASE LoopSends
        BY <2>2, Sent DEF ValidOnly, PutPending
    <2>3. CASE PutAnswered
      <3>1. NoPut.phase = "none"
          BY DEF NoPut
      <3>2. QED
          BY <2>3, <3>1, PutsUsed DEF PutPending
    <2>4. CASE ServerAnswersPut \/ NetworkFails
        BY <2>4, PutTravels DEF ValidOnly, PutPending
    <2>5. QED
        BY <2>1, <2>2, <2>3, <2>4, Frames DEF PutFrame
  <1>5. QED
      BY <1>2, <1>3, <1>4 DEF ValidOnly, Invalid

-----------------------------------------------------------------------------
(* What looks saved is saved.                                              *)

\* The habits under which it holds.  Ctrl+S is not among them: its handler may
\* flush terms and a customer from a render that is long over.
Careful == Habits \cap {"revert", "typeOn", "mix", "keys"} = {}

\* What happens before another workspace is opened; and while a handler pauses
\* before its second flush, no other terms are read into the form, since the
\* handler would send those of its own render over them.
Rests == /\ \A s \in Sessions :
               Open(s) => put.phase = "none" /\ call.phase = "none" /\ flow.phase = "none"
         /\ flow.phase = "pause" /\ RefreshAnswered => form'["rows"].held = form["rows"].held
CarefulStep == [Next]_vars /\ Rests /\ Careful

Shown == session # NoSession
Clean == \A k \in Kinds : ~Dirty(k)
Member(c, k) == \E i \in DOMAIN c : c[i] = k
OnChain(k) == Member(chain, k)

\* A PUT under way is for the workspace shown and its revision, and its half is
\* not saved yet.
PutOwn == Shown /\ PutPending =>
    /\ put.sess = session /\ Dirty(put.kind) /\ put.base = rev
    /\ put.phase = "ok" => put.rev = put.base + 1
    /\ put.kind = "rows" /\ put.payload = form["rows"] /\ queue["rows"] # NoPayload
            => queue["rows"] = form["rows"]

\* What is queued is news, or its loop will find out that it is not; a timer has
\* captured the form as it is.
QueueOwn == Shown => \A k \in Kinds :
    /\ queue[k] # NoPayload => Dirty(k) \/ (queue[k] = acked[k] /\ OnChain(k))
    /\ timer[k] # NoPayload => Dirty(k) /\ timer[k] = form[k]

OneDirty == Shown => ~(Dirty("rows") /\ Dirty("cust"))

\* Nothing is unsaved while a selection or detachment is awaited.
Alone == Shown /\ call.phase \in {"sent", "ok"} /\ Picks => ~PutPending /\ ~Queued /\ Clean

\* A handler in its flush belongs to the workspace shown and captured what the
\* form shows.  While it waits for the rows there is no customer to save.
FlowOwn == flow.phase # "none" =>
    /\ Shown /\ flow.sess = session
    /\ flow.op # "shortcut"
    /\ flow.cust = form["cust"] /\ flow.terms = form["rows"].held
    /\ flow.phase \in {"rows", "rowsDone"} => ~Dirty("cust") /\ flow.cust = acked["cust"]
    /\ flow.phase = "pause" => flow.op = "finalize" /\ flow.again
    /\ flow.phase \in Kinds => OnChain(flow.phase)
    /\ flow.op = "detach" => flow.phase = "flushed" /\ ~PutPending /\ ~Queued /\ Clean

\* A GET that could still be used was sent with nothing unsaved.
Quiet == refresh.sess = session /\ refresh.fresh /\ ~refresh.pend
QuietRead == Shown /\ refresh.phase # "none" /\ Quiet => Clean /\ ~PutPending

\* A finalization that has reason to flush again began over something unsaved;
\* once that is saved, the customer shown is the server's.
Asked == (/\ flow.phase # "none" /\ flow.op = "finalize"
          /\ flow.pend \/ flow.again \/ Queued
          /\ Clean) =>
    /\ server[session].cust = form["cust"]
    /\ refresh.phase = "ok" /\ Quiet => refresh.cust = form["cust"]

\* What an answer says of the server is true under its revision.
PutData == Shown /\ put.phase = "ok" =>
    /\ put.kind = "cust" => server[session].cust = put.payload /\ put.rows = form["rows"]
    /\ put.kind = "rows" => put.rows = put.payload /\ server[session].cust = form["cust"]
    /\ put.rev = server[session].rev => server[session].rows = put.rows
CallData == call.phase = "ok" /\ Picks /\ call.rev = server[call.sess].rev =>
    call.rows = server[call.sess].rows /\ call.cust = server[call.sess].cust
ReadData == refresh.phase = "ok" /\ refresh.rev = server[refresh.sess].rev =>
    refresh.rows = server[refresh.sess].rows /\ refresh.cust = server[refresh.sess].cust
PostData == call.phase = "sent" /\ call.op = "finalize" /\ call.sess \in Sessions =>
    /\ call.base <= server[call.sess].rev
    /\ call.base = server[call.sess].rev => call.rows = server[call.sess].rows

TurnsInv == PutOwn /\ QueueOwn /\ OneDirty /\ Alone /\ FlowOwn /\ QuietRead /\ Asked
DataInv == PutData /\ CallData /\ ReadData /\ PostData /\ SavedMeansSaved
SaveInv == BoundInv /\ CallOwn /\ UsedInv /\ ValidOnly /\ TurnsInv /\ DataInv

-----------------------------------------------------------------------------
(* The chain.                                                              *)

\* Joining the chain takes nobody off it.
LEMMA EnqueuedOn ==
    ASSUME NEW c \in Seq(Kinds), NEW k \in Kinds
    PROVE  /\ Enqueued(c, k) \in Seq(Kinds)
           /\ Member(Enqueued(c, k), k)
           /\ \A j : Member(c, j) => Member(Enqueued(c, k), j)
  <1>1. CASE Member(c, k)
      BY <1>1 DEF Enqueued, Member
  <1>2. CASE ~Member(c, k)
    <2>1. Enqueued(c, k) = Append(c, k)
        BY <1>2 DEF Enqueued, Member
    <2>2. /\ Append(c, k) \in Seq(Kinds)
          /\ Len(Append(c, k)) = Len(c) + 1 /\ Append(c, k)[Len(c) + 1] = k
          /\ \A i \in 1..Len(c) : Append(c, k)[i] = c[i]
          /\ Len(c) \in Nat /\ DOMAIN c = 1..Len(c)
          /\ DOMAIN Append(c, k) = 1..Len(Append(c, k))
        BY AppendProperties, LenProperties
    <2>3. Len(c) + 1 \in DOMAIN Append(c, k) /\ DOMAIN c \subseteq DOMAIN Append(c, k)
        BY <2>2
    <2>4. QED
        BY <2>1, <2>2, <2>3 DEF Member
  <1>3. QED
      BY <1>1, <1>2

\* Whoever is not at the head stays when the head leaves.
LEMMA TailOn ==
    ASSUME NEW c \in Seq(Kinds), c # <<>>, NEW j, j # Head(c), Member(c, j)
    PROVE  Member(Tail(c), j)
  <1>1. PICK i \in DOMAIN c : c[i] = j
      BY DEF Member
  <1>2. /\ Len(Tail(c)) = Len(c) - 1 /\ Tail(c) \in Seq(Kinds)
        /\ \A n \in 1..Len(Tail(c)) : Tail(c)[n] = c[n + 1]
        /\ Len(c) \in Nat /\ DOMAIN c = 1..Len(c) /\ DOMAIN Tail(c) = 1..Len(Tail(c))
        /\ Head(c) = c[1]
      BY HeadTailProperties, LenProperties
  <1>3. i - 1 \in DOMAIN Tail(c) /\ Tail(c)[i - 1] = j
      BY <1>1, <1>2
  <1>4. QED
      BY <1>3 DEF Member

\* The loop whose PUT is under way is the first.
LEMMA PutTurn ==
    ASSUME IInv, PutPending
    PROVE  chain # <<>> /\ Head(chain) = put.kind /\ put.kind \in Kinds /\ OnChain(put.kind)
  <1>1. chain # <<>> /\ Head(chain) = put.kind /\ put.kind \in Kinds /\ chain \in Seq(Kinds)
      BY Records DEF IInv, TurnOK, TurnTypeOK, SavesTakeTurns, PutRecords
  <1>2. Head(chain) = chain[1] /\ 1 \in DOMAIN chain
      BY <1>1, HeadTailProperties, LenProperties, EmptySeq
  <1>3. QED
      BY <1>1, <1>2 DEF OnChain, Member

\* A loop stays on the chain until its end.
LEMMA ChainKept ==
    ASSUME IInv, [Next]_vars, NEW k \in Kinds, OnChain(k)
    PROVE  OnChain(k)' \/ ((LoopEnds \/ PutFailed) /\ k = Head(chain))
  <1>1. chain \in Seq(Kinds) /\ "rows" \in Kinds /\ "cust" \in Kinds
      BY ChainDistinct DEF Kinds
  <1>2. CASE chain' = chain
      BY <1>2 DEF OnChain
  <1>3. ASSUME NEW j \in Kinds, chain' = Enqueued(chain, j)
        PROVE  OnChain(k)'
      BY <1>1, <1>3, EnqueuedOn DEF OnChain
  <1>4. CASE LoopEnds
      BY <1>1, <1>4, Ended, FlowSettled, TailOn DEF OnChain
  <1>5. CASE PutAnswered
    <2>1. CASE PutFailed
      <3>1. chain' = Tail(chain) /\ PutPending
          BY <2>1, Failed, FlowSettled DEF PutPending
      <3>2. QED
          BY <1>1, <2>1, <3>1, PutTurn, TailOn DEF OnChain
    <2>2. CASE ~PutFailed
        BY <1>2, <1>5, <2>2 DEF PutAnswered, PutIgnored, PutOvertaken, RowsAcknowledged,
                                CustomerAcknowledged
    <2>3. QED
        BY <2>1, <2>2
  <1>6. CASE RetryFires
    <2>1. PICK c \in {chain, Enqueued(chain, "rows")} : chain' \in {c, Enqueued(c, "cust")}
      <3> DEFINE due(j) == \/ \E i \in DOMAIN chain : chain[i] = j
                           \/ session # NoSession /\ queue[j] # NoPayload
                 c == IF due("rows") THEN Enqueued(chain, "rows") ELSE chain
      <3>1. chain' = IF due("cust") THEN Enqueued(c, "cust") ELSE c
          BY <1>6 DEF RetryFires
      <3>2. c \in {chain, Enqueued(chain, "rows")}
          OBVIOUS
      <3> HIDE DEF c, due
      <3>3. QED
          BY <3>1, <3>2
    <2>2. c \in Seq(Kinds) /\ Member(c, k)
        BY <1>1, <2>1, EnqueuedOn DEF OnChain
    <2>3. QED
        BY <1>1, <2>1, <2>2, EnqueuedOn DEF OnChain
  <1>7. CASE Fires
    <2>1. PICK j \in Kinds : DebounceFires(j)
        BY <1>7 DEF Fires
    <2>2. QED
        BY <1>3, <2>1, Fired
  <1>8. CASE CustomerBlur
      BY <1>1, <1>3, <1>8, Blurred
  <1>9. ASSUME NEW fl \in FlowRecords, NEW q, Flush(fl, q) \/ FlushCustomer(fl, q, chain)
        PROVE  OnChain(k)'
    <2>1. FlushesRows(fl, q) \/ FlushesCustomer(fl, q) \/ FlushesNothing(fl, q)
      <3>1. CASE Flush(fl, q)
          BY <3>1, Flushed
      <3>2. CASE FlushCustomer(fl, q, chain)
          BY <3>2, CustomerFlushed
      <3>3. QED
          BY <1>9, <3>1, <3>2
    <2>2. chain' \in {chain, Enqueued(chain, "rows"), Enqueued(chain, "cust")}
        BY <2>1 DEF FlushesRows, FlushesCustomer, FlushesNothing
    <2>3. QED
        BY <1>1, <1>3, <2>2 DEF OnChain
  <1>10. CASE FlushGoesOn
      BY <1>9, <1>10, WentOn
  <1>11. CASE Starts
      BY <1>9, <1>11, Started DEF Starts
  <1>12. CASE \/ \E s \in Sessions : Open(s) \/ OtherSurfaceSaves(s)
              \/ \E j \in Kinds : Edit(j)
              \/ SelectCustomer \/ CancelWorkspace \/ ArtifactSignal
      BY <1>2, <1>12 DEF Open, OtherSurfaceSaves, Edit, SelectCustomer, CancelWorkspace,
                         ArtifactSignal
  <1>13. CASE \/ LoopSends \/ FlowActs \/ CallAnswered \/ RefreshAnswered
              \/ ServerAnswersPut \/ ServerAnswersCall \/ ServerReads \/ NetworkFails
              \/ UNCHANGED vars
      BY <1>2, <1>13 DEF LoopSends, FlowActs, CallAnswered, RefreshAnswered, ServerAnswersPut,
                         ServerAnswersCall, ServerReads, NetworkFails, vars
  <1>14. QED
      BY <1>4, <1>5, <1>6, <1>7, <1>8, <1>10, <1>11, <1>12, <1>13
      DEF Next, Fires, Starts, FlushGoesOn

\* A careful operator types into a clean form, or into the half that is unsaved
\* already, while no handler and no POST is under way.  What is typed is news.
LEMMA TypedAlone ==
    ASSUME IInv, SaveInv, Careful, NEW k \in Kinds, Edit(k)
    PROVE  /\ flow.phase = "none" /\ call.phase = "none" /\ Shown
           /\ \A j \in Kinds \ {k} : ~Dirty(j) /\ ~Dirty(j)' /\ form'[j] = form[j]
           /\ Dirty(k)' /\ form'[k] \notin Given /\ form'[k] # form[k]
           /\ acked' = acked
  <1>1. "revert" \notin Habits /\ "typeOn" \notin Habits /\ "mix" \notin Habits
      BY DEF Careful
  <1>2. \A j \in Kinds : form[j] \in Given /\ acked[j] \in Given
      BY DEF SaveInv, UsedInv, UsedForm
  <1>3. form'[k] \in NewValues(k) /\ form'[k] # form[k]
      BY <1>1, Typed DEF SaveInv, UsedInv
  <1>4. form'[k] \notin Given
      BY <1>2, <1>3, NewGiven
  <1>5. acked' = acked
      BY Typed
  <1>6. QED
      BY <1>1, <1>2, <1>4, <1>5, Typed DEF Dirty, Shown

\* While a PUT is under way nothing but the operator changes the form, and the
\* operator only the half that is being saved.
LEMMA PutStands ==
    ASSUME IInv, SaveInv, CarefulStep, Shown, Shown', PutPending, PutPending'
    PROVE  /\ UNCHANGED <<session, rev, acked>>
           /\ UNCHANGED <<put.kind, put.sess, put.payload, put.base>>
           /\ form' = form \/ Edit(put.kind)
           /\ put' # put => put.phase = "sent" /\ (ServerAnswersPut \/ NetworkFails)
           /\ ~PutAnswered /\ ~Opens /\ ~TakesCall /\ ~CallApplies /\ ~CallCloses
           /\ ~(RefreshAnswered /\ RefreshApplies) /\ ~LoopSends
  <1> USE DEF CarefulStep
  <1>1. Dirty(put.kind) /\ put.kind \in Kinds
      BY PutTurn DEF SaveInv, TurnsInv, PutOwn
  <1>2. ~PutAnswered
    <2>1. NoPut.phase = "none"
        BY DEF NoPut
    <2>2. QED
        BY <2>1, PutsUsed DEF PutPending
  <1>3. ~Opens
      BY DEF Opens, Rests, PutPending
  <1>4. ~(call.phase \in {"sent", "ok"} /\ Picks)
      BY DEF SaveInv, TurnsInv, Alone
  <1>5. ~CallApplies /\ ~TakesCall /\ ~CallCloses
      BY <1>4, Closed DEF CallApplies, TakesCall, Picks, Shown
  <1>6. ~RefreshUseful
      BY <1>1 DEF RefreshUseful
  <1>7. UNCHANGED <<session, rev>>
      BY <1>2, <1>3, <1>5, <1>6, Taken DEF TakesPut, TakesRead, Opens, PutAnswered, PutsUsed,
                                          PutPending, NoPut
  <1>8. UNCHANGED <<form, acked>> \/ \E k \in Kinds : Edit(k)
      BY <1>2, <1>3, <1>5, <1>6, Frames DEF FormFrame, Edits, CallAnswered, CallDone, formVars,
                                           RefreshAnswered, RefreshApplies
  <1>9. ASSUME NEW k \in Kinds, Edit(k)
        PROVE  k = put.kind /\ acked' = acked
      BY <1>1, <1>9, TypedAlone
  <1>10. ~LoopSends
      BY Sent
  <1>11. /\ UNCHANGED <<put.kind, put.sess, put.payload, put.base>>
         /\ put' # put => put.phase = "sent" /\ (ServerAnswersPut \/ NetworkFails)
      BY <1>2, <1>10, PutTravels, Frames DEF PutFrame
  <1>12. QED
      BY <1>2, <1>3, <1>5, <1>6, <1>7, <1>8, <1>9, <1>10, <1>11 DEF RefreshApplies

\* While a handler is in its flush no workspace is opened or closed, nothing is
\* typed and no POST is awaited.
LEMMA FlowStands ==
    ASSUME IInv, SaveInv, CarefulStep, flow.phase # "none"
    PROVE  /\ session' = session /\ Shown /\ call.phase = "none"
           /\ ~Opens /\ ~Edits /\ ~CallAnswered /\ ~Starts /\ ~ServerAnswersCall
           /\ ~SelectCustomer /\ ~CancelWorkspace
  <1> USE DEF CarefulStep
  <1>1. call.phase = "none" /\ Shown
      BY DEF SaveInv, CallOwn, TurnsInv, FlowOwn
  <1>2. ~CallAnswered /\ ~CallCloses /\ ~TakesCall
      BY <1>1 DEF CallAnswered, CallCloses, CallApplies, CallDone, TakesCall
  <1>3. ~Opens
      BY DEF Opens, Rests
  <1>4. ~Edits
      BY TypedAlone DEF Edits
  <1>5. session' = session
      BY <1>2, <1>3, Taken DEF TakesPut, TakesRead, Opens
  <1>6. ~ServerAnswersCall /\ ~Starts /\ ~SelectCustomer /\ ~CancelWorkspace
      BY <1>1, Started DEF ServerAnswersCall, Starts, SelectCustomer, CancelWorkspace
  <1>7. QED
      BY <1>1, <1>2, <1>3, <1>4, <1>5, <1>6

\* While a selection or detachment is awaited the form stays as it is, but for
\* a read of the same workspace.
LEMMA CallStands ==
    ASSUME IInv, SaveInv, CarefulStep, Shown, call.phase \in {"sent", "ok"}, Picks,
           call'.phase \in {"sent", "ok"}
    PROVE  /\ ~PutPending /\ Clean /\ ~Queued /\ flow.phase = "none"
           /\ \A k \in Kinds : queue[k] = NoPayload /\ timer[k] = NoPayload
           /\ ~Opens /\ ~Edits /\ ~PutAnswered /\ ~CallAnswered /\ ~Fires /\ ~CustomerBlur
           /\ ~LoopSends /\ ~Starts /\ ~FlushGoesOn /\ put' = put
           /\ call'.op = call.op /\ session' = session
  <1> USE DEF CarefulStep
  <1>1. ~PutPending /\ Clean /\ ~Queued /\ flow.phase = "none"
      BY DEF SaveInv, TurnsInv, Alone, CallOwn
  <1>2. \A k \in Kinds : queue[k] = NoPayload /\ timer[k] = NoPayload
      BY <1>1 DEF SaveInv, TurnsInv, QueueOwn, Queued, Clean
  <1>3. ~Opens /\ ~Edits /\ ~Starts
      BY TypedAlone, Started DEF Opens, Rests, Edits, Starts
  <1>4. ~PutAnswered
      BY <1>1 DEF PutAnswered, PutIgnored, PutOvertaken, RowsAcknowledged, CustomerAcknowledged,
                  PutFailed, PutPending
  <1>5. ~CallAnswered
    <2>1. NoCall.phase = "none"
        BY DEF NoCall
    <2>2. ~CallCloses
        BY DEF CallCloses, Picks
    <2>3. QED
        BY <2>1, <2>2 DEF CallAnswered, CallApplies, CallDone
  <1>6. ~Fires /\ ~CustomerBlur /\ ~LoopSends /\ ~FlushGoesOn
      BY <1>1, <1>2, Fired, Blurred, Sent, WentOn DEF Fires, Clean, Kinds
  <1>7. put' = put
      BY <1>1, <1>4, <1>6, PutTravels, Frames DEF PutFrame, PutPending
  <1>8. call'.op = call.op
    <2>1. ~Posted
        BY <1>1 DEF Posted, SelectCustomer, CancelWorkspace, FlowActs, FlowPauses, FlowGivesUp,
                    FlowPosts, FlowSwitches
    <2>2. call \in CallRecords
        BY Records
    <2>3. QED
        BY <2>1, <2>2, CallMoves, SetsOnce, ClosesOnly DEF CallRecords
  <1>9. session' = session
      BY <1>3, <1>4, <1>5, Taken, ShownMoves DEF Opens, TakesRead, RefreshAnswered
  <1>10. QED
      BY <1>1, <1>2, <1>3, <1>4, <1>5, <1>6, <1>7, <1>8, <1>9

\* Only an opened workspace comes to be shown.
LEMMA ShownStays ==
    ASSUME IInv, SaveInv, [Next]_vars, Shown', ~Opens
    PROVE  Shown /\ session' = session
  <1>1. CASE UNCHANGED session
      BY <1>1 DEF Shown
  <1>2. CASE CallCloses
      BY <1>2, Closed DEF Shown
  <1>3. CASE TakesCall
    <2>1. call.sess \in Sessions /\ call.sess = session
        BY <1>3 DEF TakesCall, IInv, HandlerOK, KnownSessions, SaveInv, CallOwn, Picks
    <2>2. QED
        BY <1>3, <2>1, SessionAssumption DEF TakesCall, Shown
  <1>4. QED
      BY <1>1, <1>2, <1>3, Taken DEF Opens, TakesPut, TakesRead

\* What replaces the whole form.
Replaces == \/ Opens \/ CallCloses
            \/ CallAnswered /\ CallApplies
            \/ RefreshAnswered /\ RefreshApplies

\* After the form is replaced nothing is unsaved, queued, timed or under way.
LEMMA Replaced ==
    ASSUME IInv, SaveInv, CarefulStep, Replaces
    PROVE  /\ Clean' /\ \A k \in Kinds : queue'[k] = NoPayload /\ timer'[k] = NoPayload
           /\ ~Queued'
           /\ Shown' => ~PutPending /\ put' = put
  <1> USE DEF CarefulStep
  <1>1. SUFFICES /\ \A k \in Kinds : /\ acked'[k] = form'[k]
                                     /\ queue'[k] = NoPayload /\ timer'[k] = NoPayload
                 /\ Shown' => ~PutPending /\ put' = put
      BY DEF Clean, Dirty, Queued
  <1>2. CASE Opens
      BY <1>2, Opened DEF Opens, Rests, PutPending
  <1>3. CASE CallCloses
      BY <1>3, Closed DEF Shown
  <1>4. CASE CallAnswered /\ CallApplies
    <2>1. Shown /\ call.phase = "ok" /\ Picks
      <3>1. call.phase = "ok" /\ Picks
          BY <1>4 DEF CallApplies, Picks
      <3>2. call.sess \in Sessions /\ call.sess = session
          BY <3>1 DEF IInv, HandlerOK, KnownSessions, SaveInv, CallOwn, Picks
      <3>3. QED
          BY <3>1, <3>2, SessionAssumption DEF Shown
    <2>2. ~PutPending /\ ~Queued
        BY <2>1 DEF SaveInv, TurnsInv, Alone
    <2>3. QED
        BY <1>4, <2>2, CallApplied DEF Queued, CallAnswered
  <1>5. CASE RefreshAnswered /\ RefreshApplies
    <2>1. refresh.phase = "ok" /\ refresh.sess = session /\ Clean
        BY <1>5 DEF RefreshAnswered, RefreshApplies, RefreshUseful, Clean
    <2>2. Shown
        BY <2>1, SessionAssumption DEF SaveInv, BoundInv, ReadBound, Shown
    <2>3. ~PutPending
        BY <2>1, <2>2, PutTurn DEF SaveInv, TurnsInv, PutOwn, Clean
    <2>4. put' = put
        BY <1>5 DEF RefreshAnswered
    <2>5. QED
        BY <1>5, <2>3, <2>4, ReadApplied
  <1>6. QED
      BY <1>2, <1>3, <1>4, <1>5 DEF Replaces

\* Who changes the form, seen from what is unsaved.
LEMMA FormGoes ==
    ASSUME IInv, SaveInv, CarefulStep
    PROVE  \/ UNCHANGED <<form, acked>>
           \/ Edits \/ Replaces
           \/ PutAnswered /\ (RowsAcknowledged \/ CustomerAcknowledged)
  <1>1. CASE PutAnswered
      BY <1>1 DEF PutAnswered, PutIgnored, PutOvertaken, PutFailed
  <1>2. CASE CallAnswered
      BY <1>2 DEF CallAnswered, CallDone, formVars, Replaces
  <1>3. CASE RefreshAnswered
      BY <1>3 DEF RefreshAnswered, formVars, Replaces
  <1>4. QED
      BY <1>1, <1>2, <1>3, Frames DEF FormFrame, Replaces, CarefulStep

\* The queue and the timers are changed by the named steps only.
LEMMA QueueGoes ==
    ASSUME IInv, SaveInv, CarefulStep
    PROVE  \/ UNCHANGED <<queue, timer>>
           \/ Edits \/ Replaces
           \/ PutAnswered /\ (RowsAcknowledged \/ CustomerAcknowledged \/ PutFailed)
           \/ Fires \/ CustomerBlur \/ LoopSends \/ Starts \/ FlushGoesOn
  <1>1. CASE PutAnswered
      BY <1>1 DEF PutAnswered, PutIgnored, PutOvertaken
  <1>2. CASE CallAnswered
      BY <1>2 DEF CallAnswered, CallDone, formVars, Replaces
  <1>3. CASE RefreshAnswered
      BY <1>3 DEF RefreshAnswered, formVars, Replaces
  <1>4. QED
      BY <1>1, <1>2, <1>3, Frames DEF QueueFrame, Replaces, CarefulStep

\* What an acknowledgement leaves unsaved.
LEMMA Acknowledged ==
    ASSUME IInv
    PROVE  /\ RowsAcknowledged => ~Dirty("rows")' /\ (Dirty("cust")' <=> Dirty("cust"))
           /\ CustomerAcknowledged => Clean'
  <1>1. ASSUME RowsAcknowledged
        PROVE  ~Dirty("rows")' /\ (Dirty("cust")' <=> Dirty("cust"))
      BY <1>1, RowsTaken DEF Dirty
  <1>2. ASSUME CustomerAcknowledged
        PROVE  Clean'
      BY <1>2, CustomerApplied DEF Clean, Dirty
  <1>3. QED
      BY <1>1, <1>2

\* No step leaves both halves unsaved.
LEMMA OneDirtyKept ==
    ASSUME IInv, SaveInv, CarefulStep
    PROVE  OneDirty'
  <1>1. "rows" \in Kinds /\ "cust" \in Kinds
      BY DEF Kinds
  <1>2. SUFFICES ASSUME Shown'
                 PROVE  ~(Dirty("rows")' /\ Dirty("cust")')
      BY DEF OneDirty
  <1>3. CASE Replaces
      BY <1>1, <1>3, Replaced DEF Clean
  <1>4. CASE Edits
    <2>1. PICK k \in Kinds : Edit(k)
        BY <1>4 DEF Edits
    <2>2. \A j \in Kinds \ {k} : ~Dirty(j)'
        BY <2>1, TypedAlone DEF CarefulStep
    <2>3. QED
        BY <1>1, <2>2
  <1>5. CASE RowsAcknowledged \/ CustomerAcknowledged
      BY <1>1, <1>5, Acknowledged DEF Clean
  <1>6. CASE UNCHANGED <<form, acked>> /\ ~Replaces
    <2>1. Shown
        BY <1>2, <1>6, ShownStays DEF CarefulStep, Replaces
    <2>2. QED
        BY <1>6, <2>1 DEF SaveInv, TurnsInv, OneDirty, Dirty
  <1>7. QED
      BY <1>3, <1>4, <1>5, <1>6, FormGoes

\* The half that a careful operator's handler captures is the one shown.
LEMMA StartedShown ==
    ASSUME IInv, Careful, NEW op \in Flows, FlowStart(op), NEW fl \in FlowRecords, fl.op = op,
           fl.cust = IF op = "shortcut" THEN shortcut.cust ELSE form["cust"],
           fl.terms = IF op = "shortcut" THEN shortcut.terms ELSE form["rows"].held
    PROVE  /\ op # "shortcut" /\ fl.cust = form["cust"] /\ fl.terms = form["rows"].held
           /\ Sections(fl) = form["rows"]
  <1>1. op # "shortcut"
      BY Started DEF Careful
  <1>2. form["rows"] = Half(form["rows"].live, form["rows"].held)
      BY Records, HalfOf, BoundAssumption DEF Kinds, Values
  <1>3. QED
      BY <1>1, <1>2 DEF Sections

\* So is the half it goes on with.
LEMMA OwnShown ==
    ASSUME IInv, SaveInv, flow.phase # "none"
    PROVE  flow.cust = form["cust"] /\ Sections(flow) = form["rows"]
  <1>1. flow.cust = form["cust"] /\ flow.terms = form["rows"].held
      BY DEF SaveInv, TurnsInv, FlowOwn
  <1>2. form["rows"] = Half(form["rows"].live, form["rows"].held)
      BY Records, HalfOf, BoundAssumption DEF Kinds, Values
  <1>3. QED
      BY <1>1, <1>2 DEF Sections

\* And so a flush queues what is shown.
LEMMA FlushesShown ==
    ASSUME IInv, SaveInv, CarefulStep, Starts \/ FlushGoesOn
    PROVE  /\ flow'.op # "shortcut" /\ flow'.cust = form["cust"]
           /\ flow'.terms = form["rows"].held
           /\ queue'["rows"] # queue["rows"] => queue'["rows"] = form["rows"] /\ Dirty("rows")
           /\ queue'["cust"] # queue["cust"] /\ queue'["cust"] # NoPayload =>
                queue'["cust"] = form["cust"] /\ Dirty("cust")
  <1>1. /\ flow'.op # "shortcut" /\ flow'.cust = form["cust"] /\ flow'.terms = form["rows"].held
        /\ Sections(flow') = form["rows"]
    <2>1. ASSUME NEW fl \in FlowRecords, Captured(fl), fl.op # "shortcut", fl.cust = form["cust"],
                 fl.terms = form["rows"].held, Sections(fl) = form["rows"]
          PROVE  /\ flow'.op # "shortcut" /\ flow'.cust = form["cust"]
                 /\ flow'.terms = form["rows"].held /\ Sections(flow') = form["rows"]
        BY <2>1 DEF Captured, Sections
    <2>2. CASE FlushGoesOn
      <3>1. flow \in FlowRecords /\ Captured(flow) /\ flow.phase # "none"
          BY <2>2, WentOn, Flushed, CustomerFlushed
      <3>2. flow.op # "shortcut" /\ flow.terms = form["rows"].held
          BY <3>1 DEF SaveInv, TurnsInv, FlowOwn
      <3>3. QED
          BY <2>1, <3>1, <3>2, OwnShown
    <2>3. CASE Starts
      <3>1. PICK op \in Flows : FlowStart(op)
          BY <2>3 DEF Starts
      <3>2. PICK fl \in FlowRecords, q \in [Kinds -> Payloads] :
                /\ Flush(fl, q)
                /\ fl.op = op /\ fl.sess = session /\ fl.again = FALSE
                /\ fl.cust = IF op = "shortcut" THEN shortcut.cust ELSE form["cust"]
                /\ fl.terms = IF op = "shortcut" THEN shortcut.terms ELSE form["rows"].held
                /\ op # "shortcut" => fl.pend = PutPending
                /\ q["rows"] = queue["rows"]
                /\ q["cust"] = IF op = "detach" THEN NoPayload ELSE queue["cust"]
          BY <3>1, Started
      <3>3. Captured(fl)
          BY <3>2, Flushed
      <3>4. QED
          BY <2>1, <3>1, <3>2, <3>3, StartedShown DEF CarefulStep
    <2>4. QED
        BY <2>2, <2>3
  <1>2. QED
      BY <1>1, QueueFlushed DEF Dirty

\* A PUT under way stays the one for what the form shows unsaved.
LEMMA PutOwnKept ==
    ASSUME IInv, SaveInv, CarefulStep
    PROVE  PutOwn'
  <1> USE DEF CarefulStep
  <1>1. SUFFICES ASSUME Shown', PutPending'
        PROVE  /\ put'.sess = session' /\ Dirty(put.kind)' /\ put'.base = rev'
               /\ put'.phase = "ok" => put'.rev = put'.base + 1
               /\ put'.kind = "rows" /\ put'.payload = form'["rows"] /\ queue'["rows"] # NoPayload
                    => queue'["rows"] = form'["rows"]
      BY DEF PutOwn
  <1>2. CASE PutPending
    <2>1. ~Opens
        BY <1>2 DEF Opens, Rests, PutPending
    <2>2. Shown
        BY <1>1, <2>1, ShownStays
    <2>3. PutOwn
        BY DEF SaveInv, TurnsInv
    <2>4. put.kind \in Kinds
        BY <1>2, PutTurn
    <2>5. put'.sess = session' /\ put'.base = rev'
        BY <1>1, <1>2, <2>2, <2>3, PutStands DEF PutOwn
    <2>6. Dirty(put.kind)'
      <3>1. CASE form' = form
          BY <1>1, <1>2, <2>2, <2>3, <3>1, PutStands DEF PutOwn, Dirty
      <3>2. CASE Edit(put.kind)
          BY <1>1, <1>2, <2>2, <2>4, <3>2, TypedAlone, PutStands DEF Dirty
      <3>3. QED
          BY <1>1, <1>2, <2>2, <3>1, <3>2, PutStands
    <2>7. ASSUME put'.phase = "ok"
          PROVE  put'.rev = put'.base + 1
      <3>1. CASE put' = put
          BY <1>2, <2>2, <2>3, <2>7, <3>1 DEF PutOwn
      <3>2. CASE ServerSaves("ok")
        <4>1. put'.rev = server'[put.sess].rev /\ put'.base = put.base
            BY <3>2, SavesOnce, Records DEF PutRecords
        <4>2. QED
            BY <3>2, <4>1, SavesOnce DEF Written
      <3>3. QED
          BY <2>7, <3>1, <3>2, PutMoves
    <2>8. ASSUME put'.kind = "rows", put'.payload = form'["rows"], queue'["rows"] # NoPayload
          PROVE  queue'["rows"] = form'["rows"]
      <3>1. put.kind = "rows" /\ put.payload = form'["rows"] /\ "rows" \in Kinds
          BY <1>1, <1>2, <2>2, <2>8, PutStands DEF Kinds
      <3>2. CASE Edits
        <4>1. Edit("rows")
            BY <1>1, <1>2, <2>2, <3>1, <3>2, PutStands, TypedAlone DEF Edits
        <4>2. QED
            BY <3>1, <4>1, TypedAlone DEF SaveInv, UsedInv, UsedPut
      <3>3. CASE form' = form
        <4>1. CASE UNCHANGED queue
            BY <1>2, <2>2, <2>3, <2>8, <3>1, <3>3, <4>1 DEF PutOwn
        <4>2. CASE Fires
            BY <1>2, <2>2, <2>3, <2>8, <3>1, <3>3, <4>2, Fired
            DEF Fires, PutOwn, SaveInv, TurnsInv, QueueOwn
        <4>3. CASE CustomerBlur
            BY <1>2, <2>2, <2>3, <2>8, <3>1, <3>3, <4>3, Blurred DEF PutOwn
        <4>4. CASE Starts \/ FlushGoesOn
            BY <1>2, <2>2, <2>3, <2>8, <3>1, <3>3, <4>4, FlushesShown DEF PutOwn
        <4>5. QED
            BY <1>1, <1>2, <2>2, <3>2, <3>3, <4>1, <4>2, <4>3, <4>4, QueueGoes, PutStands
            DEF Replaces
      <3>4. QED
          BY <1>1, <1>2, <2>2, <2>4, <3>2, <3>3, PutStands DEF Edits
    <2>9. QED
        BY <2>5, <2>6, <2>7, <2>8
  <1>3. CASE ~PutPending
    <2>1. LoopSends
      <3>1. NoPut.phase = "none"
          BY DEF NoPut
      <3>2. QED
          BY <1>1, <1>3, <3>1, PutsUsed, PutTravels, Frames DEF PutFrame, PutPending
    <2>2. /\ put'.phase = "sent" /\ put'.kind = Head(chain) /\ put'.sess = session
          /\ put'.base = rev /\ Head(chain) \in Kinds
          /\ queue[Head(chain)] # acked[Head(chain)] /\ queue[Head(chain)] # NoPayload
          /\ queue'[Head(chain)] = NoPayload
          /\ UNCHANGED <<session, rev, form, acked>>
        BY <1>1, <2>1, Sent DEF PutPending
    <2>3. Dirty(Head(chain))
        BY <1>1, <2>2 DEF SaveInv, TurnsInv, QueueOwn, Shown
    <2>4. QED
        BY <2>2, <2>3 DEF Dirty
  <1>4. QED
      BY <1>2, <1>3

\* Nothing becomes unsaved while a selection or detachment is awaited.
LEMMA AloneKept ==
    ASSUME IInv, SaveInv, CarefulStep
    PROVE  Alone'
  <1> USE DEF CarefulStep
  <1>1. SUFFICES ASSUME Shown', call'.phase \in {"sent", "ok"}, Picks'
                 PROVE  ~PutPending' /\ ~Queued' /\ Clean'
      BY DEF Alone
  <1>2. CASE Shown /\ call.phase \in {"sent", "ok"} /\ Picks
    <2>1. put' = put /\ ~PutPending /\ Clean /\ ~Queued
        BY <1>1, <1>2, CallStands
    <2>2. CASE Replaces
        BY <1>1, <2>1, <2>2, Replaced DEF PutPending
    <2>3. CASE ~Replaces
      <3>1. UNCHANGED <<form, acked>>
          BY <1>1, <1>2, <2>3, CallStands, FormGoes
      <3>2. UNCHANGED queue
          BY <1>1, <1>2, <2>3, CallStands, QueueGoes
      <3>3. QED
          BY <2>1, <3>1, <3>2 DEF PutPending, Clean, Dirty, Queued
    <2>4. QED
        BY <2>2, <2>3
  <1>3. CASE ~(Shown /\ call.phase \in {"sent", "ok"} /\ Picks)
    <2>1. call' # call
      <3>1. SUFFICES ASSUME call' = call PROVE FALSE
          OBVIOUS
      <3>2. ~Shown /\ call.phase # "none"
          BY <1>1, <1>3, <3>1 DEF Picks
      <3>3. Opens
          BY <1>1, <3>2, ShownStays
      <3>4. QED
          BY <3>2, <3>3 DEF Opens, Rests
    <2>2. ~(call.phase = "sent" /\ ServerSetsCustomer)
        BY <1>3, SetsOnce, SessionAssumption DEF Picks, SaveInv, CallOwn, Shown
    <2>3. ~ServerCloses
        BY <1>1, ClosesOnly, Records DEF Picks, CallRecords
    <2>4. Posted
        BY <1>1, <2>1, <2>2, <2>3, CallMoves
    <2>5. CASE SelectCustomer
        BY <2>5 DEF SelectCustomer, Careful, Pending, formVars, PutPending, Queued, Clean, Dirty
    <2>6. CASE FlowActs /\ FlowPosts /\ flow.op = "detach"
      <3>1. ~PutPending /\ ~Queued /\ Clean
          BY <2>6 DEF SaveInv, TurnsInv, FlowOwn, FlowPosts
      <3>2. QED
          BY <2>6, <3>1 DEF FlowActs, PutPending, Queued, Clean, Dirty
    <2>7. QED
        BY <1>1, <2>4, <2>5, <2>6 DEF Posted, Picks
  <1>4. QED
      BY <1>2, <1>3

\* What stays queued for a half that nobody touches is still news, or its loop
\* is still to come.
LEMMA QueuePersists ==
    ASSUME IInv, SaveInv, [Next]_vars, Shown, NEW k \in Kinds, queue[k] # NoPayload,
           form'[k] = form[k], acked'[k] = acked[k]
    PROVE  Dirty(k)' \/ (queue[k] = acked'[k] /\ OnChain(k)')
  <1>1. Dirty(k) \/ (queue[k] = acked[k] /\ OnChain(k))
      BY DEF SaveInv, TurnsInv, QueueOwn
  <1>2. CASE Dirty(k)
      BY <1>2 DEF Dirty
  <1>3. CASE OnChain(k) /\ queue[k] = acked[k]
    <2>1. CASE LoopEnds /\ k = Head(chain)
        BY <2>1, Ended
    <2>2. CASE PutFailed /\ k = Head(chain)
      <3>1. PutPending
          BY <2>2, Failed DEF PutPending
      <3>2. Dirty(k)
          BY <2>2, <3>1, PutTurn DEF SaveInv, TurnsInv, PutOwn
      <3>3. QED
          BY <1>2, <3>2
    <2>3. CASE OnChain(k)'
        BY <1>3, <2>3
    <2>4. QED
        BY <1>3, <2>1, <2>2, <2>3, ChainKept
  <1>4. QED
      BY <1>1, <1>2, <1>3

\* What is queued stays news, or its loop stays on the chain.
LEMMA QueueOwnKept ==
    ASSUME IInv, SaveInv, CarefulStep
    PROVE  QueueOwn'
  <1> USE DEF CarefulStep
  <1> DEFINE Q(k) == queue'[k] # NoPayload => Dirty(k)' \/ (queue'[k] = acked'[k] /\ OnChain(k)')
             T(k) == timer'[k] # NoPayload => Dirty(k)' /\ timer'[k] = form'[k]
  <1>1. SUFFICES ASSUME Shown', NEW k \in Kinds
                 PROVE  Q(k) /\ T(k)
      BY DEF QueueOwn
  <1>2. CASE Replaces
      BY <1>2, Replaced
  <1>3. CASE ~Replaces
    <2>1. Shown
        BY <1>1, <1>3, ShownStays DEF Replaces
    <2>2. QueueOwn /\ PutOwn /\ OneDirty
        BY DEF SaveInv, TurnsInv
    <2>3. ASSUME queue'[k] \in {NoPayload, queue[k]}, form'[k] = form[k], acked'[k] = acked[k]
          PROVE  Q(k)
        BY <2>1, <2>3, QueuePersists
    <2>4. ASSUME timer'[k] \in {NoPayload, timer[k]}, form'[k] = form[k], acked'[k] = acked[k]
          PROVE  T(k)
        BY <2>1, <2>2, <2>4 DEF QueueOwn, Dirty
    <2>5. CASE Edits
      <3>1. PICK j \in Kinds : Edit(j)
          BY <2>5 DEF Edits
      <3>2. CASE j = k
        <4>1. Dirty(k)'
            BY <3>1, <3>2, TypedAlone
        <4>2. timer'[k] \in {NoPayload, form'[k]}
            BY <3>1, <3>2, Typed DEF EffectTimer
        <4>3. QED
            BY <4>1, <4>2
      <3>3. CASE j # k
        <4>1. form'[k] = form[k] /\ acked'[k] = acked[k] /\ queue'[k] = queue[k] /\ timer'[k] = timer[k]
            BY <3>1, <3>3, Typed
        <4>2. QED
            BY <2>3, <2>4, <4>1
      <3>4. QED
          BY <3>2, <3>3
    <2>6. CASE RowsAcknowledged
      <3>1. CASE k = "rows"
        <4>1. timer'[k] = NoPayload
            BY <2>6, <3>1, RowsTaken
        <4>2. ASSUME queue'[k] # NoPayload
              PROVE  queue'[k] = acked'[k] /\ OnChain(k)'
          <5>1. /\ put.kind = "rows" /\ form["rows"] = put.payload /\ PutPending
                /\ queue'["rows"] = queue["rows"] /\ acked'["rows"] = put.payload /\ chain' = chain
              BY <2>6, <3>1, <4>2, RowsTaken DEF PutPending
          <5>2. queue["rows"] = form["rows"]
              BY <2>1, <2>2, <3>1, <4>2, <5>1 DEF PutOwn
          <5>3. OnChain("rows")
              BY <5>1, PutTurn
          <5>4. QED
              BY <3>1, <5>1, <5>2, <5>3 DEF OnChain
        <4>3. QED
            BY <4>1, <4>2
      <3>2. CASE k = "cust"
        <4>1. form'[k] = form[k] /\ acked'[k] = acked[k] /\ queue'[k] = queue[k] /\ timer'[k] = timer[k]
            BY <2>6, <3>2, RowsTaken
        <4>2. QED
            BY <2>3, <2>4, <4>1
      <3>3. QED
          BY <3>1, <3>2 DEF Kinds
    <2>7. CASE CustomerAcknowledged
      <3>1. timer'[k] = NoPayload
          BY <2>7, CustomerApplied
      <3>2. put.phase = "ok" /\ put.kind = "cust" /\ PutPending /\ chain' = chain
          BY <2>7, CustomerTaken DEF PutPending
      <3>3. CASE k = "cust"
        <4>1. ~Invalid("cust", put.payload) /\ ~Muted("cust")
            BY <3>2 DEF SaveInv, ValidOnly, Muted
        <4>2. queue'[k] = NoPayload
            BY <2>7, <3>3, <4>1, CustomerApplied
        <4>3. QED
            BY <3>1, <4>2
      <3>4. CASE k = "rows"
        <4>1. ~Dirty("rows") /\ put.rows = form["rows"]
            BY <2>1, <2>2, <3>2 DEF PutOwn, OneDirty, SaveInv, DataInv, PutData
        <4>2. acked'[k] = acked[k] /\ form'[k] = form[k]
            BY <2>7, <3>4, <4>1, CustomerApplied DEF Dirty
        <4>3. queue'[k] \in {NoPayload, queue[k]}
            BY <2>7, CustomerApplied
        <4>4. QED
            BY <2>3, <3>1, <4>2, <4>3
      <3>5. QED
          BY <3>3, <3>4 DEF Kinds
    <2>8. CASE UNCHANGED <<form, acked>>
      <3>1. CASE UNCHANGED <<queue, timer>>
          BY <2>3, <2>4, <2>8, <3>1
      <3>2. CASE PutFailed
        <4>1. PutPending
            BY <3>2, Failed DEF PutPending
        <4>2. T(k)
            BY <2>4, <2>8, <3>2, Failed
        <4>3. CASE k = put.kind
            BY <2>1, <2>2, <2>8, <4>1, <4>2, <4>3 DEF PutOwn, Dirty
        <4>4. CASE k # put.kind
            BY <2>3, <2>8, <3>2, <4>2, <4>4, Failed
        <4>5. QED
            BY <4>3, <4>4
      <3>3. CASE Fires
        <4>1. PICK j \in Kinds : DebounceFires(j)
            BY <3>3 DEF Fires
        <4>2. T(k)
            BY <2>4, <2>8, <4>1, Fired
        <4>3. CASE k = j
          <5>1. Dirty(k)
              BY <2>1, <2>2, <4>1, <4>3, Fired DEF QueueOwn
          <5>2. QED
              BY <2>8, <4>2, <5>1 DEF Dirty
        <4>4. CASE k # j
            BY <2>3, <2>8, <4>1, <4>2, <4>4, Fired
        <4>5. QED
            BY <4>3, <4>4
      <3>4. CASE CustomerBlur
        <4>1. T(k)
            BY <2>4, <2>8, <3>4, Blurred
        <4>2. CASE k = "cust"
            BY <2>8, <3>4, <4>1, <4>2, Blurred DEF Dirty
        <4>3. CASE k = "rows"
            BY <2>3, <2>8, <3>4, <4>1, <4>3, Blurred
        <4>4. QED
            BY <4>2, <4>3 DEF Kinds
      <3>5. CASE LoopSends
          BY <2>3, <2>4, <2>8, <3>5, Sent
      <3>6. CASE Starts \/ FlushGoesOn
        <4>1. T(k)
            BY <2>4, <2>8, <3>6, QueueFlushed
        <4>2. CASE queue'[k] \in {NoPayload, queue[k]}
            BY <2>3, <2>8, <4>1, <4>2
        <4>3. CASE queue'[k] \notin {NoPayload, queue[k]}
          <5>1. Dirty(k)
              BY <3>6, <4>3, FlushesShown DEF Kinds
          <5>2. QED
              BY <2>8, <4>1, <5>1 DEF Dirty
        <4>4. QED
            BY <4>2, <4>3
      <3>7. CASE Edits \/ RowsAcknowledged \/ CustomerAcknowledged
          BY <2>5, <2>6, <2>7, <3>7
      <3>8. QED
          BY <1>3, <3>1, <3>2, <3>3, <3>4, <3>5, <3>6, <3>7, QueueGoes
    <2>9. QED
        BY <1>3, <2>5, <2>6, <2>7, <2>8, FormGoes
  <1>4. QED
      BY <1>2, <1>3

\* A GET under way was sent earlier, or now, with what is pending noted.
ReadOn == /\ refresh.phase # "none" /\ refresh'.sess = refresh.sess
          /\ refresh'.pend = refresh.pend /\ (refresh'.fresh => refresh.fresh)
ReadNew == refresh.phase = "none" /\ refresh'.phase = "sent" /\ refresh'.pend = PutPending

\* The effect that reads the workspace starts a GET unless one is under way.
LEMMA ReadStarts ==
    ASSUME IInv, NEW s, refresh' = Reading(s, refresh)
    PROVE  ReadOn \/ (ReadNew /\ refresh'.sess = s)
  <1>1. CASE refresh.phase = "none"
    <2>1. refresh' = [NoRefresh EXCEPT !.phase = "sent", !.sess = s, !.fresh = TRUE,
                                       !.pend = PutPending]
        BY <1>1 DEF Reading
    <2>2. refresh'.phase = "sent" /\ refresh'.sess = s /\ refresh'.pend = PutPending
        BY <2>1 DEF NoRefresh
    <2>3. QED
        BY <1>1, <2>2 DEF ReadNew
  <1>2. CASE refresh.phase # "none"
      BY <1>2 DEF Reading, ReadOn
  <1>3. QED
      BY <1>1, <1>2

\* A GET goes on, or a new one is sent for the workspace shown.
LEMMA ReadGoes ==
    ASSUME IInv, SaveInv, CarefulStep, refresh'.phase # "none", ~Replaces
    PROVE  ReadOn \/ (ReadNew /\ (ArtifactSignal \/ (FlowActs /\ FlowSwitches /\ session # NoSession)))
  <1> USE DEF CarefulStep
  <1>1. refresh \in RefreshRecords /\ NoRefresh.phase = "none"
      BY Records DEF NoRefresh
  <1>2. CASE UNCHANGED refresh
      BY <1>2 DEF ReadOn
  <1>3. CASE Edits
    <2>1. refresh' = [refresh EXCEPT !.fresh = FALSE]
        BY <1>3, Typed DEF Edits
    <2>2. refresh'.phase = refresh.phase /\ refresh'.sess = refresh.sess
          /\ refresh'.pend = refresh.pend /\ refresh'.fresh = FALSE
        BY <1>1, <2>1 DEF RefreshRecords
    <2>3. QED
        BY <2>2 DEF ReadOn
  <1>4. CASE PutAnswered
    <2>1. CASE CustomerAcknowledged
      <3>1. refresh' = Overtaken(form')
          BY <2>1, CustomerApplied
      <3>2. refresh'.phase = refresh.phase /\ refresh'.sess = refresh.sess
            /\ refresh'.pend = refresh.pend /\ (refresh'.fresh => refresh.fresh)
          BY <1>1, <3>1 DEF RefreshRecords, Overtaken
      <3>3. QED
          BY <3>2 DEF ReadOn
    <2>2. CASE ~CustomerAcknowledged
        BY <1>2, <1>4, <2>2 DEF PutAnswered, PutIgnored, PutOvertaken, RowsAcknowledged, PutFailed
    <2>3. QED
        BY <2>1, <2>2
  <1>5. CASE CallAnswered
      BY <1>2, <1>5 DEF CallAnswered, CallDone, Replaces
  <1>6. CASE RefreshAnswered
      BY <1>1, <1>6 DEF RefreshAnswered
  <1>7. CASE FlowActs
    <2>1. CASE FlowSwitches /\ session # NoSession
        BY <1>7, <2>1, ReadStarts DEF FlowSwitches
    <2>2. CASE ~(FlowSwitches /\ session # NoSession)
        BY <1>2, <1>7, <2>2 DEF FlowActs, FlowPauses, FlowGivesUp, FlowPosts, FlowSwitches
    <2>3. QED
        BY <2>1, <2>2
  <1>8. CASE ArtifactSignal
      BY <1>8, ReadStarts DEF ArtifactSignal
  <1>9. CASE ServerReads
    <2>1. UNCHANGED <<refresh.sess, refresh.pend, refresh.fresh>> /\ refresh.phase = "sent"
        BY <1>9, Read
    <2>2. QED
        BY <2>1 DEF ReadOn
  <1>10. CASE NetworkFails
      BY <1>1, <1>2, <1>10 DEF NetworkFails
  <1>11. QED
      BY <1>2, <1>3, <1>4, <1>5, <1>6, <1>7, <1>8, <1>9, <1>10, Frames DEF ReadFrame, Replaces

\* A GET under way loses its use when something becomes unsaved.
LEMMA QuietReadKept ==
    ASSUME IInv, SaveInv, CarefulStep
    PROVE  QuietRead'
  <1> USE DEF CarefulStep
  <1>1. SUFFICES ASSUME Shown', refresh'.phase # "none", Quiet'
                 PROVE  Clean' /\ ~PutPending'
      BY DEF QuietRead
  <1>2. CASE Replaces
      BY <1>1, <1>2, Replaced DEF PutPending
  <1>3. CASE ~Replaces
    <2>1. Shown /\ session' = session
        BY <1>1, <1>3, ShownStays DEF Replaces
    <2>2. ASSUME Clean, ~PutPending, ~Edits
          PROVE  Clean' /\ ~PutPending'
      <3>1. UNCHANGED <<form, acked>>
          BY <1>3, <2>2, RowsTaken, CustomerTaken, FormGoes DEF PutPending
      <3>2. ~LoopSends \/ put' = NoPut
        <4>1. ASSUME LoopSends, put' # NoPut
              PROVE  FALSE
          <5>1. /\ Head(chain) \in Kinds /\ queue[Head(chain)] # NoPayload
                /\ queue[Head(chain)] # acked[Head(chain)]
              BY <4>1, Sent
          <5>2. Dirty(Head(chain))
              BY <2>1, <5>1 DEF SaveInv, TurnsInv, QueueOwn
          <5>3. QED
              BY <2>2, <5>1, <5>2 DEF Clean
        <4>2. QED
            BY <4>1
      <3>3. ~PutPending'
        <4>1. NoPut.phase = "none"
            BY DEF NoPut
        <4>2. QED
            BY <2>2, <3>2, <4>1, PutsUsed, PutTravels, Frames DEF PutFrame, PutPending
      <3>4. QED
          BY <2>2, <3>1, <3>3 DEF Clean, Dirty
    <2>3. CASE ReadOn
      <3>1. Quiet
          BY <1>1, <2>1, <2>3 DEF ReadOn, Quiet
      <3>2. Clean /\ ~PutPending
          BY <2>1, <2>3, <3>1 DEF ReadOn, SaveInv, TurnsInv, QuietRead
      <3>3. ~Edits
        <4>1. ASSUME Edits
              PROVE  FALSE
          <5>1. refresh' = [refresh EXCEPT !.fresh = FALSE] /\ refresh \in RefreshRecords
              BY <4>1, Typed, Records DEF Edits
          <5>2. refresh'.fresh = FALSE
              BY <5>1 DEF RefreshRecords
          <5>3. QED
              BY <1>1, <5>2 DEF Quiet
        <4>2. QED
            BY <4>1
      <3>4. QED
          BY <2>2, <3>2, <3>3
    <2>4. CASE ReadNew /\ ArtifactSignal
        BY <2>4 DEF ArtifactSignal, Pending, PutPending, Clean, Dirty, formVars
    <2>5. CASE ReadNew /\ FlowActs /\ FlowSwitches
      <3>1. ~PutPending
          BY <1>1, <2>5 DEF ReadNew, Quiet
      <3>2. flow.phase = "flushed" /\ flow.op = "view" /\ ~FlowPending
          BY <2>5 DEF FlowSwitches
      <3>3. flow.sess = session /\ flow.cust = form["cust"]
          BY <3>2 DEF SaveInv, TurnsInv, FlowOwn
      <3>4. Clean
        <4>1. flow.terms = form["rows"].held
            BY <3>2 DEF SaveInv, TurnsInv, FlowOwn
        <4>2. form["rows"] \in Values
            BY DEF IInv, FormTypeOK, Kinds
        <4>3. Sections(flow) = form["rows"]
            BY <4>1, <4>2 DEF Sections, Half, Values, Halves
        <4>4. QED
            BY <3>2, <3>3, <4>3 DEF FlowPending, Clean, Dirty, Kinds
      <3>5. QED
          BY <2>5, <3>1, <3>4 DEF FlowActs, PutPending, Clean, Dirty
    <2>6. QED
        BY <1>1, <1>3, <2>3, <2>4, <2>5, ReadGoes
  <1>4. QED
      BY <1>2, <1>3

\* While a loop that a handler awaits is on the chain, or the handler is about
\* to go on, no read is used.
LEMMA FlowUnread ==
    ASSUME IInv, SaveInv, flow.phase \notin {"none", "pause"}
    PROVE  ~(RefreshAnswered /\ RefreshApplies)
  <1>1. SUFFICES ASSUME RefreshAnswered, RefreshApplies
                 PROVE  FALSE
      OBVIOUS
  <1>2. ~Micro /\ \A k \in Kinds : ~Dirty(k)
      BY <1>1 DEF RefreshAnswered, RefreshApplies, RefreshUseful
  <1>3. Shown
      BY DEF SaveInv, TurnsInv, FlowOwn
  <1>4. ~PutPending
      BY <1>2, <1>3, PutTurn DEF SaveInv, TurnsInv, PutOwn
  <1>5. chain = <<>>
      BY <1>2, <1>4 DEF Micro
  <1>6. flow.phase \in Kinds
      BY <1>2, Records DEF Micro, FlowRecords, Kinds
  <1>7. PICK i \in DOMAIN chain : chain[i] = flow.phase
      BY <1>6 DEF SaveInv, TurnsInv, FlowOwn, OnChain, Member
  <1>8. QED
      BY <1>5, <1>7

\* Under a handler the customer and the terms shown stay, and while it waits for
\* the rows nothing makes the customer unsaved.
LEMMA FlowForm ==
    ASSUME IInv, SaveInv, CarefulStep, flow.phase # "none"
    PROVE  /\ form'["cust"] = form["cust"] /\ form'["rows"].held = form["rows"].held
           /\ flow.phase \in {"rows", "rowsDone"} => acked'["cust"] = acked["cust"]
  <1> USE DEF CarefulStep
  <1>1. ~Edits /\ Shown /\ ~Opens /\ ~CallAnswered /\ call.phase = "none"
      BY FlowStands
  <1>2. CASE UNCHANGED <<form, acked>>
      BY <1>2
  <1>3. CASE RowsAcknowledged
      BY <1>3, RowsTaken
  <1>4. CASE CustomerAcknowledged
    <2>1. form'["cust"] = form["cust"] /\ PutPending /\ put.kind = "cust"
        BY <1>4, CustomerApplied, CustomerTaken DEF PutPending
    <2>2. Dirty("cust")
        BY <1>1, <2>1 DEF SaveInv, TurnsInv, PutOwn
    <2>3. form'["rows"] = form["rows"]
        BY <1>1, <1>4, CustomerApplied, CustomerTaken DEF SaveInv, DataInv, PutData
    <2>4. QED
        BY <2>1, <2>2, <2>3 DEF SaveInv, TurnsInv, FlowOwn
  <1>5. CASE RefreshAnswered /\ RefreshApplies
    <2>1. flow.phase = "pause"
        BY <1>5, FlowUnread
    <2>2. flow.op = "finalize" /\ flow.again
        BY <2>1 DEF SaveInv, TurnsInv, FlowOwn
    <2>3. refresh.phase = "ok" /\ Quiet /\ Clean
        BY <1>5 DEF RefreshAnswered, RefreshApplies, RefreshUseful, Quiet, Clean
    <2>4. refresh.cust = form["cust"]
        BY <2>1, <2>2, <2>3 DEF SaveInv, TurnsInv, Asked
    <2>5. form'["rows"].held = form["rows"].held
        BY <1>5, <2>1 DEF Rests
    <2>6. QED
        BY <1>5, <2>1, <2>4, <2>5, ReadApplied
  <1>6. CASE CallCloses
      BY <1>1, <1>6, Closed
  <1>7. QED
      BY <1>1, <1>2, <1>3, <1>4, <1>5, <1>6, FormGoes DEF Replaces

\* While the detach handler is about to post, nothing is queued or sent.
LEMMA DetachStands ==
    ASSUME IInv, SaveInv, CarefulStep, flow.phase = "flushed", flow.op = "detach"
    PROVE  ~PutPending' /\ ~Queued' /\ Clean'
  <1> USE DEF CarefulStep
  <1>1. ~PutPending /\ ~Queued /\ Clean /\ Micro
      BY DEF SaveInv, TurnsInv, FlowOwn, Micro
  <1>2. ~Edits /\ ~Starts /\ ~Opens /\ ~CallAnswered /\ call.phase = "none"
      BY FlowStands
  <1>3. ~Replaces
      BY <1>2, FlowUnread, Closed DEF Replaces
  <1>4. ~PutAnswered /\ ~Fires /\ ~CustomerBlur
      BY <1>1 DEF PutAnswered, Fires, DebounceFires, CustomerBlur
  <1>5. ~LoopSends /\ ~FlushGoesOn
      BY <1>1, Sent, WentOn DEF Queued
  <1>6. UNCHANGED <<form, acked, queue>>
      BY <1>2, <1>3, <1>4, <1>5, FormGoes, QueueGoes
  <1>7. ~PutPending'
      BY <1>1, <1>4, <1>5, PutTravels, Frames DEF PutFrame, PutPending
  <1>8. QED
      BY <1>1, <1>6, <1>7 DEF Queued, Clean, Dirty

\* A handler in its flush stays with its workspace and its customer.
LEMMA FlowOwnKept ==
    ASSUME IInv, SaveInv, CarefulStep
    PROVE  FlowOwn'
  <1> USE DEF CarefulStep
  <1> DEFINE Goal == /\ Shown' /\ flow'.sess = session'
                     /\ flow'.op # "shortcut"
                     /\ flow'.cust = form'["cust"] /\ flow'.terms = form'["rows"].held
                     /\ flow'.phase \in {"rows", "rowsDone"} =>
                            ~Dirty("cust")' /\ flow'.cust = acked'["cust"]
                     /\ flow'.phase = "pause" => flow'.op = "finalize" /\ flow'.again
                     /\ flow'.phase \in Kinds => Member(chain', flow'.phase)
                     /\ flow'.op = "detach" =>
                            flow'.phase = "flushed" /\ ~PutPending' /\ ~Queued' /\ Clean'
  <1>1. SUFFICES ASSUME flow'.phase # "none"
                 PROVE  Goal
      BY DEF FlowOwn, OnChain
  <1>2. /\ FlowOwn /\ OneDirty /\ chain \in Seq(Kinds)
        /\ "rows" \in Kinds /\ "cust" \in Kinds
      BY ChainDistinct DEF SaveInv, TurnsInv, Kinds
  <1>3. CASE flow.phase # "none"
    <2>1. Shown' /\ session' = session /\ flow.sess = session
        BY <1>2, <1>3, FlowStands DEF Shown, FlowOwn
    <2>2. flow.op # "shortcut" /\ flow.cust = form'["cust"] /\ flow.terms = form'["rows"].held
        BY <1>2, <1>3, FlowForm DEF FlowOwn
    <2>3. flow.phase \in {"rows", "rowsDone"} => ~Dirty("cust")' /\ flow.cust = acked'["cust"]
        BY <1>2, <1>3, FlowForm DEF FlowOwn, Dirty
    <2>4. CASE Captured(flow) /\ flow'.phase = flow.phase
               /\ ~(flow.phase \in Kinds /\ (LoopEnds \/ PutFailed) /\ flow.phase = Head(chain))
      <3>1. flow'.phase \in Kinds => Member(chain', flow'.phase)
          BY <1>2, <1>3, <2>4, ChainKept DEF FlowOwn, OnChain
      <3>2. flow'.op = "detach" => flow'.phase = "flushed" /\ ~PutPending' /\ ~Queued' /\ Clean'
          BY <1>2, <1>3, <2>4, DetachStands DEF FlowOwn, Captured
      <3>3. QED
          BY <1>2, <1>3, <2>1, <2>2, <2>3, <2>4, <3>1, <3>2 DEF Captured, FlowOwn
    <2>5. ASSUME LoopEnds \/ PutFailed
          PROVE  Goal
      <3>1. PICK k \in Kinds : /\ k = Head(chain) /\ Captured(flow)
                               /\ flow'.phase = IF flow.phase = k
                                                THEN (IF k = "rows" THEN "rowsDone" ELSE "flushed")
                                                ELSE flow.phase
        <4>1. CASE LoopEnds
            BY <4>1, Ended, FlowSettled
        <4>2. CASE PutFailed
          <5>1. PutPending
              BY <4>2, Failed DEF PutPending
          <5>2. QED
              BY <4>2, <5>1, Failed, FlowSettled, PutTurn
        <4>3. QED
            BY <2>5, <4>1, <4>2
      <3>2. CASE flow.phase = k
        <4>1. flow'.phase \in {"rowsDone", "flushed"} /\ (flow'.phase = "rowsDone" => flow.phase = "rows")
            BY <3>1, <3>2
        <4>2. flow'.op # "detach"
            BY <1>2, <1>3, <3>1, <3>2 DEF FlowOwn, Captured, Kinds
        <4>3. QED
            BY <2>1, <2>2, <2>3, <3>1, <4>1, <4>2 DEF Captured, Kinds
      <3>3. CASE flow.phase # k
          BY <2>4, <3>1, <3>3
      <3>4. QED
          BY <3>2, <3>3
    <2>6. CASE flow' = flow
        BY <2>4, <2>5, <2>6 DEF Captured
    <2>7. CASE FlowActs /\ FlowPauses /\ flow' = [flow EXCEPT !.phase = "pause", !.again = TRUE]
      <3>1. /\ flow'.phase = "pause" /\ flow'.again /\ flow'.op = "finalize"
            /\ flow'.sess = flow.sess /\ flow'.cust = flow.cust /\ flow'.terms = flow.terms
            /\ flow.op = "finalize"
          BY <2>7, Records DEF FlowPauses, FlowRecords
      <3>2. QED
          BY <2>1, <2>2, <3>1 DEF Kinds
    <2>8. CASE FlushGoesOn
      <3>1. CASE FlowGoesOn /\ flow.phase = "rowsDone" /\ FlushCustomer(flow, queue, chain)
        <4>1. flow.cust = acked["cust"] /\ flow.op # "detach"
            BY <1>2, <1>3, <3>1 DEF FlowOwn
        <4>2. Captured(flow) /\ flow'.phase = "flushed"
            BY <2>8, <3>1, <4>1, WentOn, CustomerFlushed DEF FlushesCustomer, FlushesNothing
        <4>3. QED
            BY <2>1, <2>2, <4>1, <4>2 DEF Captured, Kinds
      <3>2. CASE PauseEnds /\ flow.phase = "pause" /\ Flush(flow, queue)
        <4>1. /\ flow.op = "finalize" /\ flow.cust = form["cust"] /\ flow.terms = form["rows"].held
              /\ Sections(flow) = form["rows"]
            BY <1>2, <1>3, <3>2, OwnShown DEF FlowOwn
        <4>2. Captured(flow) /\ UNCHANGED <<form, acked>>
            BY <2>8, <3>2, WentOn, Flushed
        <4>3. CASE FlushesRows(flow, queue)
          <5>1. ~Dirty("cust") /\ flow'.phase = "rows" /\ chain' = Enqueued(chain, "rows")
              BY <1>2, <2>1, <4>1, <4>3 DEF FlushesRows, OneDirty, Shown, Dirty
          <5>2. QED
              BY <1>2, <2>1, <4>1, <4>2, <5>1, EnqueuedOn DEF Captured, Dirty
        <4>4. CASE FlushesCustomer(flow, queue)
          <5>1. flow'.phase = "cust" /\ chain' = Enqueued(chain, "cust")
              BY <4>4 DEF FlushesCustomer
          <5>2. QED
              BY <1>2, <2>1, <4>1, <4>2, <5>1, EnqueuedOn DEF Captured
        <4>5. CASE FlushesNothing(flow, queue)
            BY <2>1, <4>1, <4>2, <4>5 DEF FlushesNothing, Captured, Kinds
        <4>6. QED
            BY <2>8, <3>2, <4>3, <4>4, <4>5, WentOn, Flushed
      <3>3. QED
          BY <2>8, <3>1, <3>2, WentOn
    <2>9. CASE flow' = NoFlow
        BY <1>1, <2>9 DEF NoFlow
    <2>10. QED
        BY <1>3, <2>5, <2>6, <2>7, <2>8, <2>9, FlowGoes, FlowStands
  <1>4. CASE flow.phase = "none"
    <2>1. PICK op \in Flows : FlowStart(op)
        BY <1>1, <1>4, FlowMoves
    <2>2. PICK fl \in FlowRecords, q \in [Kinds -> Payloads] :
                /\ Flush(fl, q)
                /\ fl.op = op /\ fl.sess = session /\ fl.again = FALSE
                /\ fl.cust = IF op = "shortcut" THEN shortcut.cust ELSE form["cust"]
                /\ fl.terms = IF op = "shortcut" THEN shortcut.terms ELSE form["rows"].held
                /\ op # "shortcut" => fl.pend = PutPending
                /\ q["rows"] = queue["rows"]
                /\ q["cust"] = IF op = "detach" THEN NoPayload ELSE queue["cust"]
        BY <2>1, Started
    <2>3. Shown /\ UNCHANGED <<session, form, acked, put>> /\ Captured(fl)
        BY <2>1, <2>2, Started, Flushed DEF Shown
    <2>4. Shown' /\ flow'.sess = session' /\ flow'.op = op /\ flow'.cust = fl.cust
          /\ flow'.terms = fl.terms
        BY <2>2, <2>3 DEF Captured, Shown
    <2>5. /\ flow'.op # "shortcut" /\ flow'.cust = form'["cust"]
          /\ flow'.terms = form'["rows"].held
          /\ Sections(fl) = form["rows"] /\ fl.cust = form["cust"]
        BY <2>1, <2>2, <2>3, <2>4, StartedShown
    <2>6. ASSUME op = "detach"
          PROVE  FlushesNothing(fl, q) /\ ~PutPending' /\ ~Queued' /\ Clean'
      <3>1. ~Pending
          BY <2>1, <2>6, Started DEF Careful
      <3>2. ~PutPending /\ ~Queued /\ Clean
          BY <3>1 DEF Pending, Clean
      <3>3. FlushesNothing(fl, q)
          BY <1>2, <2>2, <2>5, <2>6, <3>2, Flushed DEF FlushesRows, FlushesCustomer, Clean, Dirty
      <3>4. \A k \in Kinds : queue'[k] = NoPayload
          BY <2>2, <2>6, <3>2, <3>3 DEF FlushesNothing, Queued, Kinds
      <3>5. QED
          BY <2>3, <3>2, <3>3, <3>4 DEF PutPending, Clean, Dirty, Queued
    <2>7. CASE FlushesRows(fl, q)
      <3>1. ~Dirty("cust") /\ flow'.phase = "rows" /\ chain' = Enqueued(chain, "rows")
          BY <1>2, <2>3, <2>5, <2>7 DEF FlushesRows, OneDirty, Dirty
      <3>2. fl.cust = acked["cust"]
          BY <2>5, <3>1 DEF Dirty
      <3>3. op # "detach"
          BY <2>6, <3>1 DEF FlushesNothing
      <3>4. Member(chain', "rows")
          BY <1>2, <3>1, EnqueuedOn
      <3>5. QED
          BY <2>3, <2>4, <2>5, <3>1, <3>2, <3>3, <3>4 DEF Dirty
    <2>8. CASE FlushesCustomer(fl, q)
      <3>1. flow'.phase = "cust" /\ chain' = Enqueued(chain, "cust")
          BY <2>8 DEF FlushesCustomer
      <3>2. op # "detach"
          BY <2>6, <3>1 DEF FlushesNothing
      <3>3. Member(chain', "cust")
          BY <1>2, <3>1, EnqueuedOn
      <3>4. QED
          BY <2>4, <2>5, <3>1, <3>2, <3>3
    <2>9. CASE FlushesNothing(fl, q)
      <3>1. flow'.phase = "flushed"
          BY <2>9 DEF FlushesNothing
      <3>2. QED
          BY <2>4, <2>5, <2>6, <3>1 DEF Kinds
    <2>10. QED
        BY <2>2, <2>7, <2>8, <2>9, Flushed
  <1>5. QED
      BY <1>3, <1>4

\* Over a clean form nothing comes to be queued, and the customer the server
\* has stays.
LEMMA CleanQueue ==
    ASSUME IInv, SaveInv, CarefulStep, flow.phase # "none", Clean, Queued'
    PROVE  Queued
  <1> USE DEF CarefulStep
  <1>1. Shown /\ ~Edits /\ ~Starts
      BY FlowStands
  <1>2. ~PutPending
      BY <1>1, PutTurn DEF SaveInv, TurnsInv, PutOwn, Clean
  <1>3. PICK k \in Kinds : queue'[k] # NoPayload
      BY DEF Queued
  <1>4. queue'[k] = queue[k]
    <2>1. CASE UNCHANGED <<queue, timer>>
        BY <2>1
    <2>2. CASE Replaces
        BY <1>3, <2>2, Replaced
    <2>3. CASE RowsAcknowledged \/ CustomerAcknowledged \/ PutFailed
        BY <1>2, <2>3, RowsTaken, CustomerTaken, Failed DEF PutPending
    <2>4. CASE Fires
        BY <1>1, <2>4, Fired DEF Fires, SaveInv, TurnsInv, QueueOwn, Clean
    <2>5. CASE CustomerBlur
        BY <2>5, Blurred DEF Clean, Kinds
    <2>6. CASE LoopSends
        BY <1>3, <2>6, Sent
    <2>7. CASE FlushGoesOn
        BY <1>3, <2>7, FlushesShown DEF Clean, Kinds
    <2>8. QED
        BY <1>1, <2>1, <2>2, <2>3, <2>4, <2>5, <2>6, <2>7, QueueGoes
  <1>5. QED
      BY <1>3, <1>4 DEF Queued

\* The customer that the server has changes by a PUT or by a selection.
LEMMA CustomerStays ==
    ASSUME IInv, [Next]_vars, NEW s \in Sessions,
           put.phase # "sent", ~(call.phase = "sent" /\ Picks)
    PROVE  server'[s].cust = server[s].cust
  <1>1. CASE server' = server
      BY <1>1
  <1>2. CASE ServerCloses
      BY <1>2, ClosesOnly
  <1>3. CASE \E t \in Sessions : OtherSurfaceSaves(t)
      BY <1>3, OtherOnce DEF Same
  <1>4. ~ServerSaves("ok") /\ ~ServerSaves("lost")
      BY DEF ServerSaves
  <1>5. ~(call.phase = "sent" /\ ServerSetsCustomer)
      BY SetsOnce DEF Picks
  <1>6. QED
      BY <1>1, <1>2, <1>3, <1>4, <1>5, WritersOnly

\* A finalization that flushes again knows the customer the server has.
LEMMA AskedKept ==
    ASSUME IInv, SaveInv, CarefulStep
    PROVE  Asked'
  <1> USE DEF CarefulStep
  <1> DEFINE Reason == flow.pend \/ flow.again \/ Queued
  <1>1. SUFFICES ASSUME flow'.phase # "none", flow'.op = "finalize", Reason', Clean'
                 PROVE  /\ server'[session'].cust = form'["cust"]
                        /\ refresh'.phase = "ok" /\ Quiet' => refresh'.cust = form'["cust"]
      BY DEF Asked
  <1>2. /\ Asked /\ PutOwn /\ QueueOwn /\ FlowOwn /\ QuietRead
      BY DEF SaveInv, TurnsInv
  <1>3. CASE flow.phase = "none"
    <2>1. PICK op \in Flows : FlowStart(op)
        BY <1>1, <1>3, FlowMoves
    <2>2. PICK fl \in FlowRecords, q \in [Kinds -> Payloads] :
                /\ Flush(fl, q)
                /\ fl.op = op /\ fl.sess = session /\ fl.again = FALSE
                /\ fl.cust = IF op = "shortcut" THEN shortcut.cust ELSE form["cust"]
                /\ fl.terms = IF op = "shortcut" THEN shortcut.terms ELSE form["rows"].held
                /\ op # "shortcut" => fl.pend = PutPending
                /\ q["rows"] = queue["rows"]
                /\ q["cust"] = IF op = "detach" THEN NoPayload ELSE queue["cust"]
        BY <2>1, Started
    <2>3. Captured(fl) /\ op = "finalize" /\ UNCHANGED <<form, acked>> /\ Shown /\ ~Micro
        BY <1>1, <2>1, <2>2, Started, Flushed DEF Captured, Shown
    <2>4. Clean
        BY <1>1, <2>3 DEF Clean, Dirty
    <2>5. ~PutPending
        BY <1>2, <2>3, <2>4, PutTurn DEF PutOwn, Clean
    <2>6. FlushesNothing(fl, q)
        BY <2>1, <2>2, <2>3, <2>4, Flushed, StartedShown
        DEF FlushesRows, FlushesCustomer, Clean, Dirty, Kinds
    <2>7. queue'["rows"] = queue["rows"] /\ queue'["cust"] = queue["cust"]
        BY <2>2, <2>3, <2>6 DEF FlushesNothing
    <2>8. Queued'
        BY <1>1, <2>2, <2>3, <2>5 DEF Captured
    <2>9. PICK k \in Kinds : queue[k] # NoPayload
        BY <2>7, <2>8 DEF Queued, Kinds
    <2>10. PICK i \in DOMAIN chain : chain[i] = k
        BY <1>2, <2>3, <2>4, <2>9 DEF QueueOwn, Clean, OnChain, Member
    <2>11. chain # <<>>
        BY <2>10
    <2>12. QED
        BY <2>3, <2>5, <2>11 DEF Micro
  <1>4. CASE flow.phase # "none"
    <2>1. /\ session' = session /\ Shown /\ call.phase = "none"
          /\ ~Opens /\ ~Edits /\ ~CallAnswered /\ ~Starts
        BY <1>4, FlowStands
    <2>2. form'["cust"] = form["cust"]
        BY <1>4, FlowForm
    <2>3. /\ flow.op = "finalize" /\ flow'.pend = flow.pend
          /\ flow'.again = flow.again \/ FlowPauses
      <3>1. CASE FlushGoesOn
          BY <1>1, <3>1, WentOn, Flushed, CustomerFlushed DEF Captured
      <3>2. CASE FlowActs /\ FlowPauses /\ flow' = [flow EXCEPT !.phase = "pause", !.again = TRUE]
          BY <1>1, <3>2, Records DEF FlowRecords
      <3>3. CASE flow' = NoFlow
          BY <1>1, <3>3 DEF NoFlow
      <3>4. CASE flow' = flow \/ Captured(flow)
          BY <1>1, <3>4 DEF Captured
      <3>5. QED
          BY <2>1, <3>1, <3>2, <3>3, <3>4, FlowGoes
    <2>4. session \in Sessions
        BY <2>1, Records DEF Shown
    <2>5. CASE Clean
      <3>1. Reason
        <4>1. CASE Queued'
            BY <1>4, <2>5, <4>1, CleanQueue
        <4>2. CASE FlowPauses
          <5>1. flow.pend \/ Queued \/ Dirty("rows") \/ flow.cust # acked["cust"]
              BY <1>4, <4>2, OwnShown DEF FlowPauses, FlowPending, Dirty
          <5>2. flow.cust = acked["cust"] /\ ~Dirty("rows")
              BY <1>2, <1>4, <2>3, <2>5 DEF FlowOwn, Clean, Dirty, Kinds
          <5>3. QED
              BY <5>1, <5>2
        <4>3. QED
            BY <1>1, <2>3, <4>1, <4>2
      <3>2. /\ server[session].cust = form["cust"]
            /\ refresh.phase = "ok" /\ Quiet => refresh.cust = form["cust"]
          BY <1>2, <1>4, <2>3, <2>5, <3>1 DEF Asked
      <3>3. ~PutPending
          BY <1>2, <2>1, <2>5, PutTurn DEF PutOwn, Clean
      <3>4. server'[session].cust = server[session].cust
          BY <2>1, <2>4, <3>3, CustomerStays DEF PutPending
      <3>5. ASSUME refresh'.phase = "ok", Quiet'
            PROVE  refresh'.cust = form'["cust"]
        <4>1. CASE ServerReads
          <5>1. refresh.sess = session /\ refresh'.cust = server[refresh.sess].cust
              BY <2>1, <3>5, <4>1, Read DEF Quiet
          <5>2. QED
              BY <2>2, <3>2, <5>1
        <4>2. CASE refresh.phase = "ok"
                   /\ UNCHANGED <<refresh.sess, refresh.rows, refresh.cust, refresh.rev, refresh.pend>>
                   /\ (refresh'.fresh => refresh.fresh)
            BY <2>1, <2>2, <3>2, <3>5, <4>2 DEF Quiet
        <4>3. QED
            BY <3>5, <4>1, <4>2, ReadMoves
      <3>6. QED
          BY <2>1, <2>2, <3>2, <3>4, <3>5
    <2>6. CASE ~Clean
      <3>1. ~Replaces
        <4>1. ~CallCloses
            BY <2>1, Closed
        <4>2. ~RefreshApplies
            BY <2>6 DEF RefreshApplies, RefreshUseful, Clean
        <4>3. QED
            BY <2>1, <4>1, <4>2 DEF Replaces
      <3>2. PutAnswered /\ (RowsAcknowledged \/ CustomerAcknowledged)
          BY <1>1, <2>1, <2>6, <3>1, FormGoes DEF Clean, Dirty
      <3>3. /\ put.phase = "ok" /\ server' = server
            /\ put.kind = "cust" => form["cust"] = put.payload
            /\ put.kind \in {"rows", "cust"}
          BY <3>2, RowsTaken, CustomerTaken
      <3>4. server'[session'].cust = form'["cust"]
          BY <2>1, <2>2, <3>3 DEF SaveInv, DataInv, PutData
      <3>5. ~(refresh'.phase = "ok" /\ Quiet')
        <4>1. SUFFICES ASSUME refresh'.phase = "ok", Quiet'
                       PROVE  FALSE
            OBVIOUS
        <4>2. ReadOn
            BY <3>1, <4>1, ReadGoes DEF ReadNew
        <4>3. refresh.phase # "none" /\ Quiet
            BY <2>1, <4>1, <4>2 DEF ReadOn, Quiet
        <4>4. QED
            BY <1>2, <2>1, <2>6, <4>3 DEF QuietRead
      <3>6. QED
          BY <3>4, <3>5
    <2>7. QED
        BY <2>5, <2>6
  <1>5. QED
      BY <1>3, <1>4

\* A revision that has not moved on still says what the workspace holds.
LEMMA SameRevision ==
    ASSUME IInv, [Next]_vars, NEW s \in Sessions, NEW r \in Nat, r <= server[s].rev,
           r = server'[s].rev
    PROVE  /\ r = server[s].rev
           /\ server'[s].rows = server[s].rows /\ server'[s].cust = server[s].cust
  <1>1. server[s].rev \in Nat /\ server'[s].rev \in Nat
      BY NextKeeps, Records DEF Workspaces, IInv, BookTypeOK
  <1>2. QED
      BY <1>1, ServerMoves

\* No step makes the answer to a selection wrong under its revision.
LEMMA CallDataKept ==
    ASSUME IInv, SaveInv, CarefulStep
    PROVE  CallData'
  <1> USE DEF CarefulStep
  <1>1. SUFFICES ASSUME call'.phase = "ok", Picks', call'.rev = server'[call'.sess].rev
                 PROVE  /\ call'.rows = server'[call'.sess].rows
                        /\ call'.cust = server'[call'.sess].cust
      BY DEF CallData
  <1>2. CASE call' = call
    <2>1. call.sess \in Sessions /\ call.rev \in Nat /\ call.rev <= server[call.sess].rev
        BY <1>1, <1>2, Records DEF IInv, HandlerOK, KnownSessions, CallRecords, SaveInv, BoundInv,
                                   CallBound, Picks
    <2>2. QED
        BY <1>1, <1>2, <2>1, SameRevision DEF SaveInv, DataInv, CallData, Picks
  <1>3. CASE ServerSetsCustomer
      BY <1>3, SetsOnce, Records DEF CallRecords
  <1>4. ~ServerCloses
      BY <1>1, ClosesOnly, Records DEF Picks, CallRecords
  <1>5. QED
      BY <1>1, <1>2, <1>3, <1>4, CallMoves DEF Posted

\* Nor the answer to a GET.
LEMMA ReadDataKept ==
    ASSUME IInv, SaveInv, CarefulStep
    PROVE  ReadData'
  <1> USE DEF CarefulStep
  <1>1. SUFFICES ASSUME refresh'.phase = "ok", refresh'.rev = server'[refresh'.sess].rev
                 PROVE  /\ refresh'.rows = server'[refresh'.sess].rows
                        /\ refresh'.cust = server'[refresh'.sess].cust
      BY DEF ReadData
  <1>2. CASE ServerReads
      BY <1>2, Read
  <1>3. CASE refresh.phase = "ok"
             /\ UNCHANGED <<refresh.sess, refresh.rows, refresh.cust, refresh.rev, refresh.pend>>
    <2>1. refresh.sess \in Sessions /\ refresh.rev \in Nat /\ refresh.rev <= server[refresh.sess].rev
        BY <1>3, Records DEF RefreshRecords, SaveInv, BoundInv, ReadBound
    <2>2. QED
        BY <1>1, <1>3, <2>1, SameRevision DEF SaveInv, DataInv, ReadData
  <1>4. QED
      BY <1>1, <1>2, <1>3, ReadMoves

\* Nor the rows a finalization was posted with.
LEMMA PostDataKept ==
    ASSUME IInv, SaveInv, CarefulStep
    PROVE  PostData'
  <1> USE DEF CarefulStep
  <1>1. SUFFICES ASSUME call'.phase = "sent", call'.op = "finalize", call'.sess \in Sessions
                 PROVE  /\ call'.base <= server'[call'.sess].rev
                        /\ call'.base = server'[call'.sess].rev =>
                             call'.rows = server'[call'.sess].rows
      BY DEF PostData
  <1>2. CASE call' = call
    <2>1. call.base \in Nat /\ call.base <= server[call.sess].rev
        BY <1>1, <1>2, Records DEF CallRecords, SaveInv, DataInv, PostData
    <2>2. QED
        BY <1>1, <1>2, <2>1, SameRevision, StillBound DEF SaveInv, DataInv, PostData
  <1>3. CASE Posted
    <2>1. FlowActs /\ FlowPosts /\ flow.op # "detach" /\ call'.sess = session
          /\ call'.base = rev /\ call'.rows = form["rows"]
        BY <1>1, <1>3 DEF Posted
    <2>2. ~FlowPending /\ flow.phase = "flushed" /\ server' = server
        BY <2>1 DEF FlowPosts, FlowActs
    <2>3. ~Dirty("rows") /\ Shown
        BY <2>2, OwnShown DEF SaveInv, TurnsInv, FlowOwn, FlowPending, Dirty
    <2>4. rev <= server[session].rev
        BY <2>3 DEF SaveInv, BoundInv, RevBound, Shown
    <2>5. rev = server[session].rev => form["rows"] = server[session].rows
        BY <2>3 DEF SaveInv, DataInv, SavedMeansSaved, Shown, Kinds
    <2>6. QED
        BY <2>1, <2>2, <2>4, <2>5
  <1>4. ~ServerCloses /\ ~ServerSetsCustomer
      BY <1>1, ClosesOnly, SetsOnce, Records DEF CallRecords
  <1>5. QED
      BY <1>1, <1>2, <1>3, <1>4, CallMoves

\* Nor the answer to a PUT.
LEMMA PutDataKept ==
    ASSUME IInv, SaveInv, CarefulStep
    PROVE  PutData'
  <1> USE DEF CarefulStep
  <1>1. SUFFICES ASSUME Shown', put'.phase = "ok"
                 PROVE  /\ put'.kind = "cust" => /\ server'[session'].cust = put'.payload
                                                 /\ put'.rows = form'["rows"]
                        /\ put'.kind = "rows" => /\ put'.rows = put'.payload
                                                 /\ server'[session'].cust = form'["cust"]
                        /\ put'.rev = server'[session'].rev => server'[session'].rows = put'.rows
      BY DEF PutData
  <1>2. PutOwn /\ PutData /\ OneDirty /\ SavedMeansSaved
      BY DEF SaveInv, TurnsInv, DataInv
  <1>3. PutPending /\ PutPending'
      BY <1>1, PutMoves DEF PutPending, ServerSaves
  <1>4. ~Opens
      BY <1>3 DEF Opens, Rests, PutPending
  <1>5. Shown /\ session' = session /\ put.kind \in Kinds
      BY <1>1, <1>3, <1>4, ShownStays, PutTurn
  <1>6. session \in Sessions /\ put.sess = session
      BY <1>2, <1>3, <1>5, Records DEF Shown, PutOwn
  <1>7. ~(call.phase = "sent" /\ Picks)
      BY <1>3, <1>5 DEF SaveInv, TurnsInv, Alone
  <1>8. CASE put' = put
    <2>1. \A k \in Kinds \ {put.kind} : form'[k] = form[k]
        BY <1>1, <1>3, <1>5, PutStands, TypedAlone
    <2>2. put.phase = "ok"
        BY <1>1, <1>8
    <2>3. server'[session].cust = server[session].cust
        BY <1>6, <1>7, <2>2, CustomerStays
    <2>4. put.rev \in Nat /\ put.rev <= server[session].rev
        BY <1>6, <2>2, Records DEF PutRecords, SaveInv, BoundInv, PutBound
    <2>5. put.rev = server'[session].rev => server'[session].rows = put.rows
        BY <1>2, <1>5, <1>6, <2>2, <2>4, SameRevision DEF PutData
    <2>6. QED
        BY <1>2, <1>5, <1>8, <2>1, <2>2, <2>3, <2>5 DEF PutData, Kinds
  <1>9. CASE ServerSaves("ok")
    <2>1. /\ put.base = server[session].rev /\ put.base = rev
          /\ put'.rows = server'[session].rows /\ put'.kind = put.kind /\ put'.payload = put.payload
      <3>1. /\ put.base = server[put.sess].rev
            /\ put' = [put EXCEPT !.phase = "ok", !.rows = server'[put.sess].rows,
                                  !.rev = server'[put.sess].rev]
          BY <1>9, SavesOnce
      <3>2. put'.rows = server'[put.sess].rows /\ put'.kind = put.kind /\ put'.payload = put.payload
          BY <3>1, Records DEF PutRecords
      <3>3. put.base = rev
          BY <1>2, <1>3, <1>5 DEF PutOwn
      <3>4. QED
          BY <1>6, <3>1, <3>2, <3>3
    <2>2. \A k \in Kinds : ~Dirty(k) => form[k] = server[session][k]
        BY <1>2, <1>5, <2>1 DEF SavedMeansSaved, Shown
    <2>3. Dirty(put.kind)
        BY <1>2, <1>3, <1>5 DEF PutOwn
    <2>4. \A k \in Kinds \ {put.kind} : form'[k] = form[k]
        BY <1>1, <1>3, <1>5, PutStands, TypedAlone
    <2>5. CASE put.kind = "cust"
      <3>1. form["rows"] = server[session].rows
          BY <1>2, <1>5, <2>2, <2>3, <2>5 DEF OneDirty, Kinds
      <3>2. server'[session].cust = put.payload /\ server'[session].rows = server[session].rows
          BY <1>6, <1>9, <2>5, SavesOnce
      <3>3. form'["rows"] = form["rows"]
          BY <2>4, <2>5 DEF Kinds
      <3>4. QED
          BY <1>5, <2>1, <2>5, <3>1, <3>2, <3>3
    <2>6. CASE put.kind = "rows"
      <3>1. form["cust"] = server[session].cust
          BY <1>2, <1>5, <2>2, <2>3, <2>6 DEF OneDirty, Kinds
      <3>2. server'[session].rows = put.payload /\ server'[session].cust = server[session].cust
          BY <1>6, <1>9, <2>6, SavesOnce
      <3>3. form'["cust"] = form["cust"]
          BY <2>4, <2>6 DEF Kinds
      <3>4. QED
          BY <1>5, <2>1, <2>6, <3>1, <3>2, <3>3
    <2>7. QED
        BY <1>5, <2>5, <2>6 DEF Kinds
  <1>10. QED
      BY <1>1, <1>8, <1>9, PutMoves

\* So whatever a step applies, what looks saved is saved.
LEMMA SavedKept ==
    ASSUME IInv, SaveInv, CarefulStep
    PROVE  SavedMeansSaved'
  <1> USE DEF CarefulStep
  <1>1. SUFFICES ASSUME Shown', rev' = server'[session'].rev, NEW k \in Kinds, ~Dirty(k)'
                 PROVE  form'[k] = server'[session'][k]
      BY DEF SavedMeansSaved, Shown
  <1>2. PutOwn /\ PutData /\ CallData /\ ReadData /\ SavedMeansSaved /\ RevBound /\ PutBound
      BY DEF SaveInv, TurnsInv, DataInv, BoundInv
  <1>3. k \in {"rows", "cust"}
      BY DEF Kinds
  <1>4. CASE Opens
      BY <1>3, <1>4, Opened DEF Opens
  <1>5. CASE ~Opens
    <2>1. Shown /\ session' = session /\ session \in Sessions
        BY <1>1, <1>5, ShownStays, Records DEF Shown
    <2>2. ASSUME UNCHANGED rev, form'[k] = form[k], acked'[k] = acked[k]
          PROVE  form'[k] = server'[session'][k]
      <3>1. /\ rev = server[session].rev /\ server'[session].rows = server[session].rows
            /\ server'[session].cust = server[session].cust
          BY <1>1, <1>2, <2>1, <2>2, SameRevision, Records DEF RevBound, Shown
      <3>2. form[k] = server[session][k]
          BY <1>1, <1>2, <2>1, <2>2, <3>1 DEF SavedMeansSaved, Dirty, Shown
      <3>3. QED
          BY <1>3, <2>1, <2>2, <3>1, <3>2
    <2>3. CASE Edits
      <3>1. PICK j \in Kinds : Edit(j)
          BY <2>3 DEF Edits
      <3>2. j # k
          BY <1>1, <3>1, TypedAlone
      <3>3. QED
          BY <2>2, <3>1, <3>2, Typed
    <2>4. CASE CallCloses
        BY <1>1, <2>4, Closed DEF Shown
    <2>5. CASE CallAnswered /\ CallApplies
      <3>1. call.phase = "ok" /\ Picks /\ server' = server
          BY <2>5 DEF CallAnswered, CallApplies, Picks
      <3>2. /\ session' = call.sess /\ rev' = call.rev
            /\ form'["rows"] = call.rows /\ form'["cust"] = call.cust
          BY <2>5, CallApplied
      <3>3. QED
          BY <1>1, <1>2, <1>3, <3>1, <3>2 DEF CallData
    <2>6. CASE RefreshAnswered /\ RefreshApplies
      <3>1. refresh.phase = "ok" /\ refresh.sess = session /\ server' = server
          BY <2>6 DEF RefreshAnswered, RefreshApplies, RefreshUseful
      <3>2. rev' = refresh.rev /\ form'["rows"] = refresh.rows /\ form'["cust"] = refresh.cust
          BY <2>6, ReadApplied
      <3>3. QED
          BY <1>1, <1>2, <1>3, <2>1, <3>1, <3>2 DEF ReadData
    <2>7. CASE RowsAcknowledged
      <3>1. /\ put.phase = "ok" /\ put.kind = "rows" /\ form["rows"] = put.payload
            /\ rev' = put.rev /\ form' = form /\ server' = server
          BY <2>7, RowsTaken
      <3>2. QED
          BY <1>1, <1>2, <1>3, <2>1, <3>1 DEF PutData
    <2>8. CASE CustomerAcknowledged
      <3>1. /\ put.phase = "ok" /\ put.kind = "cust" /\ server' = server
            /\ rev' = put.rev /\ form'["rows"] = put.rows /\ form'["cust"] = put.payload
            /\ form["cust"] = put.payload
          BY <2>8, CustomerTaken, CustomerApplied
      <3>2. QED
          BY <1>1, <1>2, <1>3, <2>1, <3>1 DEF PutData
    <2>9. CASE PutAnswered /\ PutOvertaken
      <3>1. /\ put.phase = "ok" /\ PutPending /\ rev' = put.rev
            /\ UNCHANGED <<form, acked, server>>
          BY <2>9 DEF PutOvertaken, PutPending
      <3>2. Dirty(put.kind) /\ put.kind \in {"rows", "cust"}
          BY <1>2, <2>1, <3>1, PutTurn DEF PutOwn, Kinds
      <3>3. k # put.kind
          BY <1>1, <3>1, <3>2 DEF Dirty
      <3>4. put.rev = server[session].rev
          BY <1>1, <2>1, <3>1
      <3>5. QED
          BY <1>2, <1>3, <2>1, <3>1, <3>2, <3>3, <3>4 DEF PutData
    <2>10. CASE UNCHANGED <<form, acked>> /\ ~Replaces /\ ~(PutAnswered /\ PutOvertaken)
                /\ ~RowsAcknowledged /\ ~CustomerAcknowledged
      <3>1. UNCHANGED rev
        <4>1. CASE PutAnswered
            BY <2>10, <4>1 DEF PutAnswered, PutIgnored, PutFailed
        <4>2. CASE CallAnswered
            BY <2>10, <4>2 DEF CallAnswered, CallDone, Replaces
        <4>3. CASE RefreshAnswered
            BY <2>10, <4>3 DEF RefreshAnswered, Replaces
        <4>4. QED
            BY <1>5, <4>1, <4>2, <4>3, ShownMoves DEF Opens
      <3>2. QED
          BY <2>2, <2>10, <3>1
    <2>11. QED
        BY <1>5, <2>3, <2>4, <2>5, <2>6, <2>7, <2>8, <2>9, <2>10, FormGoes DEF Replaces
  <1>6. QED
      BY <1>4, <1>5

\* All of it is inductive for a careful operator who leaves workspaces at rest.
LEMMA SaveKept ==
    ASSUME IInv, SaveInv, CarefulStep
    PROVE  SaveInv'
  <1>1. [Next]_vars /\ Awaits
      BY DEF CarefulStep, Rests, Awaits
  <1>2. BoundInv' /\ CallOwn' /\ UsedInv' /\ ValidOnly'
      BY <1>1, BoundKept, OwnKept, UsedKept, ValidKept DEF SaveInv
  <1>3. TurnsInv'
      BY PutOwnKept, QueueOwnKept, OneDirtyKept, AloneKept, FlowOwnKept, QuietReadKept,
         AskedKept DEF TurnsInv
  <1>4. DataInv'
      BY PutDataKept, CallDataKept, ReadDataKept, PostDataKept, SavedKept DEF DataInv
  <1>5. QED
      BY <1>2, <1>3, <1>4 DEF SaveInv

LEMMA SaveInit ==
    ASSUME Init
    PROVE  SaveInv
  <1>1. BoundInv /\ CallOwn
      BY KnownInit DEF KnownInv
  <1>2. /\ \A k \in Kinds : /\ form[k] = Blank /\ acked[k] = Blank
                           /\ queue[k] = NoPayload /\ timer[k] = NoPayload
        /\ \A s \in Sessions : server[s].rows = Blank /\ server[s].cust = Blank
        /\ shortcut.cust = Blank /\ shortcut.terms = 0 /\ ~Shown /\ edits = 0
      BY DEF Init, Shown, BlankRender
  <1>3. /\ put.phase = "none" /\ refresh.phase = "none" /\ call.phase = "none" /\ flow.phase = "none"
        /\ put.payload = Blank /\ put.rows = Blank /\ refresh.rows = Blank /\ refresh.cust = Blank
        /\ call.rows = Blank /\ call.cust = Blank /\ flow.cust = Blank /\ flow.terms = 0
      BY DEF Init, NoPut, NoRefresh, NoCall, NoFlow
  <1>4. Blank \in Given /\ 0 \in 0..edits
      BY <1>2, HalfOf DEF Given, Blank
  <1>5. UsedInv
      BY <1>2, <1>3, <1>4 DEF UsedInv, UsedBook, UsedForm, UsedQueue, UsedPut, UsedRead, UsedCall,
                              UsedFlow
  <1>6. ValidOnly
      BY <1>2, <1>3 DEF ValidOnly, PutPending, Kinds
  <1>7. TurnsInv
      BY <1>2, <1>3 DEF TurnsInv, PutOwn, QueueOwn, OneDirty, Alone, FlowOwn, QuietRead,
                        Asked
  <1>8. DataInv
      BY <1>2, <1>3 DEF DataInv, PutData, CallData, ReadData, PostData, SavedMeansSaved, Shown
  <1>9. QED
      BY <1>1, <1>5, <1>6, <1>7, <1>8 DEF SaveInv

\* A step that changes nothing opens no workspace and reads nothing in.
LEMMA StillRests ==
    ASSUME UNCHANGED vars
    PROVE  Rests
  BY DEF vars, Rests, Open

\* Before another workspace is opened, what the form has sent is answered and
\* no handler is in its flush; and no other terms are read in during a pause.
WorkspacesRest == [][Rests]_vars

LEMMA SaveInductive ==
    ASSUME Careful
    PROVE  Spec /\ WorkspacesRest => []SaveInv
  <1>1. Init => SaveInv
      BY SaveInit
  <1>2. IInv /\ SaveInv /\ [Next]_vars /\ [Rests]_vars => SaveInv'
      BY SaveKept, StillRests DEF CarefulStep
  <1>3. QED
      BY <1>1, <1>2, Inductive, PTL DEF Spec, WorkspacesRest

\* A form that shows nothing unsaved under the server's current revision shows
\* what the server holds, however saves, reads, selections, finalizations,
\* losses and writes of other surfaces interleave: for an operator who takes
\* nothing back, changes one half at a time, does not type into an awaited
\* answer, saves without Ctrl+S and leaves a workspace at rest, and with no
\* terms of another surface read in while the finalize button pauses.
THEOREM CleanIsSaved ==
    ASSUME Careful
    PROVE  Spec /\ WorkspacesRest => []SavedMeansSaved
  <1>1. SaveInv => SavedMeansSaved
      BY DEF SaveInv, DataInv
  <1>2. QED
      BY <1>1, SaveInductive, PTL

\* Under the same conditions, what a finalization closes under the revision it
\* was posted with holds the sections the form showed: the weighed rows, which
\* the handler reads through refs, and the rates, the VAT, the numbering, the
\* calculators and the invoice rows, which it has from the render it was made
\* in.  The button's handler is of the current render; that of Ctrl+S need not be.
THEOREM FinalizesTheRowsShown ==
    ASSUME Careful
    PROVE  Spec /\ WorkspacesRest => FinalizedAsShown
  <1>1. ASSUME IInv, SaveInv, [Next]_vars, call.op = "finalize", call.phase = "sent",
               call'.phase = "ok", call.base = server[call.sess].rev
        PROVE  server[call.sess].rows = call.rows
    <2>1. ServerCloses
        BY <1>1, CallMoves, SetsOnce DEF Posted
    <2>2. call.sess \in Sessions
        BY <1>1, <2>1, ClosesOnly
    <2>3. QED
        BY <1>1, <2>2 DEF SaveInv, DataInv, PostData
  <1>2. IInv /\ SaveInv /\ [Next]_vars =>
          [(/\ call.op = "finalize" /\ call.phase = "sent" /\ call'.phase = "ok"
            /\ call.base = server[call.sess].rev)
                => server[call.sess].rows = call.rows]_vars
      BY <1>1
  <1>3. QED
      BY <1>2, Inductive, SaveInductive, PTL DEF Spec, FinalizedAsShown

-----------------------------------------------------------------------------
(* Nothing typed is dropped.                                               *)

\* finalizeInFlightRef is set while a finalization is flushing or posted.
Busy == finalizing => \/ flow.phase # "none" /\ flow.op = "finalize"
                      \/ call.phase # "none" /\ call.op = "finalize"

\* With no timer running, what is queued is what is shown, and so is what is
\* under way with nothing queued behind it.
LastKept == Shown => \A k \in Kinds :
    Dirty(k) /\ ~Invalid(k, form[k]) /\ timer[k] = NoPayload =>
        /\ queue[k] # NoPayload => queue[k] = form[k]
        /\ PutPending /\ put.kind = k /\ queue[k] = NoPayload => put.payload = form[k]

LatestInv == Busy /\ LastKept

\* A handler stays what it was started as.
LEMMA FlowStays ==
    ASSUME IInv, [Next]_vars, flow.phase # "none", flow'.phase # "none"
    PROVE  flow'.op = flow.op
  <1>1. CASE FlushGoesOn
      BY <1>1, WentOn, Flushed, CustomerFlushed DEF Captured
  <1>2. CASE flow' = [flow EXCEPT !.phase = "pause", !.again = TRUE]
      BY <1>2, Records DEF FlowRecords
  <1>3. CASE flow' = NoFlow
      BY <1>3 DEF NoFlow
  <1>4. ~Starts
      BY Started DEF Starts
  <1>5. QED
      BY <1>1, <1>2, <1>3, <1>4, FlowGoes DEF Captured

\* The flag is set by a handler that starts and by nothing else.
LEMMA FinalizingSet ==
    ASSUME IInv, [Next]_vars, ~finalizing, finalizing'
    PROVE  FlowStart("finalize")
  <1>1. CASE Starts
      BY <1>1 DEF Starts, FlowStart
  <1>2. CASE \/ \E s \in Sessions : Open(s) \/ OtherSurfaceSaves(s)
             \/ \E k \in Kinds : Edit(k) \/ DebounceFires(k)
             \/ CustomerBlur \/ SelectCustomer \/ CancelWorkspace \/ ArtifactSignal
      BY <1>2 DEF Open, OtherSurfaceSaves, Edit, DebounceFires, CustomerBlur, SelectCustomer,
                  CancelWorkspace, ArtifactSignal
  <1>3. CASE LoopSends \/ LoopEnds \/ PutAnswered \/ RetryFires \/ FlowGoesOn \/ PauseEnds
      BY <1>3 DEF LoopSends, LoopEnds, PutAnswered, PutIgnored, PutOvertaken, RowsAcknowledged,
                  CustomerAcknowledged, PutFailed, RetryFires, FlowGoesOn, PauseEnds
  <1>4. CASE FlowActs \/ CallAnswered
      BY <1>4 DEF FlowActs, FlowPauses, FlowGivesUp, FlowPosts, FlowSwitches, CallAnswered,
                  CallCloses, CallApplies, CallDone
  <1>5. CASE RefreshAnswered \/ ServerAnswersPut \/ ServerAnswersCall \/ ServerReads \/ NetworkFails
             \/ UNCHANGED vars
      BY <1>5 DEF RefreshAnswered, ServerAnswersPut, ServerAnswersCall, ServerReads, NetworkFails,
                  vars
  <1>6. QED
      BY <1>1, <1>2, <1>3, <1>4, <1>5 DEF Next, Starts

\* The finalize flag falls with the handler or the POST it stands for.
LEMMA BusyKept ==
    ASSUME IInv, [Next]_vars, CallOwn, Busy
    PROVE  Busy'
  <1>1. SUFFICES ASSUME finalizing'
                 PROVE  \/ flow'.phase # "none" /\ flow'.op = "finalize"
                        \/ call'.phase # "none" /\ call'.op = "finalize"
      BY DEF Busy
  <1>2. CASE ~finalizing
    <2>1. FlowStart("finalize") /\ "finalize" \in Flows
        BY <1>1, <1>2, FinalizingSet DEF Flows
    <2>2. PICK fl \in FlowRecords, q \in [Kinds -> Payloads] :
                /\ Flush(fl, q)
                /\ fl.op = "finalize" /\ fl.sess = session /\ fl.again = FALSE
                /\ fl.cust = IF "finalize" = "shortcut" THEN shortcut.cust ELSE form["cust"]
                /\ fl.terms = IF "finalize" = "shortcut" THEN shortcut.terms ELSE form["rows"].held
                /\ "finalize" # "shortcut" => fl.pend = PutPending
                /\ q["rows"] = queue["rows"]
                /\ q["cust"] = IF "finalize" = "detach" THEN NoPayload ELSE queue["cust"]
        BY <2>1, Started
    <2>3. QED
        BY <2>2, Flushed DEF Captured, FlushesRows, FlushesCustomer, FlushesNothing
  <1>3. CASE finalizing /\ flow.phase # "none" /\ flow.op = "finalize"
    <2>1. CASE FlowActs /\ flow' = NoFlow
      <3>1. CASE FlowGivesUp
          BY <1>1, <1>3, <3>1 DEF FlowGivesUp
      <3>2. CASE FlowPosts
          BY <1>3, <3>2, PostSays DEF FlowPosts
      <3>3. CASE FlowSwitches
          BY <1>3, <3>3 DEF FlowSwitches
      <3>4. CASE FlowPauses
          BY <3>4, Records DEF FlowPauses, FlowRecords
      <3>5. QED
          BY <2>1, <3>1, <3>2, <3>3, <3>4 DEF FlowActs
    <2>2. CASE ~(FlowActs /\ flow' = NoFlow)
      <3>1. flow'.phase # "none"
        <4>1. CASE LoopEnds
            BY <1>3, <4>1, Ended, FlowSettled
        <4>2. CASE PutFailed
            BY <1>3, <4>2, Failed, FlowSettled
        <4>3. CASE FlushGoesOn
            BY <4>3, WentOn, Flushed, CustomerFlushed DEF FlushesRows, FlushesCustomer, FlushesNothing
        <4>4. CASE flow' = [flow EXCEPT !.phase = "pause", !.again = TRUE]
            BY <4>4, Records DEF FlowRecords
        <4>5. CASE Starts
            BY <1>3, <4>5, Started DEF Starts
        <4>6. QED
            BY <1>3, <2>2, <4>1, <4>2, <4>3, <4>4, <4>5, FlowGoes
      <3>2. QED
          BY <1>3, <3>1, FlowStays
    <2>3. QED
        BY <2>1, <2>2
  <1>4. CASE finalizing /\ call.phase # "none" /\ call.op = "finalize"
    <2>1. flow.phase = "none" /\ call \in CallRecords
        BY <1>4, Records DEF CallOwn
    <2>2. CASE SelectCustomer \/ CancelWorkspace \/ FlowActs
        BY <1>4, <2>1, <2>2 DEF SelectCustomer, CancelWorkspace, FlowActs, FlowPauses, FlowGivesUp,
                                FlowPosts, FlowSwitches
    <2>3. CASE CallAnswered
      <3>1. CASE CallCloses
        <4>1. call' = [NoCall EXCEPT !.phase = "settling", !.op = "finalize"]
            BY <1>4, <3>1 DEF CallCloses
        <4>2. QED
            BY <4>1 DEF NoCall
      <3>2. CASE CallApplies \/ CallDone
          BY <1>1, <1>4, <3>2 DEF CallApplies, CallDone
      <3>3. QED
          BY <2>3, <3>1, <3>2 DEF CallAnswered
    <2>4. CASE ServerAnswersCall
      <3>1. call' = [call EXCEPT !.phase = "ok"] \/ call' = [call EXCEPT !.phase = "failed"]
          BY <1>4, <2>4, SetsOnce DEF ServerAnswersCall, ServerCloses, ServerRefusesCall
      <3>2. QED
          BY <1>4, <2>1, <3>1 DEF CallRecords
    <2>5. CASE NetworkFails
      <3>1. call' = call \/ call' = [call EXCEPT !.phase = "failed"]
          BY <2>5 DEF NetworkFails
      <3>2. QED
          BY <1>4, <2>1, <3>1 DEF CallRecords
    <2>6. QED
        BY <1>4, <2>2, <2>3, <2>4, <2>5, Frames DEF CallFrame
  <1>5. QED
      BY <1>2, <1>3, <1>4 DEF Busy

\* A keystroke that leaves a valid unsaved value starts the timer.
LEMMA EditTimes ==
    ASSUME IInv, SaveInv, Careful, Busy, NEW k \in Kinds, Edit(k), ~Invalid(k, form'[k])
    PROVE  timer'[k] # NoPayload
  <1>1. timer'[k] = EffectTimer(k, form'[k], acked[k])
      BY Typed
  <1>2. form'[k] # acked[k]
      BY TypedAlone DEF Dirty
  <1>3. ~Muted(k)
      BY TypedAlone DEF Muted, Busy
  <1>4. timer'[k] = form'[k]
      BY <1>1, <1>2, <1>3 DEF EffectTimer
  <1>5. form'[k] \in Values
      BY EditKeeps DEF IInv, FormTypeOK
  <1>6. QED
      BY <1>4, <1>5, NothingTyped

\* A flush takes nothing out of the queue of a careful operator.
LEMMA FlushKeepsQueue ==
    ASSUME IInv, Careful, Starts \/ FlushGoesOn, NEW k \in Kinds, queue'[k] = NoPayload
    PROVE  queue[k] = NoPayload
  <1>1. form \in [Kinds -> Values] /\ "rows" \in Kinds /\ "cust" \in Kinds
      BY DEF IInv, FormTypeOK, Kinds
  <1>2. CASE k = "rows"
    <2>1. /\ form["rows"].live \in 0..MaxEdits /\ form["rows"].held \in 0..MaxEdits
          /\ flow.terms \in 0..MaxEdits /\ shortcut.terms \in 0..MaxEdits
      <3>1. form["rows"].live \in 0..MaxEdits /\ form["rows"].held \in 0..MaxEdits
          BY <1>1, HalfOf, BoundAssumption DEF Values
      <3>2. flow.terms \in 0..MaxEdits /\ shortcut.terms \in 0..MaxEdits
          BY DEF IInv, FormTypeOK, Renders, HandlerOK, HandlerTypeOK, FlowRecords
      <3>3. QED
          BY <3>1, <3>2
    <2>2. Sections(flow') \in Values
        BY <2>1, QueueFlushed, HalfOf, BoundAssumption DEF Sections, Values
    <2>3. QED
        BY <1>2, <2>2, QueueFlushed, NothingTyped
  <1>3. CASE k = "cust"
    <2>1. CASE FlushGoesOn
      <3>1. flow.cust \in Values /\ flow \in FlowRecords /\ queue \in [Kinds -> Payloads]
          BY Records DEF FlowRecords, IInv, FormTypeOK
      <3>2. FlushesRows(flow, queue) \/ FlushesCustomer(flow, queue) \/ FlushesNothing(flow, queue)
          BY <2>1, <3>1, WentOn, Flushed, CustomerFlushed
      <3>3. QED
          BY <1>1, <1>3, <3>1, <3>2, NothingTyped DEF FlushesRows, FlushesCustomer, FlushesNothing
    <2>2. CASE Starts
      <3>1. PICK op \in Flows : FlowStart(op)
          BY <2>2 DEF Starts
      <3>2. PICK fl \in FlowRecords, q \in [Kinds -> Payloads] :
                /\ Flush(fl, q)
                /\ fl.op = op /\ fl.sess = session /\ fl.again = FALSE
                /\ fl.cust = IF op = "shortcut" THEN shortcut.cust ELSE form["cust"]
                /\ fl.terms = IF op = "shortcut" THEN shortcut.terms ELSE form["rows"].held
                /\ op # "shortcut" => fl.pend = PutPending
                /\ q["rows"] = queue["rows"]
                /\ q["cust"] = IF op = "detach" THEN NoPayload ELSE queue["cust"]
          BY <3>1, Started
      <3>3. CASE op = "detach"
          BY <1>3, <3>1, <3>3, Started DEF Careful, Pending, Queued
      <3>4. CASE op # "detach"
        <4>1. q["cust"] = queue["cust"] /\ fl.cust \in Values
            BY <3>2, <3>4 DEF FlowRecords
        <4>2. FlushesRows(fl, q) \/ FlushesCustomer(fl, q) \/ FlushesNothing(fl, q)
            BY <3>2, Flushed
        <4>3. QED
            BY <1>1, <1>3, <4>1, <4>2, NothingTyped DEF FlushesRows, FlushesCustomer, FlushesNothing
      <3>5. QED
          BY <3>3, <3>4
    <2>3. QED
        BY <2>1, <2>2
  <1>4. QED
      BY <1>2, <1>3 DEF Kinds

\* What is under way was sent by the loop.
LEMMA PutWasSent ==
    ASSUME IInv, [Next]_vars, PutPending', ~LoopSends
    PROVE  PutPending /\ UNCHANGED <<put.kind, put.payload>>
  <1>1. NoPut.phase = "none"
      BY DEF NoPut
  <1>2. ~PutAnswered
      BY <1>1, PutsUsed DEF PutPending
  <1>3. CASE UNCHANGED put
      BY <1>3 DEF PutPending
  <1>4. CASE ServerAnswersPut \/ NetworkFails
      BY <1>4, PutTravels DEF PutPending
  <1>5. QED
      BY <1>2, <1>3, <1>4, Frames DEF PutFrame

\* Every step keeps the last thing queued or sent the thing shown.
LEMMA LastKeptKept ==
    ASSUME IInv, SaveInv, CarefulStep, LatestInv
    PROVE  LastKept'
  <1> USE DEF CarefulStep
  <1>1. SUFFICES ASSUME Shown', NEW k \in Kinds, Dirty(k)', ~Invalid(k, form'[k]),
                        timer'[k] = NoPayload
                 PROVE  /\ queue'[k] # NoPayload => queue'[k] = form'[k]
                        /\ PutPending' /\ put'.kind = k /\ queue'[k] = NoPayload
                                => put'.payload = form'[k]
      BY DEF LastKept, Invalid
  <1>2. ~Replaces
      BY <1>1, Replaced DEF Clean
  <1>3. Shown /\ session' = session
      BY <1>1, <1>2, ShownStays DEF Replaces
  <1>4. ~Edits
    <2>1. SUFFICES ASSUME NEW j \in Kinds, Edit(j)
                   PROVE  FALSE
        BY DEF Edits
    <2>2. CASE j = k
        BY <1>1, <2>1, <2>2, EditTimes DEF LatestInv
    <2>3. CASE j # k
        BY <1>1, <2>1, <2>3, TypedAlone
    <2>4. QED
        BY <2>2, <2>3
  <1>5. ~CustomerAcknowledged
      BY <1>1, Acknowledged DEF Clean
  <1>6. CASE PutAnswered /\ RowsAcknowledged
    <2>1. k = "cust"
        BY <1>1, <1>6, Acknowledged DEF Kinds
    <2>2. /\ form'[k] = form[k] /\ acked'[k] = acked[k]
          /\ queue'[k] = queue[k] /\ timer'[k] = timer[k] /\ ~PutPending'
        BY <1>6, <2>1, RowsTaken DEF PutPending
    <2>3. QED
        BY <1>1, <1>3, <2>2 DEF LatestInv, LastKept, Dirty
  <1>7. CASE UNCHANGED <<form, acked>>
    <2>1. Dirty(k) /\ ~Invalid(k, form[k]) /\ form'[k] = form[k]
        BY <1>1, <1>7 DEF Dirty
    <2>2. timer[k] = NoPayload =>
            /\ queue[k] # NoPayload => queue[k] = form[k]
            /\ PutPending /\ put.kind = k /\ queue[k] = NoPayload => put.payload = form[k]
        BY <1>3, <2>1 DEF LatestInv, LastKept
    <2>3. CASE queue'[k] = queue[k] /\ timer'[k] = timer[k] /\ ~LoopSends
        BY <1>1, <2>1, <2>2, <2>3, PutWasSent
    <2>4. CASE PutAnswered /\ PutFailed
      <3>1. /\ queue'[k] = IF k = put.kind /\ queue[k] = NoPayload THEN put.payload ELSE queue[k]
            /\ timer' = timer /\ PutPending /\ ~PutPending'
          BY <2>4, Failed DEF PutPending
      <3>2. QED
          BY <1>1, <2>1, <2>2, <3>1
    <2>5. CASE Fires
      <3>1. PICK j \in Kinds : DebounceFires(j)
          BY <2>5 DEF Fires
      <3>2. CASE j = k
        <4>1. queue'[k] = timer[k] /\ timer[k] # NoPayload
            BY <3>1, <3>2, Fired
        <4>2. timer[k] = form[k]
            BY <1>3, <4>1 DEF SaveInv, TurnsInv, QueueOwn
        <4>3. QED
            BY <2>1, <4>1, <4>2
      <3>3. CASE j # k
        <4>1. queue'[k] = queue[k] /\ timer'[k] = timer[k] /\ put' = put
            BY <3>1, <3>3, Fired
        <4>2. QED
            BY <1>1, <2>1, <2>2, <4>1 DEF PutPending
      <3>4. QED
          BY <3>2, <3>3
    <2>6. CASE CustomerBlur
      <3>1. timer' = timer /\ put' = put /\ queue'["rows"] = queue["rows"]
            /\ queue'["cust"] = form["cust"] /\ form["cust"] # NoPayload
          BY <2>6, Blurred, NothingTyped DEF IInv, FormTypeOK, Kinds
      <3>2. QED
          BY <1>1, <2>1, <2>2, <3>1 DEF PutPending, Kinds
    <2>7. CASE LoopSends
      <3>1. CASE k = Head(chain)
          BY <1>1, <2>1, <2>2, <2>7, <3>1, Sent DEF PutPending
      <3>2. CASE k # Head(chain)
          BY <1>1, <2>1, <2>2, <2>7, <3>2, Sent DEF PutPending
      <3>3. QED
          BY <3>1, <3>2
    <2>8. CASE Starts \/ FlushGoesOn
      <3>1. timer' = timer /\ put' = put
          BY <2>8, QueueFlushed
      <3>2. queue'[k] # NoPayload /\ queue'[k] # queue[k] => queue'[k] = form[k]
          BY <2>8, FlushesShown DEF Kinds
      <3>3. queue'[k] = NoPayload => queue[k] = NoPayload
          BY <2>8, FlushKeepsQueue
      <3>4. QED
          BY <1>1, <2>1, <2>2, <3>1, <3>2, <3>3 DEF PutPending
    <2>9. QED
        BY <1>2, <1>4, <1>5, <1>6, <2>3, <2>4, <2>5, <2>6, <2>7, <2>8, QueueGoes
  <1>8. QED
      BY <1>2, <1>4, <1>5, <1>6, <1>7, FormGoes

\* The answer to a PUT that carried what is shown either acknowledges it or
\* queues it again.
LEMMA LastAnswered ==
    ASSUME IInv, SaveInv, LatestInv, Shown, PutAnswered, put.kind \in Kinds,
           put.payload = form[put.kind]
    PROVE  \/ RowsAcknowledged \/ CustomerAcknowledged
           \/ PutFailed
  <1>1. put.phase = "ok" => ~PutUseless
    <2>1. SUFFICES ASSUME put.phase = "ok"
                   PROVE  put.sess = session /\ put.rev >= rev
        BY DEF PutUseless, IInv, FormTypeOK, TurnOK, TurnTypeOK, PutRecords
    <2>2. put.sess = session /\ put.rev = rev + 1
        BY <2>1 DEF SaveInv, TurnsInv, PutOwn, PutPending
    <2>3. QED
        BY <2>2 DEF IInv, FormTypeOK
  <1>2. ~PutIgnored
      BY <1>1 DEF PutIgnored
  <1>3. ~PutOvertaken
      BY DEF PutOvertaken
  <1>4. QED
      BY <1>2, <1>3 DEF PutAnswered

\* So no step ends what is scheduled for a half that is still unsaved.
LEMMA DropsNothingStep ==
    ASSUME IInv, SaveInv, CarefulStep, LatestInv, NEW k \in Kinds,
           Scheduled(k), Shown, session' = session
    PROVE  Scheduled(k)' \/ ~Dirty(k)' \/ Invalid(k, form'[k])
  <1> USE DEF CarefulStep
  <1>1. SUFFICES ASSUME Dirty(k)', ~Invalid(k, form'[k])
                 PROVE  Scheduled(k)'
      OBVIOUS
  <1>2. ~Replaces
      BY <1>1, Replaced DEF Clean
  <1>3. CASE Edits
    <2>1. PICK j \in Kinds : Edit(j)
        BY <1>3 DEF Edits
    <2>2. j = k
        BY <1>1, <2>1, TypedAlone
    <2>3. QED
        BY <1>1, <2>1, <2>2, EditTimes DEF LatestInv, Scheduled
  <1>4. ~CustomerAcknowledged
      BY <1>1, Acknowledged DEF Clean
  <1>5. CASE PutAnswered /\ RowsAcknowledged
    <2>1. k = "cust"
        BY <1>1, <1>5, Acknowledged DEF Kinds
    <2>2. queue'[k] = queue[k] /\ timer'[k] = timer[k] /\ put.kind # k
        BY <1>5, <2>1, RowsTaken
    <2>3. QED
        BY <2>2 DEF Scheduled
  <1>6. CASE UNCHANGED <<form, acked>> /\ ~(PutAnswered /\ RowsAcknowledged)
    <2>1. Dirty(k) /\ ~Invalid(k, form[k])
        BY <1>1, <1>6 DEF Dirty
    <2>2. timer[k] = NoPayload =>
            /\ queue[k] # NoPayload => queue[k] = form[k]
            /\ PutPending /\ put.kind = k /\ queue[k] = NoPayload => put.payload = form[k]
        BY <2>1 DEF LatestInv, LastKept
    <2>3. CASE queue'[k] = queue[k] /\ timer'[k] = timer[k] /\ ~LoopSends /\ ~(PutAnswered /\ PutFailed)
      <3>1. CASE timer[k] # NoPayload \/ queue[k] # NoPayload
          BY <2>3, <3>1 DEF Scheduled
      <3>2. CASE timer[k] = NoPayload /\ queue[k] = NoPayload
        <4>1. PutPending /\ put.kind = k /\ put.payload = form[k]
            BY <2>2, <3>2 DEF Scheduled
        <4>2. ~PutAnswered
            BY <1>4, <1>6, <2>3, <4>1, LastAnswered
        <4>3. CASE UNCHANGED put
            BY <4>1, <4>3 DEF Scheduled, PutPending
        <4>4. CASE ServerAnswersPut \/ NetworkFails
            BY <4>1, <4>4, PutTravels DEF Scheduled, PutPending
        <4>5. QED
            BY <2>3, <4>2, <4>3, <4>4, Frames DEF PutFrame
      <3>3. QED
          BY <3>1, <3>2
    <2>4. CASE PutAnswered /\ PutFailed
      <3>1. /\ queue'[k] = IF k = put.kind /\ queue[k] = NoPayload THEN put.payload ELSE queue[k]
            /\ timer' = timer
          BY <2>4, Failed
      <3>2. put.payload # NoPayload
          BY Records, NothingTyped DEF PutRecords
      <3>3. QED
          BY <3>1, <3>2 DEF Scheduled
    <2>5. CASE Fires
      <3>1. PICK j \in Kinds : DebounceFires(j)
          BY <2>5 DEF Fires
      <3>2. QED
          BY <3>1, Fired DEF Scheduled, PutPending
    <2>6. CASE CustomerBlur
      <3>1. timer' = timer /\ put' = put /\ queue'["rows"] = queue["rows"]
            /\ queue'["cust"] = form["cust"] /\ form["cust"] # NoPayload
          BY <2>6, Blurred, NothingTyped DEF IInv, FormTypeOK, Kinds
      <3>2. QED
          BY <3>1 DEF Scheduled, PutPending, Kinds
    <2>7. CASE LoopSends
      <3>1. CASE k = Head(chain)
          BY <2>1, <2>2, <2>7, <3>1, Sent DEF Scheduled, PutPending, Dirty
      <3>2. CASE k # Head(chain)
          BY <2>7, <3>2, Sent DEF Scheduled, PutPending
      <3>3. QED
          BY <3>1, <3>2
    <2>8. CASE Starts \/ FlushGoesOn
      <3>1. timer' = timer /\ put' = put /\ (queue'[k] = NoPayload => queue[k] = NoPayload)
          BY <2>8, QueueFlushed, FlushKeepsQueue
      <3>2. QED
          BY <3>1 DEF Scheduled, PutPending
    <2>9. QED
        BY <1>2, <1>3, <1>4, <1>6, <2>3, <2>4, <2>5, <2>6, <2>7, <2>8, QueueGoes
  <1>7. QED
      BY <1>2, <1>3, <1>4, <1>5, <1>6, FormGoes

LEMMA LatestInit ==
    ASSUME Init
    PROVE  LatestInv
  BY DEF Init, LatestInv, Busy, LastKept, Shown, NoFlow

LEMMA LatestKept ==
    ASSUME IInv, SaveInv, CarefulStep, LatestInv
    PROVE  LatestInv'
  BY LastKeptKept, BusyKept DEF CarefulStep, SaveInv, LatestInv

LEMMA LatestInductive ==
    ASSUME Careful
    PROVE  Spec /\ WorkspacesRest => []LatestInv
  <1>1. Init => LatestInv
      BY LatestInit
  <1>2. IInv /\ SaveInv /\ LatestInv /\ [Next]_vars /\ [Rests]_vars => LatestInv'
      BY LatestKept, StillRests DEF CarefulStep
  <1>3. Spec /\ WorkspacesRest => []SaveInv
      BY SaveInductive
  <1>4. QED
      BY <1>1, <1>2, <1>3, Inductive, PTL DEF Spec, WorkspacesRest

\* What is waiting or on its way for a half stays so, through failures, retries
\* and newer edits, until the half has nothing unsaved: under the same conditions.
THEOREM DropsNothing ==
    ASSUME Careful
    PROVE  Spec /\ WorkspacesRest => NothingDropped
  <1> DEFINE Stays(k) ==
        Scheduled(k) /\ session # NoSession /\ session' = session =>
            \/ Scheduled(k)' \/ ~Dirty(k)' \/ Invalid(k, form'[k])
            \/ k = "cust" /\ flow'.op = "detach"
  <1>1. ASSUME IInv, SaveInv, LatestInv, [Next]_vars, [Rests]_vars
        PROVE  [\A k \in Kinds : Stays(k)]_vars
    <2>1. SUFFICES ASSUME NEW k \in Kinds, Scheduled(k), session # NoSession, session' = session
                   PROVE  Scheduled(k)' \/ ~Dirty(k)' \/ Invalid(k, form'[k])
        OBVIOUS
    <2>2. CarefulStep
        BY <1>1, StillRests DEF CarefulStep
    <2>3. QED
        BY <1>1, <2>1, <2>2, DropsNothingStep DEF Shown
  <1>2. Spec /\ WorkspacesRest => []SaveInv
      BY SaveInductive
  <1>3. QED
      BY <1>1, <1>2, Inductive, LatestInductive, PTL DEF Spec, WorkspacesRest, NothingDropped
=============================================================================
