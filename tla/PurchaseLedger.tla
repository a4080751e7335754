--------------------------- MODULE PurchaseLedger ---------------------------
(***************************************************************************)
(* What the purchase workspace promises its bookkeeping: every session has *)
(* at most one transaction, which is issued once with an amount, revised   *)
(* while it stands, voided once, and from then on never changes again.     *)
(***************************************************************************)
CONSTANTS Sessions, Amounts

VARIABLE books   \* per session: its state and the amount it stands for

Init == \A s \in Sessions : books[s].state = "none"

Issue(s, a) ==
    /\ books[s].state = "none"
    /\ books' = [books EXCEPT ![s] = [state |-> "confirmed", amount |-> a]]

Revise(s, a) ==
    /\ books[s].state = "confirmed"
    /\ books' = [books EXCEPT ![s].amount = a]

Void(s) ==
    /\ books[s].state = "confirmed"
    /\ books' = [books EXCEPT ![s].state = "cancelled"]

Next == \E s \in Sessions : Void(s) \/ \E a \in Amounts : Issue(s, a) \/ Revise(s, a)

Spec == Init /\ [][Next]_books
=============================================================================
