------------------------------ MODULE MeltLots ------------------------------
(***************************************************************************)
(* The log: routing the lines of purchase documents to stock or to the     *)
(* smelter, the stock products that routing creates, and the melt lots     *)
(* that collect the lines sent to be melted.                               *)
(*                                                                         *)
(* A worker is one HTTP request in flight.  A handler first reads the rows *)
(* it works on and checks them, then writes.  On SQLite, which is what the *)
(* desktop program runs on, the reads take no lock and the first write     *)
(* locks the database until the commit: a request is therefore two steps,  *)
(* a load and a commit, and what it checks are rows it has SEEN.  One that *)
(* is refused on these rows writes nothing and is not a step.              *)
(*                                                                         *)
(* One metal bucket: a lot, a queue and the lines of the other metal are   *)
(* never touched by a request about this one.  The log shows the newest    *)
(* 400 documents; all of Docs are among them.  Deleting a document is no   *)
(* step: the log and its routes do not look at its status.  No page of the *)
(* program edits a product's destination; only routes set it.              *)
(*                                                                         *)
(* A product that has been published keeps its number in the web shop for  *)
(* good.  The shop's orders and catalogue find products by that number and *)
(* set their statuses past the table of transitions.  A request that works *)
(* on several products is a sequence of requests on one each: once it has  *)
(* written the first, no other request writes before its commit.           *)
(***************************************************************************)
CONSTANTS
    Lines,       \* ids of transaction_lines
    Docs,        \* purchase documents
    DocOf,       \* the document whose lines the ids of Lines are for
    Products,    \* ids of products
    Lots,        \* ids of afg_melt_lots
    Workers,     \* requests that can be in flight at the same time
    Routed,      \* bound: the destinations that lines are routed to
    Traded,      \* bound: the products that stock page, till and web shop handle
    Changed,     \* bound: the statuses they are given by stock page and till
    Imported,    \* bound: the statuses they are given by imports
    Handled,     \* bound: the lots that are saved, finalized, reopened, deleted
    None

ASSUME ConstantsAssumption ==
    /\ DocOf \in [Lines -> Docs]
    /\ None \notin Lines \cup Products \cup Lots

VARIABLES
    line,      \* transaction_lines
    product,   \* products
    lot,       \* afg_melt_lots
    req,       \* the request each worker is serving
    raced      \* history: products and lots a request has written over a row
               \* that was no longer as the request had read it

vars == <<line, product, lot, req, raced>>

-----------------------------------------------------------------------------
(* Types *)

Destinations == {"inventory", "undecided", "melt"}
Terminal == {"sold", "melted"}
Statuses == {"in_inventory", "undecided", "for_sale"} \cup Terminal

ASSUME BoundsAssumption ==
    /\ Routed \subseteq Destinations
    /\ Traded \subseteq Products
    /\ Changed \cup Imported \subseteq Statuses
    /\ Handled \subseteq Lots

LineRow == [state   : {"free", "live", "deleted"},
            product : Products \cup {None},
            lot     : Lots \cup {None}]

\* Routing sets the destination of every product it creates.
\* shop: known once woocommerce_product_id is set.
ProductRow == [status : Statuses, dest : Destinations, shop : {"unknown", "known"}]
Unborn == [status |-> "none", dest |-> "none", shop |-> "unknown"]

Payouts == {"blank", "paid"}

\* payout: payout_total_dkk and sale_date, paid when both are filled in.
LotRow == [status : {"none", "draft", "finalized", "deleted"}, payout : Payouts]

Unused == [state |-> "free", product |-> None, lot |-> None]
Gone == [state |-> "deleted", product |-> None, lot |-> None]
NoLot == [status |-> "none", payout |-> "blank"]

LotOps == {"update", "finalize", "reopen", "delete"}

\* line, status, dest, lot: the columns as the request has read them.
Request == [op     : {"none", "route", "status", "publish", "create"} \cup LotOps,
            on     : Lines \cup Products \cup Lots \cup {None},
            to     : Destinations \cup Statuses \cup Payouts \cup {None},
            line   : LineRow,
            status : Statuses \cup {"none"},
            dest   : Destinations \cup {"none"},
            lot    : LotRow,
            queue  : SUBSET Lines]

Idle == [op |-> "none", on |-> None, to |-> None, line |-> Unused,
         status |-> "none", dest |-> "none", lot |-> NoLot, queue |-> {}]

Init ==
    /\ line = [l \in Lines |-> Unused]
    /\ product = [p \in Products |-> Unborn]
    /\ lot = [L \in Lots |-> NoLot]
    /\ req = [w \in Workers |-> Idle]
    /\ raced = {}

-----------------------------------------------------------------------------
(* The rows *)

Live(l) == line[l].state = "live"

\* _map_destination_to_state: what the log shows as melted.
Melting(row) == row.dest = "melt"

\* The melt queue of the workspace: all lines shown as melted, those that
\* already belong to a lot too.
Queue == {l \in Lines : /\ Live(l)
                        /\ line[l].product # None
                        /\ Melting(product[line[l].product])}

Drafts == {L \in Lots : lot[L].status = "draft"}
Exists(L) == lot[L].status \in {"draft", "finalized"}

\* _allowed_status_transition.  PURCHASED is left within the transaction that
\* creates a product of a line, so no such product is ever seen in it.
Allowed(status) ==
    CASE status = "in_inventory" -> {"for_sale", "melted", "undecided"}
      [] status = "for_sale"     -> {"sold", "melted", "in_inventory"}
      [] status = "undecided"    -> {"in_inventory", "for_sale", "melted"}
      [] OTHER                   -> {}

\* Mutant of StatusFor: the destination is taken for a status.
StatusNamed(dest) == IF dest = "melt" THEN "melted" ELSE dest

StatusFor(dest) ==
    CASE dest = "inventory" -> "in_inventory"
      [] dest = "undecided" -> "undecided"
      [] OTHER              -> "melted"

\* The unit of work emits a column only when the new value differs from the
\* loaded one.
Written(loaded, new, current) == IF new = loaded THEN current ELSE new

Finish(w) == req' = [req EXCEPT ![w] = Idle]

\* What a commit leaves to raced: x, when a row was not as it had been read.
Marked(x, unchanged) == IF unchanged THEN raced ELSE raced \cup {x}

-----------------------------------------------------------------------------
(* Documents, which the purchase workspace writes *)

\* A purchase is finalized: its document gets lines, without product or lot.
Purchase(d, S) ==
    /\ S # {}
    /\ \A l \in Lines : DocOf[l] = d => line[l].state = "free"
    /\ line' = [l \in Lines |-> IF l \in S THEN [Unused EXCEPT !.state = "live"]
                                           ELSE line[l]]
    /\ UNCHANGED <<product, lot, req, raced>>

\* An edit draft of the document is finalized: the lines are deleted, whatever
\* products and lots they belong to, and the draft's are inserted.
Revise(d, S) ==
    /\ S # {}
    /\ \A l \in S : line[l].state = "free"
    /\ \E l \in Lines : DocOf[l] = d /\ Live(l)
    /\ line' = [l \in Lines |-> IF l \in S THEN [Unused EXCEPT !.state = "live"]
                                ELSE IF DocOf[l] = d /\ Live(l) THEN Gone
                                ELSE line[l]]
    /\ UNCHANGED <<product, lot, req, raced>>

-----------------------------------------------------------------------------
(* Routing a line: apply_afg_route_requests for one line *)

\* Mutant of RouteLots: the newest lot, whatever its status.
RouteLotsOfAnyStatus(r) ==
    IF r.to # "melt" THEN {None}
    ELSE IF r.line.lot # None \/ {L \in Lots : Exists(L)} = {} THEN {r.line.lot}
    ELSE {L \in Lots : Exists(L)}

\* What the handler leaves in melt_lot_id: nothing unless the line is to be
\* melted; then the newest draft lot, for a line it has not seen in a lot.
\* created_at has whole seconds, so which draft is the newest is left open.
RouteLots(r) ==
    IF r.to # "melt" THEN {None}
    ELSE IF r.line.lot # None \/ Drafts = {} THEN {r.line.lot}
    ELSE Drafts

\* Mutant of Refused: a sold or melted product can be routed again.
RefusedTransition(r) ==
    /\ r.status = "for_sale"
    /\ StatusFor(r.to) = "undecided"

\* 400: the product is sold or melted (update_product), or the status cannot
\* change to the routed one (update_status).
Refused(r) ==
    \/ r.status \in Terminal
    \/ r.status \notin {"none", StatusFor(r.to)} /\ StatusFor(r.to) \notin Allowed(r.status)

LoadRoute(w, l, dest) ==
    LET row == IF line[l].product = None THEN Unborn ELSE product[line[l].product]
        r == [Idle EXCEPT !.op = "route", !.on = l, !.to = dest, !.line = line[l],
                          !.status = row.status, !.dest = row.dest]
    IN /\ req[w] = Idle
       /\ Live(l)
       /\ ~ Refused(r)
       /\ req' = [req EXCEPT ![w] = r]
       /\ UNCHANGED <<line, product, lot, raced>>

\* The product a route works on: the one it has seen on the line, or a new one.
RouteProduct(r, p) ==
    IF r.line.product = None THEN product[p] = Unborn ELSE p = r.line.product

\* The UPDATE of a line that was deleted meanwhile matches no row: the flush
\* raises and everything is rolled back.  No UPDATE is emitted when the route
\* leaves the line as it was read.
Route(w, p, L) ==
    LET r == req[w]
        l == r.on
        row == [status |-> Written(r.status, StatusFor(r.to), product[p].status),
                dest   |-> Written(r.dest, r.to, product[p].dest),
                shop   |-> product[p].shop]
    IN /\ r.op = "route"
       /\ RouteProduct(r, p)
       /\ L \in RouteLots(r)
       /\ Live(l) \/ (p = r.line.product /\ L = r.line.lot)
       /\ product' = [product EXCEPT ![p] = row]
       /\ line' = [line EXCEPT
            ![l].product = Written(r.line.product, p, @),
            ![l].lot = Written(r.line.lot, L, @)]
       /\ raced' = Marked(p, /\ line[l] = r.line
                         /\ product[p].status = r.status /\ product[p].dest = r.dest)
       /\ Finish(w)
       /\ UNCHANGED lot

-----------------------------------------------------------------------------
(* The status of a product *)

\* A request that has read a product and found that its status may become to.
LoadProduct(w, p, op, to) ==
    /\ req[w] = Idle
    /\ req' = [req EXCEPT ![w] = [Idle EXCEPT !.op = op, !.on = p, !.to = to,
                                              !.status = product[p].status]]
    /\ UNCHANGED <<line, product, lot, raced>>

\* update_status, from the stock page and the till.  Taking a product off the
\* shop and approving its review set a status that the table allows, too.
LoadStatus(w, p, status) ==
    /\ product[p] # Unborn
    /\ status \in Allowed(product[p].status)
    /\ LoadProduct(w, p, "status", status)

\* An order of the web shop, which its webhook, the synchronization of recent
\* orders and that of one product bring in: what is not sold yet is sold, also
\* what is melted.
LoadSale(w, p) ==
    /\ product[p].shop = "known"
    /\ product[p].status # "sold"
    /\ LoadProduct(w, p, "status", "sold")

\* Mutant of LoadImport: like an order, it leaves alone only what is sold.
LoadImportOfMelted(w, p, status) ==
    /\ product[p].shop = "known"
    /\ product[p].status # "sold"
    /\ status \in {"for_sale", "undecided"}
    /\ LoadProduct(w, p, "publish", status)

\* The catalogue of the web shop is imported.  Like a publication, it writes a
\* status and the product's number in the shop.
LoadImport(w, p, status) ==
    /\ product[p].shop = "known"
    /\ product[p].status \notin Terminal
    /\ status \in {"for_sale", "undecided"}
    /\ LoadProduct(w, p, "publish", status)

\* publish, up to the answer of the web shop.
LoadPublish(w, p) ==
    /\ product[p] # Unborn
    /\ product[p].status \notin Terminal
    /\ LoadProduct(w, p, "publish", "for_sale")

\* The commit of a request about a product: the status and what the shop knows.
ProductWritten(w, shop) ==
    LET r == req[w]
    IN /\ product' = [product EXCEPT ![r.on].status = Written(r.status, r.to, @),
                                     ![r.on].shop = shop]
       /\ raced' = Marked(r.on, product[r.on].status = r.status)
       /\ Finish(w)
       /\ UNCHANGED <<line, lot>>

ChangeStatus(w) == req[w].op = "status" /\ ProductWritten(w, product[req[w].on].shop)

Publish(w) == req[w].op = "publish" /\ ProductWritten(w, "known")

-----------------------------------------------------------------------------
(* The lots *)

\* create_afg_melt_lot, up to its first write: the workspace is built.
LoadQueue(w) ==
    /\ req[w] = Idle
    /\ Queue # {}
    /\ req' = [req EXCEPT ![w] = [Idle EXCEPT !.op = "create", !.queue = Queue]]
    /\ UNCHANGED <<line, product, lot, raced>>

\* Mutants of Attached: lines of other lots are taken too; lines melted since
\* the totals were added up are taken too.
AttachedFromLots(queue) == {l \in queue : Live(l)}
AttachedSince(queue) == {l \in Queue : line[l].lot = None}

\* The lines a new lot takes: those of the queue it was made from that still
\* exist and belong to no lot now.
Attached(queue) == {l \in queue : Live(l) /\ line[l].lot = None}

CreateLot(w, L) ==
    /\ req[w].op = "create"
    /\ lot[L] = NoLot
    /\ lot' = [lot EXCEPT ![L] = [status |-> "draft", payout |-> "blank"]]
    /\ line' = [l \in Lines |-> IF l \in Attached(req[w].queue)
                                THEN [line[l] EXCEPT !.lot = L] ELSE line[l]]
    /\ Finish(w)
    /\ UNCHANGED <<product, raced>>

\* Mutant of Accepted: a finalized lot can be saved.
AcceptedFinalized(op, row) ==
    /\ row.status \in IF op = "reopen" THEN {"finalized"} ELSE {"draft", "finalized"}
    /\ row.status = "finalized" => op \in {"reopen", "update"}
    /\ op = "finalize" => row.payout = "paid"

\* What each handler asks of the lot it has read, 400 otherwise.
Accepted(op, row) ==
    /\ row.status = IF op = "reopen" THEN "finalized" ELSE "draft"
    /\ op = "finalize" => row.payout = "paid"

LoadLot(w, op, L, payout) ==
    /\ req[w] = Idle
    /\ Accepted(op, lot[L])
    /\ req' = [req EXCEPT ![w] = [Idle EXCEPT !.op = op, !.on = L, !.to = payout,
                                              !.lot = lot[L]]]
    /\ UNCHANGED <<line, product, lot, raced>>

\* The UPDATE of a lot that was deleted meanwhile matches no row and the flush
\* raises; deleting it once more changes nothing.
Working(w, op) == req[w].op = op /\ Exists(req[w].on)

LotWritten(w, row) ==
    LET L == req[w].on
    IN /\ lot' = [lot EXCEPT ![L] = row]
       /\ raced' = Marked(L, lot[L] = req[w].lot)
       /\ Finish(w)

\* update_afg_melt_lot: the form is saved, with or without its payout.
UpdateLot(w) ==
    LET r == req[w]
    IN /\ Working(w, "update")
       /\ LotWritten(w, [lot[r.on] EXCEPT !.payout = Written(r.lot.payout, r.to, @)])
       /\ UNCHANGED <<line, product>>

\* finalize_afg_melt_lot.
FinalizeLot(w) ==
    /\ Working(w, "finalize")
    /\ LotWritten(w, [lot[req[w].on] EXCEPT !.status = "finalized"])
    /\ UNCHANGED <<line, product>>

\* finalize_afg_melt_lot with reverse.
ReopenLot(w) ==
    /\ Working(w, "reopen")
    /\ LotWritten(w, [lot[req[w].on] EXCEPT !.status = "draft"])
    /\ UNCHANGED <<line, product>>

\* Mutant of DeleteLot: the lines keep their melt_lot_id.
DeleteLotOnly(w) ==
    /\ Working(w, "delete")
    /\ LotWritten(w, [NoLot EXCEPT !.status = "deleted"])
    /\ UNCHANGED <<line, product>>

\* delete_afg_melt_lot: the lines leave the lot, then the lot goes.  The
\* desktop database does not enforce the foreign key between the two.
DeleteLot(w) ==
    /\ Working(w, "delete")
    /\ LotWritten(w, [NoLot EXCEPT !.status = "deleted"])
    /\ line' = [l \in Lines |-> IF line[l].lot = req[w].on
                                THEN [line[l] EXCEPT !.lot = None] ELSE line[l]]
    /\ UNCHANGED product

-----------------------------------------------------------------------------

\* A request whose flush raises, that waits for the database for longer than the
\* timeout, or whose process dies, ends without having written anything.
Fail(w) ==
    /\ req[w] # Idle
    /\ Finish(w)
    /\ UNCHANGED <<line, product, lot, raced>>

Documents == \E d \in Docs : \E S \in SUBSET {l \in Lines : DocOf[l] = d} :
                Purchase(d, S) \/ Revise(d, S)

Load(w) ==
    \/ \E l \in Lines, dest \in Routed : LoadRoute(w, l, dest)
    \/ \E p \in Traded, status \in Changed : LoadStatus(w, p, status)
    \/ \E p \in Traded, status \in Imported : LoadImport(w, p, status)
    \/ \E p \in Traded : LoadSale(w, p) \/ LoadPublish(w, p)
    \/ LoadQueue(w)
    \/ \E L \in Handled, payout \in Payouts : LoadLot(w, "update", L, payout)
    \/ \E L \in Handled, op \in LotOps \ {"update"} : LoadLot(w, op, L, None)

Commit(w) ==
    \/ \E p \in Products, L \in Lots \cup {None} : Route(w, p, L)
    \/ ChangeStatus(w) \/ Publish(w)
    \/ \E L \in Lots : CreateLot(w, L)
    \/ UpdateLot(w) \/ FinalizeLot(w) \/ ReopenLot(w) \/ DeleteLot(w)

Next == Documents \/ \E w \in Workers : Load(w) \/ Commit(w) \/ Fail(w)

Spec == Init /\ [][Next]_vars
-----------------------------------------------------------------------------
(* Properties *)

\* Rows and requests have the columns the models declare, and a row is raced
\* only once it exists.
TypeOK ==
    /\ line \in [Lines -> LineRow]
    /\ product \in [Products -> ProductRow \cup {Unborn}]
    /\ lot \in [Lots -> LotRow]
    /\ req \in [Workers -> Request]
    /\ raced \subseteq Products \cup Lots

\* No line refers to a lot that does not exist, which the desktop database
\* would accept: a route takes the draft that exists when it writes, and a
\* lot that is deleted lets go of its lines, those a route or another request
\* has put in since the delete read the lot included.
NoDanglingLots == \A l \in Lines : line[l].lot # None => Exists(line[l].lot)

\* Melted, or melted and then sold by the web shop.
Smelted(row) == row.status = "melted" \/ (row.status = "sold" /\ row.shop = "known")

\* What is in a lot has been sent to the smelter: the stock page cannot offer
\* for sale what the lot's card counts as melted.  An order of the web shop may
\* have sold it all the same.  Holds but for a product whose row some request
\* wrote over a change it had not seen.
LotHoldsMelted ==
    \A l \in Lines : line[l].lot # None =>
        /\ line[l].product # None
        /\ Smelted(product[line[l].product]) \/ line[l].product \in raced

\* A finalized lot has its payout, whatever sequence of saves, finalizations
\* and reopenings led there.  Holds but for a lot that was written over a
\* change not seen: an update that read the draft can clear it afterwards.
FinalizedIsPaid ==
    \A L \in Lots : lot[L].status = "finalized" /\ L \notin raced => lot[L].payout = "paid"

Joins(l, L) == line[l].lot # L /\ line'[l].lot = L
Leaves(l, L) == line[l].lot = L /\ line'[l].lot # L

\* No line joins a finalized lot: a route looks for the draft after it has taken
\* the database's write lock, so no finalization comes in between.
FinalizedLotsGainNothing ==
    [][\A l \in Lines, L \in Lots : Joins(l, L) => lot[L].status # "finalized"]_vars

\* A line leaves a finalized lot only when its document is edited, or when a
\* request wrote over a product or a lot that was not as it had read it: the
\* route of what is melted is refused, and so is the deletion of the lot.
FinalizedLotsLoseNothing ==
    [][\A l \in Lines, L \in Lots :
         Leaves(l, L) /\ lot[L].status = "finalized" =>
            \/ line'[l].state = "deleted"
            \/ L \in raced'
            \/ raced' \cap {line[l].product, line'[l].product} # {}]_vars

\* A line never goes from one lot into another, which would leave its weight in
\* the first one's totals: both ways into a lot take free lines only.  Holds but
\* for a route that read the line before it was in a lot.
LinesStayInLot ==
    [][\A l \in Lines : line[l].lot # None /\ line'[l].lot \notin {None, line[l].lot} =>
         line'[l].product \in raced']_vars

\* A new lot's totals (before_*) add up the queue its request has read.  Of
\* these lines, those that still exist are in a lot once it is created, and it
\* holds no line that the totals leave out, however many lines were melted,
\* edited or put in other lots since.
CreatedLotIsCounted ==
    [][\A w \in Workers, L \in Lots :
         req[w].op = "create" /\ req'[w] = Idle /\ lot[L] = NoLot /\ lot'[L] # NoLot =>
           /\ \A l \in req[w].queue : line'[l].state = "live" => line'[l].lot # None
           /\ \A l \in Lines : line'[l].lot = L => l \in req[w].queue]_vars

\* What is sold stays sold, and what is melted stays melted or is sold by the
\* web shop, which must know it: the till, the stock page, the log, an import
\* and a publication change neither.  Holds but for a request that read the
\* product before it was sold or melted: no row is read again before the write.
TerminalStays ==
    [][\A p \in Products : product[p].status \in Terminal /\ p \notin raced' =>
         \/ product'[p].status = product[p].status
         \/ product[p].shop = "known" /\ product[p].status = "melted" /\ product'[p].status = "sold"]_vars
=============================================================================
