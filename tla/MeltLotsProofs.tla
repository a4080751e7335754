--------------------------- MODULE MeltLotsProofs ---------------------------
(***************************************************************************)
(* Proofs of the properties of MeltLots, for any lines, documents,         *)
(* products, lots, workers and bounds.  None is inductive: the rows are    *)
(* written from what a request has seen, so the invariant says of every    *)
(* request how what it has seen relates to the rows as they are now.       *)
(***************************************************************************)
EXTENDS MeltLots, TLAPS

-----------------------------------------------------------------------------
(* The inductive invariant *)

\* A product of a line exists; a line that is not there has no product or lot.
LinesOK == \A l \in Lines :
    /\ line[l].product # None => product[line[l].product] # Unborn
    /\ ~ Live(l) => line[l].product = None /\ line[l].lot = None

\* The line of a route has been inserted, the product it has seen exists and
\* may take the new status.  The line has another product by now only if a
\* request wrote over the row, which makes that product a raced one.
RouteOK(r) == r.op = "route" =>
    /\ r.on \in Lines
    /\ r.to \in Destinations
    /\ line[r.on].state # "free"
    /\ r.line.product = None => r.status = "none" /\ r.dest = "none"
    /\ r.line.product # None => product[r.line.product] # Unborn
    /\ ~ Refused(r)
    /\ Live(r.on) /\ r.line.product # None =>
         line[r.on].product = r.line.product \/ line[r.on].product \in raced

\* A product that is to be sold by an order of the web shop is known there.
StatusOK(r) == r.op \in {"status", "publish"} =>
    /\ r.on \in Products
    /\ product[r.on] # Unborn
    /\ r.to \in Statuses
    /\ r.op = "publish" => r.status \notin Terminal
    /\ r.op = "status" =>
         \/ r.to \in Allowed(r.status)
         \/ r.to = "sold" /\ r.status # "sold" /\ product[r.on].shop = "known"

LotOK(r) == r.op \in LotOps =>
    /\ r.on \in Lots
    /\ Accepted(r.op, r.lot)
    /\ r.op = "update" => r.to \in Payouts

QueueOK(r) == \A l \in r.queue : line[l].state # "free"

RequestOK(w) == RouteOK(req[w]) /\ StatusOK(req[w]) /\ LotOK(req[w]) /\ QueueOK(req[w])

RowsInv == TypeOK /\ LinesOK /\ \A w \in Workers : RequestOK(w)

\* The product of the line is melted, or melted and sold by the web shop, as far
\* as every request has seen the row it wrote over.
Held(l) ==
    /\ line[l].product # None
    /\ Smelted(product[line[l].product]) \/ line[l].product \in raced

\* A product that is to be melted is melted, and so is every line in the queue
\* from which a lot is being made.
MeltInv ==
    /\ \A p \in Products : Melting(product[p]) => Smelted(product[p]) \/ p \in raced
    /\ \A w \in Workers : \A l \in req[w].queue : Live(l) => Held(l)
    /\ \A l \in Lines : line[l].lot # None => Held(l)

-----------------------------------------------------------------------------
(* Types *)

LEMMA UnbornIsNoRow == Unborn \notin ProductRow
  BY DEF Unborn, ProductRow, Statuses, Terminal

LEMMA IdleType == Idle \in Request
  BY DEF Idle, Request, LineRow, LotRow, Unused, NoLot, Payouts

\* What Written returns is the new value or the current one.
LEMMA WrittenIs ==
  ASSUME NEW loaded, NEW new, NEW current
  PROVE  /\ Written(loaded, new, current) \in {new, current}
         /\ loaded = current => Written(loaded, new, current) = new
         /\ loaded # new => Written(loaded, new, current) = new
         /\ loaded = new => Written(loaded, new, current) = current
  BY DEF Written

-----------------------------------------------------------------------------
(* What no step undoes *)

Evolves ==
    /\ raced \subseteq raced'
    /\ \A p \in Products : product[p] # Unborn => product'[p] # Unborn
    /\ \A p \in Products : product[p].shop = "known" => product'[p].shop = "known"
    /\ \A l \in Lines : line[l].state # "free" =>
         /\ line'[l].state # "free"
         /\ line'[l].state = "live" =>
              /\ line[l].state = "live"
              /\ line[l].product # None =>
                   line'[l].product = line[l].product \/ line'[l].product \in raced'

\* A request that another one's step leaves alone stays as it should be.
LEMMA OthersStay ==
  ASSUME RowsInv, Evolves, NEW w \in Workers, req'[w] = req[w]
  PROVE  RequestOK(w)'
<1> DEFINE r == req[w]
<1>1. r \in Request
  BY DEF RowsInv, TypeOK
<1>2. RouteOK(r)'
  <2>1. RouteOK(r)
    BY DEF RowsInv, RequestOK
  <2>2. r.line.product # None => r.line.product \in Products
    BY <1>1 DEF Request, LineRow
  <2> QED
    BY <2>1, <2>2, ConstantsAssumption DEF RouteOK, Evolves, Live, Refused, RowsInv, TypeOK
<1>3. StatusOK(r)'
  BY DEF RowsInv, RequestOK, StatusOK, Evolves
<1>4. LotOK(r)'
  BY DEF RowsInv, RequestOK, LotOK
<1>5. QueueOK(r)'
  <2>1. r.queue \subseteq Lines
    BY <1>1 DEF Request
  <2> QED
    BY <2>1 DEF RowsInv, RequestOK, QueueOK, Evolves
<1> QED
  BY <1>2, <1>3, <1>4, <1>5 DEF RequestOK

\* A worker that has finished has nothing to answer for.
LEMMA IdleOK ==
  ASSUME NEW w \in Workers, req'[w] = Idle
  PROVE  RequestOK(w)'
  BY DEF RequestOK, RouteOK, StatusOK, LotOK, QueueOK, Idle, LotOps

\* So a step keeps RowsInv when it keeps the types and the lines, undoes
\* nothing, and leaves its own request as it should be.
LEMMA StepOK ==
  ASSUME RowsInv, Evolves, TypeOK', LinesOK', NEW w \in Workers, RequestOK(w)',
         \A v \in Workers \ {w} : req'[v] = req[v]
  PROVE  RowsInv'
  BY OthersStay DEF RowsInv

-----------------------------------------------------------------------------
(* The steps: loads and failures leave the rows alone *)

LEMMA LoadsEvolve ==
  ASSUME RowsInv, UNCHANGED <<line, product, lot, raced>>,
         NEW w \in Workers, NEW r \in Request, req' = [req EXCEPT ![w] = r],
         RequestOK(w)'
  PROVE  RowsInv'
<1>1. Evolves
  BY DEF Evolves
<1>2. TypeOK' /\ LinesOK'
  BY DEF RowsInv, TypeOK, LinesOK, Live
<1> QED
  BY <1>1, <1>2, StepOK DEF RowsInv, TypeOK

LEMMA FailKeeps ==
  ASSUME RowsInv, NEW w \in Workers, Fail(w)
  PROVE  RowsInv'
<1>1. req' = [req EXCEPT ![w] = Idle] /\ req'[w] = Idle
  BY DEF Fail, Finish, RowsInv, TypeOK
<1> QED
  BY <1>1, IdleType, IdleOK, LoadsEvolve DEF Fail

LEMMA LoadRouteKeeps ==
  ASSUME RowsInv, NEW w \in Workers, NEW l \in Lines, NEW dest \in Destinations,
         LoadRoute(w, l, dest)
  PROVE  RowsInv'
<1> DEFINE row == IF line[l].product = None THEN Unborn ELSE product[line[l].product]
           r == [Idle EXCEPT !.op = "route", !.on = l, !.to = dest, !.line = line[l],
                             !.status = row.status, !.dest = row.dest]
<1>1. /\ Live(l) /\ ~ Refused(r)
      /\ req' = [req EXCEPT ![w] = r]
      /\ UNCHANGED <<line, product, lot, raced>>
  BY DEF LoadRoute
<1>2. /\ line[l] \in LineRow
      /\ line[l].product # None => line[l].product \in Products /\ product[line[l].product] \in ProductRow
  BY DEF RowsInv, TypeOK, LineRow, LinesOK
<1>3. /\ r.op = "route" /\ r.on = l /\ r.to = dest /\ r.line = line[l] /\ r.queue = {}
      /\ r.status = row.status /\ r.dest = row.dest
  BY DEF Idle
<1>a. row.status \in Statuses \cup {"none"} /\ row.dest \in Destinations \cup {"none"}
  BY <1>2 DEF ProductRow, Unborn
<1>4. r \in Request
  BY <1>2, <1>a, IdleType DEF Request, Idle
<1>5. req'[w] = r
  BY <1>1 DEF RowsInv, TypeOK
<1>6. r.line.product = None => r.status = "none" /\ r.dest = "none"
  BY <1>3 DEF Unborn
<1> HIDE DEF r
<1>7. RequestOK(w)'
  <2>1. ~ Refused(req'[w])
    BY <1>1, <1>5
  <2>2. RouteOK(req[w])'
    BY <1>1, <1>2, <1>3, <1>5, <1>6, <2>1, UnbornIsNoRow DEF RouteOK, Refused, Live
  <2> QED
    BY <1>3, <1>5, <2>2 DEF RequestOK, StatusOK, LotOK, QueueOK, LotOps
<1> QED
  BY <1>1, <1>4, <1>7, LoadsEvolve

\* The loads of a request about a product: what they check is what it may do.
LEMMA LoadProductKeeps ==
  ASSUME RowsInv, NEW w \in Workers, NEW p \in Products, NEW op \in {"status", "publish"},
         NEW to \in Statuses, LoadProduct(w, p, op, to), product[p] # Unborn,
         op = "publish" => product[p].status \notin Terminal,
         op = "status" => \/ to \in Allowed(product[p].status)
                          \/ to = "sold" /\ product[p].status # "sold" /\ product[p].shop = "known"
  PROVE  RowsInv'
<1> DEFINE r == [Idle EXCEPT !.op = op, !.on = p, !.to = to, !.status = product[p].status]
<1>1. /\ req' = [req EXCEPT ![w] = r]
      /\ UNCHANGED <<line, product, lot, raced>>
  BY DEF LoadProduct
<1>2. r.op = op /\ r.on = p /\ r.to = to /\ r.status = product[p].status /\ r.queue = {}
  BY DEF Idle
<1>3. r \in Request
  <2>1. product[p].status \in Statuses
    BY DEF RowsInv, TypeOK, ProductRow
  <2> QED
    BY <2>1, IdleType DEF Request, Idle
<1>4. req'[w] = r
  BY <1>1 DEF RowsInv, TypeOK
<1>5. RequestOK(w)'
  BY <1>1, <1>2, <1>4 DEF RequestOK, RouteOK, StatusOK, LotOK, QueueOK, LotOps
<1> QED
  BY <1>1, <1>3, <1>5, LoadsEvolve

LEMMA LoadStatusKeeps ==
  ASSUME RowsInv, NEW w \in Workers, NEW p \in Products, NEW status \in Statuses,
         LoadStatus(w, p, status) \/ LoadImport(w, p, status) \/ LoadSale(w, p) \/ LoadPublish(w, p)
  PROVE  RowsInv'
<1>1. {"sold", "for_sale"} \subseteq Statuses
  BY DEF Statuses, Terminal
<1>2. product[p].shop = "known" => product[p] # Unborn
  BY DEF Unborn
<1>3. CASE LoadStatus(w, p, status)
  BY <1>3, LoadProductKeeps DEF LoadStatus
<1>4. CASE LoadImport(w, p, status)
  BY <1>2, <1>4, LoadProductKeeps DEF LoadImport
<1>5. CASE LoadSale(w, p)
  BY <1>1, <1>2, <1>5, LoadProductKeeps DEF LoadSale
<1>6. CASE LoadPublish(w, p)
  BY <1>1, <1>6, LoadProductKeeps DEF LoadPublish
<1> QED
  BY <1>3, <1>4, <1>5, <1>6

LEMMA LoadQueueKeeps ==
  ASSUME RowsInv, NEW w \in Workers, LoadQueue(w)
  PROVE  RowsInv'
<1> DEFINE r == [Idle EXCEPT !.op = "create", !.queue = Queue]
<1>1. req' = [req EXCEPT ![w] = r] /\ UNCHANGED <<line, product, lot, raced>>
  BY DEF LoadQueue
<1>2. r.op = "create" /\ r.queue = Queue
  BY DEF Idle
<1>3. r \in Request
  BY IdleType DEF Request, Idle, Queue
<1>4. req'[w] = r
  BY <1>1 DEF RowsInv, TypeOK
<1>5. RequestOK(w)'
  BY <1>1, <1>2, <1>4 DEF RequestOK, RouteOK, StatusOK, LotOK, QueueOK, LotOps, Queue, Live
<1> QED
  BY <1>1, <1>3, <1>5, LoadsEvolve

LEMMA LoadLotKeeps ==
  ASSUME RowsInv, NEW w \in Workers, NEW op \in LotOps, NEW L \in Lots,
         NEW payout \in Payouts \cup {None}, op = "update" => payout \in Payouts,
         LoadLot(w, op, L, payout)
  PROVE  RowsInv'
<1> DEFINE r == [Idle EXCEPT !.op = op, !.on = L, !.to = payout, !.lot = lot[L]]
<1>1. /\ Accepted(op, lot[L])
      /\ req' = [req EXCEPT ![w] = r]
      /\ UNCHANGED <<line, product, lot, raced>>
  BY DEF LoadLot
<1>2. r.op = op /\ r.on = L /\ r.to = payout /\ r.lot = lot[L] /\ r.queue = {}
  BY DEF Idle
<1>3. r \in Request
  BY IdleType DEF Request, Idle, RowsInv, TypeOK
<1>4. req'[w] = r
  BY <1>1 DEF RowsInv, TypeOK
<1>5. RequestOK(w)'
  BY <1>1, <1>2, <1>4 DEF RequestOK, RouteOK, StatusOK, LotOK, QueueOK, LotOps, Accepted
<1> QED
  BY <1>1, <1>3, <1>5, LoadsEvolve

-----------------------------------------------------------------------------
(* The steps: what a commit writes *)

\* What a route leaves in the rows: the product it worked on, and in the line
\* what Written says.  A row that was not as seen makes the product a raced one.
RouteEffect(w, p, L) ==
    LET r == req[w]
        l == r.on
    IN /\ l \in Lines
       /\ r.to \in Destinations
       /\ ~ Refused(r)
       /\ r.line.product = None => product[p] = Unborn
       /\ r.line.product # None => p = r.line.product /\ product[p] # Unborn
       /\ product' = [product EXCEPT ![p] = product'[p]]
       /\ product'[p] \in ProductRow
       /\ line' = [line EXCEPT ![l] = line'[l]]
       /\ line'[l] = [state   |-> line[l].state,
                      product |-> Written(r.line.product, p, line[l].product),
                      lot     |-> Written(r.line.lot, L, line[l].lot)]
       /\ product'[p].status = Written(r.status, StatusFor(r.to), product[p].status)
       /\ product'[p].dest = Written(r.dest, r.to, product[p].dest)
       /\ product'[p].shop = product[p].shop
       /\ L \in RouteLots(r)
       /\ line[l] \in LineRow
       /\ line[l].product # None /\ line'[l].product # line[l].product => p \in raced'
       /\ line'[l].product = p \/ (Live(l) => line'[l].product \in raced)
       /\ raced \subseteq raced'
       /\ raced' \subseteq raced \cup {p}
       /\ p \in raced' \/ (line[l] = r.line /\ product[p].status = r.status /\ product[p].dest = r.dest)
       /\ lot' = lot

LEMMA RouteWrites ==
  ASSUME RowsInv, NEW w \in Workers, NEW p \in Products, NEW L \in Lots \cup {None},
         Route(w, p, L)
  PROVE  RouteEffect(w, p, L)
<1> DEFINE r == req[w]
           l == r.on
<1>1. /\ r \in Request /\ r.op = "route"
      /\ RouteOK(r)
  BY DEF Route, RowsInv, TypeOK, RequestOK
<1>2. /\ l \in Lines /\ r.to \in Destinations /\ ~ Refused(r)
      /\ r.line.product = None => r.status = "none" /\ r.dest = "none"
      /\ r.line.product # None => product[r.line.product] # Unborn
      /\ Live(l) /\ r.line.product # None =>
           line[l].product = r.line.product \/ line[l].product \in raced
  BY <1>1 DEF RouteOK
<1>3. IF r.line.product = None THEN product[p] = Unborn ELSE p = r.line.product
  BY DEF Route, RouteProduct
<1>4. /\ product'[p] = [status |-> Written(r.status, StatusFor(r.to), product[p].status),
                        dest |-> Written(r.dest, r.to, product[p].dest),
                        shop |-> product[p].shop]
      /\ product' = [product EXCEPT ![p] = product'[p]]
  BY DEF Route, RowsInv, TypeOK
<1>5. product'[p] \in ProductRow
  <2>1. StatusFor(r.to) \in Statuses \ {"none"} /\ r.to # "none"
    BY <1>2 DEF StatusFor, Statuses, Terminal, Destinations
  <2>2. CASE r.line.product = None
    <3>1. r.status = "none" /\ r.dest = "none" /\ product[p].shop = "unknown"
      BY <1>2, <1>3, <2>2 DEF Unborn
    <3> QED
      BY <1>2, <1>4, <2>1, <3>1 DEF Written, ProductRow
  <2>3. CASE r.line.product # None
    <3>1. product[p] \in ProductRow
      BY <1>2, <1>3, <2>3 DEF RowsInv, TypeOK
    <3> QED
      BY <1>2, <1>4, <2>1, <3>1 DEF Written, ProductRow
  <2> QED
    BY <2>2, <2>3
<1>6. /\ line[l] \in LineRow
      /\ line' = [line EXCEPT ![l].product = Written(r.line.product, p, @),
                              ![l].lot = Written(r.line.lot, L, @)]
  BY <1>2 DEF Route, RowsInv, TypeOK
<1>7. /\ line'[l] = [state   |-> line[l].state,
                     product |-> Written(r.line.product, p, line[l].product),
                     lot     |-> Written(r.line.lot, L, line[l].lot)]
      /\ line' = [line EXCEPT ![l] = line'[l]]
  BY <1>2, <1>6 DEF RowsInv, TypeOK, LineRow
<1>8. line'[l].product = Written(r.line.product, p, line[l].product)
  BY <1>6, <1>7 DEF LineRow
<1>9. raced' = Marked(p, line[l] = r.line /\ product[p].status = r.status /\ product[p].dest = r.dest)
  BY DEF Route
<1>10. p # None
  BY ConstantsAssumption
<1>11. line[l].product # None /\ line'[l].product # line[l].product => p \in raced'
  BY <1>3, <1>8, <1>9 DEF Written, Marked
<1>12. line'[l].product = p \/ (Live(l) => line'[l].product \in raced)
  BY <1>2, <1>3, <1>8, <1>10 DEF Written
<1> QED
  <2>1. /\ L \in RouteLots(r) /\ lot' = lot
        /\ line[l] \in LineRow
        /\ product'[p].status = Written(r.status, StatusFor(r.to), product[p].status)
        /\ product'[p].dest = Written(r.dest, r.to, product[p].dest)
        /\ product'[p].shop = product[p].shop
    BY <1>4, <1>6 DEF Route
  <2>2. /\ raced \subseteq raced' /\ raced' \subseteq raced \cup {p}
        /\ p \in raced' \/ (line[l] = r.line /\ product[p].status = r.status /\ product[p].dest = r.dest)
    BY <1>9 DEF Marked
  <2> QED
    BY <1>2, <1>3, <1>4, <1>5, <1>7, <1>11, <1>12, <2>1, <2>2 DEF RouteEffect

LEMMA RouteKeeps ==
  ASSUME RowsInv, NEW w \in Workers, NEW p \in Products, NEW L \in Lots \cup {None},
         Route(w, p, L)
  PROVE  RowsInv'
<1> DEFINE r == req[w]
           l == r.on
<1>1. /\ l \in Lines
      /\ r.line.product # None => p = r.line.product
      /\ product' = [product EXCEPT ![p] = product'[p]]
      /\ product'[p] \in ProductRow /\ product'[p].shop = product[p].shop
      /\ line' = [line EXCEPT ![l] = line'[l]]
      /\ line'[l] = [state   |-> line[l].state,
                     product |-> Written(r.line.product, p, line[l].product),
                     lot     |-> Written(r.line.lot, L, line[l].lot)]
      /\ line[l].product # None /\ line'[l].product # line[l].product => p \in raced'
      /\ raced \subseteq raced' /\ raced' \subseteq raced \cup {p}
  <2>1. RouteEffect(w, p, L)
    BY RouteWrites
  <2> QED
    BY <2>1 DEF RouteEffect
<1>2. /\ line[l] \in LineRow /\ p # None
      /\ line'[l].state = line[l].state
      /\ line'[l].product \in {p, line[l].product}
      /\ line'[l].product = Written(r.line.product, p, line[l].product)
      /\ line'[l].lot = Written(r.line.lot, L, line[l].lot)
  <2>1. line[l] \in LineRow /\ p # None
    BY <1>1, ConstantsAssumption DEF RowsInv, TypeOK
  <2>2. Written(r.line.product, p, line[l].product) \in {p, line[l].product}
    BY DEF Written
  <2> QED
    BY <1>1, <2>1, <2>2
<1>3. line'[l] \in LineRow
  <2>1. Written(r.line.lot, L, line[l].lot) \in {L, line[l].lot}
    BY DEF Written
  <2> QED
    BY <1>1, <1>2, <2>1 DEF LineRow
<1>4. req' = [req EXCEPT ![w] = Idle] /\ req'[w] = Idle /\ lot' = lot
  BY DEF Route, Finish, RowsInv, TypeOK
<1>5. TypeOK'
  BY <1>1, <1>3, <1>4, IdleType DEF RowsInv, TypeOK
<1>6. Evolves
  BY <1>1, <1>2, UnbornIsNoRow DEF Evolves, RowsInv, TypeOK
<1>7. Live(l) \/ (p = r.line.product /\ L = r.line.lot)
  BY DEF Route
<1>8. LinesOK'
  <2> SUFFICES ASSUME NEW k \in Lines
               PROVE  /\ line'[k].product # None => product'[line'[k].product] # Unborn
                      /\ line'[k].state # "live" => line'[k].product = None /\ line'[k].lot = None
    BY DEF LinesOK, Live
  <2>1. CASE k # l
    <3>1. line'[k] = line[k] /\ line[k] \in LineRow
      BY <1>1, <2>1 DEF RowsInv, TypeOK
    <3>2. line[k].product # None =>
            line[k].product \in Products /\ product[line[k].product] # Unborn
      BY <3>1 DEF LineRow, LinesOK, RowsInv
    <3>3. \A q \in Products : product[q] # Unborn => product'[q] # Unborn
      BY <1>6 DEF Evolves
    <3> QED
      BY <3>1, <3>2, <3>3 DEF LinesOK, RowsInv, Live
  <2>2. CASE k = l
    <3>1. line'[l].product # None => product'[line'[l].product] # Unborn
      BY <1>1, <1>2, UnbornIsNoRow DEF LinesOK, RowsInv, TypeOK, LineRow
    <3>2. CASE Live(l)
      BY <1>2, <2>2, <3>1, <3>2 DEF Live
    <3>3. CASE ~ Live(l)
      BY <1>2, <1>7, <2>2, <3>1, <3>3, WrittenIs DEF LinesOK, RowsInv
    <3> QED
      BY <3>2, <3>3
  <2> QED
    BY <2>1, <2>2
<1> QED
  BY <1>4, <1>5, <1>6, <1>8, IdleOK, StepOK DEF RowsInv, TypeOK

\* What a request about a product leaves: one row of products.  The status it
\* sets leaves a terminal one only for a sale of the web shop, or unseen.
StatusOp(w) == ChangeStatus(w) \/ Publish(w)

StatusEffect(w) ==
    LET p == req[w].on
    IN /\ p \in Products
       /\ product[p] \in ProductRow
       /\ product' = [product EXCEPT ![p] = product'[p]]
       /\ product'[p] \in ProductRow
       /\ product'[p].dest = product[p].dest
       /\ product[p].shop = "known" => product'[p].shop = "known"
       /\ \/ p \in raced'
          \/ product[p].status \notin Terminal
          \/ product'[p].status = product[p].status
          \/ product[p].shop = "known" /\ product[p].status = "melted" /\ product'[p].status = "sold"
       /\ raced \subseteq raced'
       /\ raced' \subseteq raced \cup {p}
       /\ UNCHANGED <<line, lot>>
       /\ req' = [req EXCEPT ![w] = Idle]

LEMMA StatusWrites ==
  ASSUME RowsInv, NEW w \in Workers, StatusOp(w)
  PROVE  StatusEffect(w)
<1> DEFINE r == req[w]
           p == r.on
<1>1. r.op \in {"status", "publish"}
  BY DEF StatusOp, ChangeStatus, Publish
<1>2. /\ p \in Products /\ product[p] \in ProductRow /\ r.to \in Statuses
      /\ r.op = "publish" => r.status \notin Terminal
      /\ r.op = "status" => \/ r.to \in Allowed(r.status)
                            \/ r.to = "sold" /\ r.status # "sold" /\ product[p].shop = "known"
  BY <1>1 DEF RowsInv, TypeOK, RequestOK, StatusOK
<1>3. PICK shop \in {"unknown", "known"} : ProductWritten(w, shop) /\ (product[p].shop = "known" => shop = "known")
  <2>1. product[p].shop \in {"unknown", "known"}
    BY <1>2 DEF ProductRow
  <2> QED
    BY <2>1 DEF StatusOp, ChangeStatus, Publish
<1>4. /\ product' = [product EXCEPT ![p].status = Written(r.status, r.to, @), ![p].shop = shop]
      /\ raced' = Marked(p, product[p].status = r.status)
      /\ req' = [req EXCEPT ![w] = Idle]
      /\ UNCHANGED <<line, lot>>
  BY <1>3 DEF ProductWritten, Finish
<1>5. /\ product' = [product EXCEPT ![p] = product'[p]]
      /\ product'[p] = [status |-> Written(r.status, r.to, product[p].status),
                        dest |-> product[p].dest, shop |-> shop]
  BY <1>2, <1>4 DEF RowsInv, TypeOK, ProductRow
<1>6. product'[p] \in ProductRow
  <2>1. Written(r.status, r.to, product[p].status) \in Statuses
    BY <1>2 DEF Written, ProductRow
  <2> QED
    BY <1>2, <1>5, <2>1 DEF ProductRow
<1>7. /\ raced \subseteq raced' /\ raced' \subseteq raced \cup {p}
      /\ p \in raced' \/ product[p].status = r.status
  BY <1>4 DEF Marked
<1>8. ASSUME p \notin raced', product[p].status \in Terminal
      PROVE  \/ product'[p].status = product[p].status
             \/ product[p].shop = "known" /\ product[p].status = "melted" /\ product'[p].status = "sold"
  <2>1. r.status = product[p].status /\ Allowed(r.status) = {}
    BY <1>7, <1>8 DEF Allowed, Terminal
  <2>2. r.to = "sold" /\ r.status = "melted" /\ product[p].shop = "known"
    BY <1>1, <1>2, <1>8, <2>1 DEF Terminal
  <2> QED
    BY <1>5, <2>1, <2>2 DEF Written
<1>9. product'[p].dest = product[p].dest /\ (product[p].shop = "known" => product'[p].shop = "known")
  BY <1>3, <1>5
<1> QED
  BY <1>2, <1>4, <1>5, <1>6, <1>7, <1>8, <1>9 DEF StatusEffect

LEMMA StatusOpKeeps ==
  ASSUME RowsInv, NEW w \in Workers, StatusOp(w)
  PROVE  RowsInv'
<1> DEFINE p == req[w].on
<1>1. StatusEffect(w)
  BY StatusWrites
<1>2. TypeOK'
  BY <1>1, IdleType DEF StatusEffect, RowsInv, TypeOK
<1>3. Evolves
  BY <1>1, UnbornIsNoRow DEF StatusEffect, Evolves, RowsInv, TypeOK
<1>4. LinesOK'
  BY <1>1, UnbornIsNoRow DEF StatusEffect, LinesOK, Live, RowsInv, TypeOK, LineRow
<1>5. req' = [req EXCEPT ![w] = Idle] /\ req'[w] = Idle
  BY <1>1 DEF StatusEffect, RowsInv, TypeOK
<1> QED
  BY <1>2, <1>3, <1>4, <1>5, IdleOK, StepOK DEF RowsInv, TypeOK

LEMMA CreateLotKeeps ==
  ASSUME RowsInv, NEW w \in Workers, NEW L \in Lots, CreateLot(w, L)
  PROVE  RowsInv'
<1>1. /\ lot' = [lot EXCEPT ![L] = [status |-> "draft", payout |-> "blank"]]
      /\ line' = [l \in Lines |-> IF l \in Attached(req[w].queue)
                                  THEN [line[l] EXCEPT !.lot = L] ELSE line[l]]
      /\ req' = [req EXCEPT ![w] = Idle]
      /\ UNCHANGED <<product, raced>>
  BY DEF CreateLot, Finish
<1>2. req[w].queue \subseteq Lines
  BY DEF RowsInv, TypeOK, Request
<1>3. ASSUME NEW l \in Lines
      PROVE  /\ line'[l] \in LineRow
             /\ line'[l].state = line[l].state
             /\ line'[l].product = line[l].product
             /\ ~ Live(l) => line'[l] = line[l]
  BY <1>1 DEF RowsInv, TypeOK, LineRow, Attached
<1>4. TypeOK'
  <2>1. line' \in [Lines -> LineRow]
    BY <1>1, <1>3
  <2>2. lot' \in [Lots -> LotRow]
    BY <1>1, <1>2 DEF RowsInv, TypeOK, LotRow, Payouts
  <2> QED
    BY <1>1, <2>1, <2>2, IdleType DEF RowsInv, TypeOK
<1>5. Evolves
  BY <1>1, <1>3 DEF Evolves
<1>6. LinesOK'
  <2> SUFFICES ASSUME NEW l \in Lines
               PROVE  /\ line'[l].product # None => product'[line'[l].product] # Unborn
                      /\ line'[l].state # "live" => line'[l].product = None /\ line'[l].lot = None
    BY DEF LinesOK, Live
  <2>1. product' = product
    BY <1>1
  <2> QED
    BY <1>3, <2>1 DEF LinesOK, Live, RowsInv
<1>7. req'[w] = Idle
  BY <1>1 DEF RowsInv, TypeOK
<1> QED
  BY <1>1, <1>4, <1>5, <1>6, <1>7, IdleOK, StepOK DEF RowsInv, TypeOK

\* What a request about a lot leaves: one row of lots, and no new link of a line.
LotStep(w) ==
    /\ req[w].op \in LotOps
    /\ \E row \in LotRow : LotWritten(w, row)
    /\ UNCHANGED product
    /\ line' = line \/ line' = [l \in Lines |-> IF line[l].lot = req[w].on
                                THEN [line[l] EXCEPT !.lot = None] ELSE line[l]]

LEMMA LotSteps ==
  ASSUME RowsInv, NEW w \in Workers,
         UpdateLot(w) \/ FinalizeLot(w) \/ ReopenLot(w) \/ DeleteLot(w)
  PROVE  LotStep(w)
<1>1. req[w].op \in LotOps
  BY DEF UpdateLot, FinalizeLot, ReopenLot, DeleteLot, Working, LotOps
<1>2. /\ req[w].on \in Lots /\ lot[req[w].on] \in LotRow
      /\ req[w].op = "update" => req[w].to \in Payouts
  BY <1>1 DEF RowsInv, TypeOK, RequestOK, LotOK
<1>3. CASE UpdateLot(w)
  BY <1>1, <1>2, <1>3, WrittenIs DEF UpdateLot, LotStep, LotRow, Working, Written
<1>4. CASE FinalizeLot(w)
  BY <1>1, <1>2, <1>4 DEF FinalizeLot, LotStep, LotRow
<1>5. CASE ReopenLot(w)
  BY <1>1, <1>2, <1>5 DEF ReopenLot, LotStep, LotRow
<1>6. CASE DeleteLot(w)
  BY <1>1, <1>2, <1>6 DEF DeleteLot, LotStep, LotRow, NoLot, Payouts
<1> QED
  BY <1>3, <1>4, <1>5, <1>6

LEMMA LotStepKeeps ==
  ASSUME RowsInv, NEW w \in Workers, LotStep(w)
  PROVE  RowsInv'
<1>1. PICK row \in LotRow : LotWritten(w, row)
  BY DEF LotStep
<1>2. req[w].on \in Lots
  BY DEF LotStep, RowsInv, RequestOK, LotOK
<1>3. /\ lot' = [lot EXCEPT ![req[w].on] = row]
      /\ raced' \in {raced, raced \cup {req[w].on}}
      /\ req' = [req EXCEPT ![w] = Idle]
      /\ product' = product
  BY <1>1 DEF LotWritten, Finish, Marked, LotStep
<1>4. ASSUME NEW l \in Lines
      PROVE  /\ line'[l] \in LineRow
             /\ line'[l].state = line[l].state
             /\ line'[l].product = line[l].product
             /\ line'[l].lot \in {line[l].lot, None}
  BY DEF LotStep, RowsInv, TypeOK, LineRow
<1>5. TypeOK'
  <2>1. line' \in [Lines -> LineRow]
    BY <1>4 DEF LotStep, RowsInv, TypeOK
  <2> QED
    BY <1>2, <1>3, <2>1, IdleType DEF RowsInv, TypeOK
<1>6. Evolves
  BY <1>3, <1>4 DEF Evolves
<1>7. LinesOK'
  BY <1>3, <1>4 DEF LinesOK, Live, RowsInv
<1>8. req'[w] = Idle
  BY <1>3 DEF RowsInv, TypeOK
<1> QED
  BY <1>3, <1>5, <1>6, <1>7, <1>8, IdleOK, StepOK DEF RowsInv, TypeOK

\* The steps of the purchase workspace: new lines come free, without product or
\* lot, and a line that is deleted has neither any more.
DocStep ==
    /\ UNCHANGED <<product, lot, req, raced>>
    /\ line' \in [Lines -> LineRow]
    /\ \A l \in Lines :
         \/ line'[l] = line[l]
         \/ line[l].state = "free" /\ line'[l] = [Unused EXCEPT !.state = "live"]
         \/ line[l].state = "live" /\ line'[l] = Gone

LEMMA DocSteps ==
  ASSUME RowsInv, Documents
  PROVE  DocStep
<1>1. /\ [Unused EXCEPT !.state = "live"] \in LineRow
      /\ Gone \in LineRow
  BY DEF Unused, Gone, LineRow
<1>2. PICK d \in Docs : \E S \in SUBSET {l \in Lines : DocOf[l] = d} : Purchase(d, S) \/ Revise(d, S)
  BY DEF Documents
<1> PICK S \in SUBSET {l \in Lines : DocOf[l] = d} : Purchase(d, S) \/ Revise(d, S)
  BY <1>2
<1>3. CASE Purchase(d, S)
  BY <1>1, <1>3 DEF Purchase, DocStep, RowsInv, TypeOK
<1>4. CASE Revise(d, S)
  BY <1>1, <1>4 DEF Revise, DocStep, RowsInv, TypeOK, Live
<1> QED
  BY <1>3, <1>4

LEMMA DocStepKeeps ==
  ASSUME RowsInv, DocStep
  PROVE  RowsInv'
<1>1. TypeOK'
  BY DEF DocStep, RowsInv, TypeOK
<1>2. Evolves
  BY DEF DocStep, Evolves, Gone
<1>3. LinesOK'
  BY DEF DocStep, LinesOK, Live, Unused, Gone, RowsInv
<1>4. \A w \in Workers : RequestOK(w)'
  BY <1>2, OthersStay DEF DocStep
<1> QED
  BY <1>1, <1>3, <1>4 DEF RowsInv

-----------------------------------------------------------------------------
(* All steps *)

LotOp(w) == UpdateLot(w) \/ FinalizeLot(w) \/ ReopenLot(w) \/ DeleteLot(w)

\* A step leaves all rows as they are, or is of one of five kinds.
LEMMA StepKinds ==
  ASSUME RowsInv, [Next]_vars
  PROVE  \/ UNCHANGED <<line, product, lot, raced>>
         \/ DocStep
         \/ \E w \in Workers, p \in Products, L \in Lots \cup {None} : Route(w, p, L)
         \/ \E w \in Workers : StatusOp(w)
         \/ \E w \in Workers, L \in Lots : CreateLot(w, L)
         \/ \E w \in Workers : LotOp(w)
<1>1. CASE UNCHANGED vars
  BY <1>1 DEF vars
<1>2. CASE Documents
  BY <1>2, DocSteps
<1>3. ASSUME NEW w \in Workers, Load(w) \/ Fail(w)
      PROVE  UNCHANGED <<line, product, lot, raced>>
  BY <1>3 DEF Load, Fail, LoadRoute, LoadStatus, LoadImport, LoadSale, LoadPublish, LoadProduct,
     LoadQueue, LoadLot
<1> QED
  BY <1>1, <1>2, <1>3 DEF Next, Commit, LotOp, StatusOp

LEMMA RowsKept ==
  ASSUME RowsInv, [Next]_vars
  PROVE  RowsInv'
<1>1. CASE UNCHANGED vars
  <2>1. TypeOK' /\ LinesOK' /\ Evolves /\ req' = req
    BY <1>1 DEF vars, RowsInv, TypeOK, LinesOK, Live, Evolves
  <2> QED
    BY <2>1, OthersStay DEF RowsInv
<1>2. CASE Documents
  BY <1>2, DocSteps, DocStepKeeps
<1>3. ASSUME NEW w \in Workers, Load(w)
      PROVE  RowsInv'
  <2>1. CASE \E l \in Lines, dest \in Routed : LoadRoute(w, l, dest)
    BY <2>1, LoadRouteKeeps, BoundsAssumption
  <2>2. CASE \/ \E p \in Traded, status \in Changed : LoadStatus(w, p, status)
             \/ \E p \in Traded, status \in Imported : LoadImport(w, p, status)
             \/ \E p \in Traded : LoadSale(w, p) \/ LoadPublish(w, p)
    <3>1. "sold" \in Statuses
      BY DEF Statuses, Terminal
    <3> QED
      BY <2>2, <3>1, LoadStatusKeeps, BoundsAssumption
  <2>3. CASE LoadQueue(w)
    BY <2>3, LoadQueueKeeps
  <2>4. CASE \E L \in Handled, payout \in Payouts : LoadLot(w, "update", L, payout)
    BY <2>4, LoadLotKeeps, BoundsAssumption DEF LotOps
  <2>5. CASE \E L \in Handled, op \in LotOps \ {"update"} : LoadLot(w, op, L, None)
    BY <2>5, LoadLotKeeps, BoundsAssumption
  <2> QED
    BY <1>3, <2>1, <2>2, <2>3, <2>4, <2>5 DEF Load
<1>4. ASSUME NEW w \in Workers, Commit(w)
      PROVE  RowsInv'
  <2>1. CASE LotOp(w)
    BY <2>1, LotSteps, LotStepKeeps DEF LotOp
  <2> QED
    BY <1>4, <2>1, RouteKeeps, StatusOpKeeps, CreateLotKeeps DEF Commit, LotOp, StatusOp
<1> QED
  BY <1>1, <1>2, <1>3, <1>4, FailKeeps DEF Next

LEMMA RowsAtFirst == Init => RowsInv
<1> SUFFICES ASSUME Init PROVE RowsInv
  OBVIOUS
<1>1. TypeOK
  BY IdleType DEF Init, TypeOK, LineRow, LotRow, Unused, NoLot, Payouts
<1>2. LinesOK
  BY DEF Init, LinesOK, Unused
<1>3. \A w \in Workers : req[w] = Idle
  BY DEF Init
<1>4. \A w \in Workers : RequestOK(w)
  BY <1>3 DEF RequestOK, RouteOK, StatusOK, LotOK, QueueOK, Idle, LotOps
<1> QED
  BY <1>1, <1>2, <1>4 DEF RowsInv

\* Rows and requests keep their types, and what a request has seen stays tied
\* to the rows.
THEOREM RowsInvariance == Spec => []RowsInv
<1>1. RowsInv /\ [Next]_vars => RowsInv'
  BY RowsKept
<1> QED
  BY RowsAtFirst, <1>1, PTL DEF Spec

\* Lines, products, lots and requests have the columns the models declare,
\* whatever requests overlap.
THEOREM TypeCorrect == Spec => []TypeOK
  BY RowsInvariance, PTL DEF RowsInv

-----------------------------------------------------------------------------
(* Terminal statuses *)

\* A route that found the product as it had seen it did not find it sold or
\* melted.
LEMMA RouteSparesTerminal ==
  ASSUME RowsInv, NEW w \in Workers, NEW p \in Products, NEW L \in Lots \cup {None},
         Route(w, p, L), p \notin raced'
  PROVE  product[p].status \notin Terminal
<1>1. RouteEffect(w, p, L)
  BY RouteWrites
<1>2. product[p].status = req[w].status /\ ~ Refused(req[w])
  BY <1>1 DEF RouteEffect
<1> QED
  BY <1>2 DEF Refused

\* TerminalStays, of one step.
TerminalStep ==
    \A p \in Products : product[p].status \in Terminal /\ p \notin raced' =>
      \/ product'[p].status = product[p].status
      \/ product[p].shop = "known" /\ product[p].status = "melted" /\ product'[p].status = "sold"

LEMMA TerminalKept ==
  ASSUME RowsInv, [Next]_vars
  PROVE  TerminalStep
<1>1. ASSUME NEW w \in Workers, NEW p \in Products, NEW L \in Lots \cup {None}, Route(w, p, L)
      PROVE  TerminalStep
  <2>1. RouteEffect(w, p, L)
    BY <1>1, RouteWrites
  <2>2. product' = [product EXCEPT ![p] = product'[p]]
    BY <2>1 DEF RouteEffect
  <2> QED
    BY <1>1, <2>2, RouteSparesTerminal DEF TerminalStep, RowsInv, TypeOK
<1>2. ASSUME NEW w \in Workers, StatusOp(w)
      PROVE  TerminalStep
  BY <1>2, StatusWrites DEF StatusEffect, TerminalStep, RowsInv, TypeOK
<1>3. ASSUME product' = product
      PROVE  TerminalStep
  BY <1>3 DEF TerminalStep
<1>4. ASSUME NEW w \in Workers, LotOp(w)
      PROVE  product' = product
  BY <1>4, LotSteps DEF LotOp, LotStep
<1> QED
  BY <1>1, <1>2, <1>3, <1>4, StepKinds DEF DocStep, CreateLot

\* A sold product stays sold and a melted one melted, unless the web shop sells
\* it or a request read it before it was sold or melted, for any number of
\* requests at once.
THEOREM TerminalIsFinal == Spec => TerminalStays
<1>1. RowsInv /\ [Next]_vars =>
        [\A p \in Products : product[p].status \in Terminal /\ p \notin raced' =>
           \/ product'[p].status = product[p].status
           \/ product[p].shop = "known" /\ product[p].status = "melted" /\ product'[p].status = "sold"]_vars
  BY TerminalKept DEF TerminalStep
<1> QED
  BY <1>1, RowsInvariance, PTL DEF Spec, TerminalStays

-----------------------------------------------------------------------------
(* Lots and the lines in them *)

\* A route leaves the line's lot alone, or takes the line out of the lot it
\* saw it in, or puts a line it saw in no lot into a draft.
LEMMA RouteMoves ==
  ASSUME RowsInv, NEW w \in Workers, NEW p \in Products, NEW L \in Lots \cup {None},
         Route(w, p, L), NEW l \in Lines
  PROVE  \/ line'[l].lot = line[l].lot
         \/ line'[l].lot = None /\ req[w].on = l /\ req[w].to # "melt"
         \/ line'[l].lot \in Drafts /\ req[w].on = l /\ req[w].line.lot = None
<1>1. RouteEffect(w, p, L)
  BY RouteWrites
<1> DEFINE r == req[w]
<1>2. CASE l # r.on
  BY <1>1, <1>2 DEF RouteEffect, RowsInv, TypeOK
<1>3. CASE l = r.on
  <2>1. line'[l].lot = Written(r.line.lot, L, line[l].lot) /\ L \in RouteLots(r)
    BY <1>1, <1>3 DEF RouteEffect
  <2>2. CASE r.to # "melt"
    BY <1>3, <2>1, <2>2 DEF RouteLots, Written
  <2>3. CASE r.to = "melt"
    BY <1>3, <2>1, <2>3 DEF RouteLots, Written, Drafts
  <2> QED
    BY <2>2, <2>3
<1> QED
  BY <1>2, <1>3

\* What a request about a lot does: it writes the row it has read, which a
\* change since then makes a raced one, and only a delete moves lines.
LotEffect(w) ==
    LET L == req[w].on
    IN /\ L \in Lots
       /\ Exists(L)
       /\ lot' = [lot EXCEPT ![L] = lot'[L]]
       /\ L \in raced' \/ lot[L] = req[w].lot
       /\ raced \subseteq raced'
       /\ \/ /\ req[w].lot.status = "draft"
             /\ line' = [l \in Lines |-> IF line[l].lot = L
                                         THEN [line[l] EXCEPT !.lot = None] ELSE line[l]]
             /\ lot'[L].status = "deleted"
          \/ /\ req[w].lot.status = "draft"
             /\ line' = line
             /\ lot'[L].status = lot[L].status
          \/ /\ req[w].lot.payout = "paid"
             /\ line' = line
             /\ lot'[L].status = "finalized"
             /\ lot'[L].payout = lot[L].payout
          \/ /\ line' = line
             /\ lot'[L].status = "draft"

LEMMA LotRows ==
  ASSUME RowsInv, NEW w \in Workers, LotOp(w)
  PROVE  LotEffect(w)
<1> DEFINE L == req[w].on
<1>1. LotStep(w) /\ req[w].op \in LotOps
  BY LotSteps DEF LotOp, LotStep
<1>2. /\ L \in Lots /\ lot[L] \in LotRow
      /\ Accepted(req[w].op, req[w].lot)
  BY <1>1 DEF RowsInv, TypeOK, RequestOK, LotOK
<1>3. /\ raced' = Marked(L, lot[L] = req[w].lot)
      /\ lot' = [lot EXCEPT ![L] = lot'[L]]
  <2>1. PICK row \in LotRow : LotWritten(w, row)
    BY <1>1 DEF LotStep
  <2> QED
    BY <1>2, <2>1 DEF LotWritten, RowsInv, TypeOK
<1>4. /\ raced \subseteq raced'
      /\ L \in raced' \/ lot[L] = req[w].lot
  BY <1>3 DEF Marked
<1>5. CASE UpdateLot(w)
  <2>1. /\ Exists(L) /\ req[w].op = "update" /\ line' = line
        /\ lot'[L] = [lot[L] EXCEPT !.payout = Written(req[w].lot.payout, req[w].to, @)]
    BY <1>2, <1>5 DEF UpdateLot, Working, LotWritten, RowsInv, TypeOK
  <2>2. lot'[L].status = lot[L].status /\ req[w].lot.status = "draft"
    BY <1>2, <2>1 DEF LotRow, Accepted
  <2> QED
    BY <1>2, <1>3, <1>4, <2>1, <2>2 DEF LotEffect
<1>6. CASE FinalizeLot(w)
  <2>1. /\ Exists(L) /\ req[w].op = "finalize" /\ line' = line
        /\ lot'[L] = [lot[L] EXCEPT !.status = "finalized"]
    BY <1>2, <1>6 DEF FinalizeLot, Working, LotWritten, RowsInv, TypeOK
  <2>2. /\ lot'[L].status = "finalized" /\ lot'[L].payout = lot[L].payout
        /\ req[w].lot.payout = "paid"
    BY <1>2, <2>1 DEF LotRow, Accepted
  <2> QED
    BY <1>2, <1>3, <1>4, <2>1, <2>2 DEF LotEffect
<1>7. CASE ReopenLot(w)
  <2>1. /\ Exists(L) /\ line' = line
        /\ lot'[L] = [lot[L] EXCEPT !.status = "draft"]
    BY <1>2, <1>7 DEF ReopenLot, Working, LotWritten, RowsInv, TypeOK
  <2>2. lot'[L].status = "draft"
    BY <1>2, <2>1 DEF LotRow
  <2> QED
    BY <1>2, <1>3, <1>4, <2>1, <2>2 DEF LotEffect
<1>8. CASE DeleteLot(w)
  <2>1. /\ Exists(L) /\ req[w].op = "delete"
        /\ lot'[L] = [NoLot EXCEPT !.status = "deleted"]
        /\ line' = [l \in Lines |-> IF line[l].lot = L
                                    THEN [line[l] EXCEPT !.lot = None] ELSE line[l]]
    BY <1>2, <1>8 DEF DeleteLot, Working, LotWritten, RowsInv, TypeOK
  <2>2. lot'[L].status = "deleted" /\ req[w].lot.status = "draft"
    BY <1>2, <2>1 DEF NoLot, Accepted
  <2> QED
    BY <1>2, <1>3, <1>4, <2>1, <2>2 DEF LotEffect
<1> QED
  BY <1>5, <1>6, <1>7, <1>8 DEF LotOp

\* How any step changes the lot of a line.
LEMMA LineMoves ==
  ASSUME RowsInv, [Next]_vars, NEW l \in Lines
  PROVE  \/ line'[l].lot = line[l].lot
         \/ line'[l].lot = None
         \/ /\ line'[l].lot \in Drafts /\ lot' = lot
            /\ \E w \in Workers, p \in Products, L \in Lots \cup {None} :
                  Route(w, p, L) /\ req[w].on = l /\ req[w].line.lot = None
         \/ /\ line[l].lot = None
            /\ \E w \in Workers : CreateLot(w, line'[l].lot)
<1>1. CASE DocStep
  BY <1>1 DEF DocStep, Unused, Gone
<1>2. ASSUME NEW w \in Workers, NEW p \in Products, NEW L \in Lots \cup {None}, Route(w, p, L)
      PROVE  \/ line'[l].lot = line[l].lot
             \/ line'[l].lot = None
             \/ line'[l].lot \in Drafts /\ lot' = lot /\ req[w].on = l /\ req[w].line.lot = None
  BY <1>2, RouteMoves DEF Route
<1>3. ASSUME NEW w \in Workers, NEW L \in Lots, CreateLot(w, L)
      PROVE  line'[l].lot = line[l].lot \/ (line[l].lot = None /\ line'[l].lot = L)
  <2>1. line'[l] = IF l \in Attached(req[w].queue) THEN [line[l] EXCEPT !.lot = L] ELSE line[l]
    BY <1>3 DEF CreateLot
  <2>2. line[l] \in LineRow
    BY DEF RowsInv, TypeOK
  <2>3. CASE l \in Attached(req[w].queue)
    <3>1. line[l].lot = None
      BY <2>3 DEF Attached
    <3>2. line'[l].lot = L
      BY <2>1, <2>2, <2>3 DEF LineRow
    <3> QED
      BY <3>1, <3>2
  <2> QED
    BY <2>1, <2>3
<1>4. ASSUME NEW w \in Workers, LotOp(w)
      PROVE  line'[l].lot = line[l].lot \/ line'[l].lot = None
  BY <1>4, LotSteps DEF LotOp, LotStep, RowsInv, TypeOK, LineRow
<1> QED
  BY <1>1, <1>2, <1>3, <1>4, StepKinds, StatusWrites DEF StatusEffect

LEMMA DanglingKept ==
  ASSUME RowsInv, NoDanglingLots, [Next]_vars
  PROVE  NoDanglingLots'
<1> SUFFICES ASSUME NEW l \in Lines, line'[l].lot # None
             PROVE  lot'[line'[l].lot].status \in {"draft", "finalized"}
  BY DEF NoDanglingLots, Exists
<1>1. line[l] \in LineRow /\ line[l].lot \in Lots \cup {None}
  BY DEF RowsInv, TypeOK, LineRow
<1>2. CASE line'[l].lot = line[l].lot
  <2>1. Exists(line[l].lot) /\ line[l].lot \in Lots
    BY <1>1, <1>2 DEF NoDanglingLots
  <2>2. ASSUME NEW w \in Workers, LotOp(w)
        PROVE  lot'[line[l].lot].status \in {"draft", "finalized"}
    <3>1. LotEffect(w)
      BY <2>2, LotRows
    <3> QED
      BY <1>1, <1>2, <2>1, <3>1 DEF LotEffect, Exists, RowsInv, TypeOK, LineRow
  <2>3. ASSUME NEW w \in Workers, NEW L \in Lots, CreateLot(w, L)
        PROVE  lot'[line[l].lot].status \in {"draft", "finalized"}
    BY <2>1, <2>3 DEF CreateLot, Exists, RowsInv, TypeOK
  <2> QED
    BY <1>2, <2>1, <2>2, <2>3, StepKinds, StatusWrites DEF DocStep, Route, StatusEffect, Exists
<1>3. CASE line'[l].lot \in Drafts /\ lot' = lot
  BY <1>3 DEF Drafts, Exists
<1>4. CASE \E w \in Workers : CreateLot(w, line'[l].lot)
  <2>1. line'[l].lot \in Lots
    BY RowsKept DEF RowsInv, TypeOK, LineRow
  <2>2. lot'[line'[l].lot] = [status |-> "draft", payout |-> "blank"]
    BY <1>4, <2>1 DEF CreateLot, RowsInv, TypeOK
  <2> QED
    BY <2>2
<1> QED
  BY <1>2, <1>3, <1>4, LineMoves

LEMMA PaidKept ==
  ASSUME RowsInv, FinalizedIsPaid, [Next]_vars
  PROVE  FinalizedIsPaid'
<1> SUFFICES ASSUME NEW L \in Lots, lot'[L].status = "finalized", L \notin raced'
             PROVE  lot'[L].payout = "paid"
  BY DEF FinalizedIsPaid
<1>1. ASSUME NEW w \in Workers, LotOp(w)
      PROVE  lot'[L].payout = "paid"
  <2>1. LotEffect(w)
    BY <1>1, LotRows
  <2> QED
    BY <2>1 DEF LotEffect, FinalizedIsPaid, RowsInv, TypeOK
<1>2. ASSUME NEW w \in Workers, NEW M \in Lots, CreateLot(w, M)
      PROVE  lot'[L] = lot[L] /\ raced' = raced
  BY <1>2 DEF CreateLot, RowsInv, TypeOK
<1>3. ASSUME lot' = lot, raced \subseteq raced'
      PROVE  lot'[L].payout = "paid"
  BY <1>3 DEF FinalizedIsPaid
<1>4. ASSUME NEW w \in Workers, NEW p \in Products, NEW M \in Lots \cup {None}, Route(w, p, M)
      PROVE  lot' = lot /\ raced \subseteq raced'
  BY <1>4 DEF Route, Marked
<1>5. ASSUME NEW w \in Workers, StatusOp(w)
      PROVE  lot' = lot /\ raced \subseteq raced'
  BY <1>5, StatusWrites DEF StatusEffect
<1> QED
  BY <1>1, <1>2, <1>3, <1>4, <1>5, StepKinds DEF DocStep, FinalizedIsPaid

\* No line refers to a lot that is not there, although the desktop database would
\* accept it: a route attaches to a draft that exists when it writes, and a
\* deletion clears every link.
THEOREM LotsOfLinesExist == Spec => []NoDanglingLots
<1>1. Init => NoDanglingLots
  BY DEF Init, NoDanglingLots, Unused
<1>2. RowsInv /\ NoDanglingLots /\ [Next]_vars => NoDanglingLots'
  BY DanglingKept
<1> QED
  BY <1>1, <1>2, RowsInvariance, PTL DEF Spec

\* A finalized lot has its payout unless a request wrote over a row of it that
\* it had not seen.
THEOREM FinalizedLotsArePaid == Spec => []FinalizedIsPaid
<1>1. Init => FinalizedIsPaid
  BY DEF Init, FinalizedIsPaid, NoLot
<1>2. RowsInv /\ FinalizedIsPaid /\ [Next]_vars => FinalizedIsPaid'
  BY PaidKept
<1> QED
  BY <1>1, <1>2, RowsInvariance, PTL DEF Spec

\* No line joins a finalized lot, whichever request comes between the queue or
\* the draft that was read and the write.
THEOREM NothingJoinsFinalizedLots == Spec => FinalizedLotsGainNothing
<1>1. RowsInv /\ [Next]_vars =>
        [\A l \in Lines, L \in Lots : Joins(l, L) => lot[L].status # "finalized"]_vars
  <2> SUFFICES ASSUME RowsInv, [Next]_vars, NEW l \in Lines, NEW L \in Lots, Joins(l, L)
               PROVE  lot[L].status # "finalized"
    OBVIOUS
  <2>1. line'[l].lot = L /\ line[l].lot # L /\ L # None
    BY ConstantsAssumption DEF Joins
  <2>2. CASE L \in Drafts
    BY <2>2 DEF Drafts
  <2>3. CASE \E w \in Workers : CreateLot(w, L)
    BY <2>3 DEF CreateLot, NoLot
  <2> QED
    BY <2>1, <2>2, <2>3, LineMoves
<1> QED
  BY <1>1, RowsInvariance, PTL DEF Spec, FinalizedLotsGainNothing

\* A line does not change from one lot into another, but by a route that read it
\* before it was in the first.
THEOREM LinesDoNotChangeLots == Spec => LinesStayInLot
<1>1. RowsInv /\ [Next]_vars =>
        [\A l \in Lines : line[l].lot # None /\ line'[l].lot \notin {None, line[l].lot} =>
           line'[l].product \in raced']_vars
  <2> SUFFICES ASSUME RowsInv, [Next]_vars, NEW l \in Lines,
                      line[l].lot # None, line'[l].lot \notin {None, line[l].lot}
               PROVE  line'[l].product \in raced'
    OBVIOUS
  <2>1. PICK w \in Workers, p \in Products, L \in Lots \cup {None} :
           Route(w, p, L) /\ req[w].on = l /\ req[w].line.lot = None
    BY LineMoves
  <2>2. RouteEffect(w, p, L) /\ Live(l)
    BY <2>1, RouteWrites DEF RowsInv, LinesOK
  <2> QED
    BY <2>1, <2>2 DEF RouteEffect
<1> QED
  BY <1>1, RowsInvariance, PTL DEF Spec, LinesStayInLot

\* The lines that a new lot's totals add up and that still exist are in a lot
\* once it is created, and it holds no other line.
THEOREM CreatedLotsCount == Spec => CreatedLotIsCounted
<1>1. RowsInv /\ NoDanglingLots /\ [Next]_vars =>
        [\A w \in Workers, L \in Lots :
           req[w].op = "create" /\ req'[w] = Idle /\ lot[L] = NoLot /\ lot'[L] # NoLot =>
             /\ \A l \in req[w].queue : line'[l].state = "live" => line'[l].lot # None
             /\ \A l \in Lines : line'[l].lot = L => l \in req[w].queue]_vars
  <2> SUFFICES ASSUME RowsInv, NoDanglingLots, [Next]_vars,
                      NEW w \in Workers, NEW L \in Lots,
                      req[w].op = "create", req'[w] = Idle, lot[L] = NoLot, lot'[L] # NoLot
               PROVE  /\ \A l \in req[w].queue : line'[l].state = "live" => line'[l].lot # None
                      /\ \A l \in Lines : line'[l].lot = L => l \in req[w].queue
    OBVIOUS
  <2>1. ASSUME NEW v \in Workers, LotOp(v)
        PROVE  lot'[L] = lot[L]
    <3>1. LotEffect(v)
      BY <2>1, LotRows
    <3>2. req[v].on # L
      BY <3>1 DEF LotEffect, Exists, NoLot
    <3> QED
      BY <3>1, <3>2 DEF LotEffect, RowsInv, TypeOK
  <2>2. PICK v \in Workers, M \in Lots : CreateLot(v, M)
    BY <2>1, StepKinds, StatusWrites DEF DocStep, Route, StatusEffect
  <2>3. M = L
    BY <2>2 DEF CreateLot, RowsInv, TypeOK
  <2>4. v = w
    BY <2>2 DEF CreateLot, Finish, Idle, RowsInv, TypeOK
  <2>5. req[w].queue \subseteq Lines /\ L # None
    BY ConstantsAssumption DEF RowsInv, TypeOK, Request
  <2>6. \A l \in Lines : line'[l] = IF l \in Attached(req[w].queue)
                                    THEN [line[l] EXCEPT !.lot = L] ELSE line[l]
    BY <2>2, <2>3, <2>4 DEF CreateLot
  <2>7. \A l \in Lines : line[l].lot # L
    BY <2>5 DEF NoDanglingLots, Exists, NoLot
  <2>8. ASSUME NEW l \in Lines
        PROVE  /\ line'[l].state = line[l].state
               /\ line'[l].lot = IF l \in Attached(req[w].queue) THEN L ELSE line[l].lot
    BY <2>6 DEF RowsInv, TypeOK, LineRow
  <2> QED
    BY <2>5, <2>7, <2>8 DEF Attached, Live
<1> QED
  BY <1>1, RowsInvariance, LotsOfLinesExist, PTL DEF Spec, CreatedLotIsCounted

-----------------------------------------------------------------------------
(* What is in a lot is melted *)

LEMMA EveryStepEvolves ==
  ASSUME RowsInv, [Next]_vars
  PROVE  Evolves
<1>1. CASE UNCHANGED <<line, product, lot, raced>>
  BY <1>1 DEF Evolves
<1>2. CASE DocStep
  BY <1>2 DEF DocStep, Evolves, Gone
<1>3. ASSUME NEW w \in Workers, NEW p \in Products, NEW L \in Lots \cup {None}, Route(w, p, L)
      PROVE  Evolves
  <2> DEFINE l == req[w].on
  <2>1. /\ l \in Lines
        /\ product' = [product EXCEPT ![p] = product'[p]] /\ product'[p] \in ProductRow
        /\ product'[p].shop = product[p].shop
        /\ line' = [line EXCEPT ![l] = line'[l]]
        /\ line'[l] = [state   |-> line[l].state,
                       product |-> Written(req[w].line.product, p, line[l].product),
                       lot     |-> Written(req[w].line.lot, L, line[l].lot)]
        /\ line[l].product # None /\ line'[l].product # line[l].product => p \in raced'
        /\ raced \subseteq raced'
    BY <1>3, RouteWrites DEF RouteEffect
  <2>2. line'[l].state = line[l].state /\ line'[l].product \in {p, line[l].product}
    <3>1. Written(req[w].line.product, p, line[l].product) \in {p, line[l].product}
      BY DEF Written
    <3> QED
      BY <2>1, <3>1
  <2> QED
    BY <2>1, <2>2, UnbornIsNoRow DEF Evolves, RowsInv, TypeOK
<1>4. ASSUME NEW w \in Workers, StatusOp(w)
      PROVE  Evolves
  BY <1>4, StatusWrites, UnbornIsNoRow DEF StatusEffect, Evolves, RowsInv, TypeOK
<1>5. ASSUME NEW w \in Workers, NEW L \in Lots, CreateLot(w, L)
      PROVE  Evolves
  <2>1. ASSUME NEW l \in Lines
        PROVE  line'[l].state = line[l].state /\ line'[l].product = line[l].product
    BY <1>5 DEF CreateLot, RowsInv, TypeOK, LineRow
  <2> QED
    BY <1>5, <2>1 DEF CreateLot, Evolves
<1>6. ASSUME NEW w \in Workers, LotOp(w)
      PROVE  Evolves
  <2>1. LotStep(w)
    BY <1>6, LotSteps DEF LotOp
  <2>2. ASSUME NEW l \in Lines
        PROVE  line'[l].state = line[l].state /\ line'[l].product = line[l].product
    BY <2>1 DEF LotStep, RowsInv, TypeOK, LineRow
  <2>3. raced \subseteq raced' /\ product' = product
    BY <2>1 DEF LotStep, LotWritten, Marked
  <2> QED
    BY <2>2, <2>3 DEF Evolves
<1> QED
  BY <1>1, <1>2, <1>3, <1>4, <1>5, <1>6, StepKinds

\* A line stays held: its product stays melted, is sold by the web shop, or is
\* written over unseen.
LEMMA SmeltedStays ==
  ASSUME RowsInv, [Next]_vars, NEW p \in Products, Smelted(product[p]), p \notin raced'
  PROVE  Smelted(product'[p])
<1>1. product[p].shop = "known" => product'[p].shop = "known"
  BY EveryStepEvolves DEF Evolves
<1>2. \/ product'[p].status = product[p].status
      \/ product[p].shop = "known" /\ product'[p].status = "sold"
  BY TerminalKept DEF TerminalStep, Terminal, Smelted
<1> QED
  BY <1>1, <1>2 DEF Smelted

LEMMA HeldStays ==
  ASSUME RowsInv, [Next]_vars, NEW l \in Lines, Held(l), line'[l].state = "live"
  PROVE  /\ line'[l].product # None
         /\ Smelted(product'[line'[l].product]) \/ line'[l].product \in raced'
<1>1. /\ raced \subseteq raced'
      /\ line[l].state # "free"
      /\ line'[l].product = line[l].product \/ line'[l].product \in raced'
  BY EveryStepEvolves DEF Evolves, Held, RowsInv, LinesOK, Live
<1>2. None \notin raced'
  BY RowsKept, ConstantsAssumption DEF RowsInv, TypeOK
<1>3. line[l].product \in Products
  BY DEF Held, RowsInv, TypeOK, LineRow
<1>4. line[l].product \in raced' \/ Smelted(product'[line[l].product])
  BY <1>1, <1>3, SmeltedStays DEF Held
<1> QED
  BY <1>1, <1>2, <1>4 DEF Held

\* What is to be melted is melted: only a route changes the destination.
LEMMA MeltingIsMelted ==
  ASSUME RowsInv, [Next]_vars,
         \A p \in Products : Melting(product[p]) => Smelted(product[p]) \/ p \in raced
  PROVE  \A p \in Products : Melting(product'[p]) => Smelted(product'[p]) \/ p \in raced'
<1> SUFFICES ASSUME NEW q \in Products, product'[q].dest = "melt", q \notin raced'
             PROVE  Smelted(product'[q])
  BY DEF Melting
<1>1. q \notin raced
  BY EveryStepEvolves DEF Evolves
<1>2. ASSUME product'[q].dest = product[q].dest
      PROVE  Smelted(product'[q])
  BY <1>1, <1>2, SmeltedStays DEF Melting
<1>3. ASSUME NEW w \in Workers, NEW p \in Products, NEW L \in Lots \cup {None}, Route(w, p, L)
      PROVE  Smelted(product'[q])
  <2>1. /\ product' = [product EXCEPT ![p] = product'[p]]
        /\ product'[p].status = Written(req[w].status, StatusFor(req[w].to), product[p].status)
        /\ product'[p].dest = Written(req[w].dest, req[w].to, product[p].dest)
        /\ p \in raced' \/ (product[p].status = req[w].status /\ product[p].dest = req[w].dest)
    BY <1>3, RouteWrites DEF RouteEffect
  <2>2. CASE q = p
    <3>1. product'[p].dest = req[w].to /\ product'[p].status = StatusFor(req[w].to)
      BY <2>1, <2>2, WrittenIs
    <3> QED
      BY <2>2, <3>1 DEF StatusFor, Smelted
  <2>3. CASE q # p
    BY <1>2, <2>1, <2>3 DEF RowsInv, TypeOK
  <2> QED
    BY <2>2, <2>3
<1>4. ASSUME NEW w \in Workers, StatusOp(w)
      PROVE  product'[q].dest = product[q].dest
  BY <1>4, StatusWrites DEF StatusEffect, RowsInv, TypeOK
<1>5. ASSUME NEW w \in Workers, LotOp(w)
      PROVE  product' = product
  BY <1>5, LotSteps DEF LotOp, LotStep
<1> QED
  BY <1>2, <1>3, <1>4, <1>5, StepKinds DEF DocStep, CreateLot

\* The queue a request holds is the one it had, or the one there is.
LEMMA QueueMoves ==
  ASSUME RowsInv, [Next]_vars, NEW w \in Workers, NEW l \in req'[w].queue
  PROVE  \/ l \in req[w].queue
         \/ l \in Queue /\ UNCHANGED <<line, product, raced>>
<1>1. CASE req' = req
  BY <1>1
<1>2. ASSUME NEW v \in Workers, req' = [req EXCEPT ![v] = Idle]
      PROVE  l \in req[w].queue
  BY <1>2 DEF RowsInv, TypeOK, Idle
<1>3. ASSUME NEW v \in Workers, LoadQueue(v)
      PROVE  l \in req[w].queue \/ (l \in Queue /\ UNCHANGED <<line, product, raced>>)
  BY <1>3 DEF LoadQueue, RowsInv, TypeOK, Idle
<1>4. ASSUME NEW v \in Workers, NEW r, req' = [req EXCEPT ![v] = r], r.queue = {}
      PROVE  l \in req[w].queue
  BY <1>4 DEF RowsInv, TypeOK
<1>5. ASSUME NEW v \in Workers, NEW k \in Lines, NEW dest \in Routed, LoadRoute(v, k, dest)
      PROVE  l \in req[w].queue
  <2> DEFINE row == IF line[k].product = None THEN Unborn ELSE product[line[k].product]
             r == [Idle EXCEPT !.op = "route", !.on = k, !.to = dest, !.line = line[k],
                               !.status = row.status, !.dest = row.dest]
  <2>1. req' = [req EXCEPT ![v] = r] /\ r.queue = {}
    BY <1>5 DEF LoadRoute, Idle
  <2> HIDE DEF r
  <2> QED
    BY <1>4, <2>1
<1>6. ASSUME NEW v \in Workers, NEW p, NEW op, NEW to, LoadProduct(v, p, op, to)
      PROVE  l \in req[w].queue
  <2> DEFINE r == [Idle EXCEPT !.op = op, !.on = p, !.to = to, !.status = product[p].status]
  <2>1. req' = [req EXCEPT ![v] = r] /\ r.queue = {}
    BY <1>6 DEF LoadProduct, Idle
  <2> HIDE DEF r
  <2> QED
    BY <1>4, <2>1
<1>7. ASSUME NEW v \in Workers, NEW op, NEW L \in Lots, NEW payout, LoadLot(v, op, L, payout)
      PROVE  l \in req[w].queue
  <2> DEFINE r == [Idle EXCEPT !.op = op, !.on = L, !.to = payout, !.lot = lot[L]]
  <2>1. req' = [req EXCEPT ![v] = r] /\ r.queue = {}
    BY <1>7 DEF LoadLot, Idle
  <2> HIDE DEF r
  <2> QED
    BY <1>4, <2>1
<1>8. ASSUME NEW v \in Workers, Load(v)
      PROVE  l \in req[w].queue \/ (l \in Queue /\ UNCHANGED <<line, product, raced>>)
  <2>1. ASSUME NEW p, NEW status,
               LoadStatus(v, p, status) \/ LoadImport(v, p, status) \/ LoadSale(v, p) \/ LoadPublish(v, p)
        PROVE  l \in req[w].queue
    BY <1>6, <2>1 DEF LoadStatus, LoadImport, LoadSale, LoadPublish
  <2> QED
    <3>1. \/ \E k \in Lines, dest \in Routed : LoadRoute(v, k, dest)
          \/ \E p, status : \/ LoadStatus(v, p, status) \/ LoadImport(v, p, status)
                           \/ LoadSale(v, p) \/ LoadPublish(v, p)
          \/ LoadQueue(v)
          \/ \E op, payout : \E L \in Lots : LoadLot(v, op, L, payout)
      BY <1>8, BoundsAssumption DEF Load
    <3> QED
      BY <1>3, <1>5, <1>7, <2>1, <3>1
<1>9. ASSUME NEW v \in Workers, Commit(v) \/ Fail(v)
      PROVE  req' = [req EXCEPT ![v] = Idle]
  BY <1>9 DEF Commit, Fail, Route, ChangeStatus, Publish, ProductWritten, CreateLot, UpdateLot, FinalizeLot, ReopenLot,
     DeleteLot, LotWritten, Finish
<1>10. CASE Documents
  BY <1>1, <1>10 DEF Documents, Purchase, Revise
<1> QED
  BY <1>1, <1>2, <1>8, <1>9, <1>10 DEF Next, vars

\* A line that a route puts into a lot is held: the route has just melted it.
LEMMA RoutedIsHeld ==
  ASSUME RowsInv, NEW w \in Workers, NEW p \in Products, NEW L \in Lots \cup {None},
         Route(w, p, L), req[w].on \in Lines,
         line'[req[w].on].lot \notin {None, line[req[w].on].lot}, line'[req[w].on].state = "live"
  PROVE  /\ line'[req[w].on].product # None
         /\ \/ Smelted(product'[line'[req[w].on].product])
            \/ line'[req[w].on].product \in raced'
<1> DEFINE r == req[w]
           l == r.on
<1>1. RouteEffect(w, p, L)
  BY RouteWrites
<1>2. /\ line'[l].state = line[l].state
      /\ line'[l].lot = Written(r.line.lot, L, line[l].lot) /\ L \in RouteLots(r)
  BY <1>1 DEF RouteEffect
<1>3. r.to = "melt"
  BY <1>2 DEF RouteLots, Written
<1>4. /\ raced \subseteq raced'
      /\ line'[l].product = p \/ line'[l].product \in raced
      /\ p \in raced' \/ product'[p].status = StatusFor(r.to)
  <2>1. raced \subseteq raced' /\ (line'[l].product = p \/ line'[l].product \in raced)
    BY <1>1, <1>2 DEF RouteEffect, Live
  <2>2. /\ p \in raced' \/ product[p].status = r.status
        /\ product'[p].status = Written(r.status, StatusFor(r.to), product[p].status)
    BY <1>1 DEF RouteEffect
  <2> QED
    BY <2>1, <2>2, WrittenIs
<1>5. None \notin raced /\ p # None
  BY ConstantsAssumption DEF RowsInv, TypeOK
<1> QED
  BY <1>3, <1>4, <1>5 DEF StatusFor, Smelted

LEMMA MeltKept ==
  ASSUME RowsInv, MeltInv, [Next]_vars
  PROVE  MeltInv'
<1>1. RowsInv'
  BY RowsKept
<1>2. \A p \in Products : Melting(product'[p]) => Smelted(product'[p]) \/ p \in raced'
  BY MeltingIsMelted DEF MeltInv
<1>3. ASSUME NEW w \in Workers, NEW l \in req'[w].queue, line'[l].state = "live"
      PROVE  /\ line'[l].product # None
             /\ Smelted(product'[line'[l].product]) \/ line'[l].product \in raced'
  <2>1. l \in Lines
    BY <1>1, <1>3 DEF RowsInv, TypeOK, Request
  <2>2. CASE l \in req[w].queue
    <3>1. line[l].state # "free"
      BY <2>2 DEF RowsInv, RequestOK, QueueOK
    <3>2. Live(l)
      BY <1>3, <2>1, <3>1, EveryStepEvolves DEF Evolves, Live
    <3>3. Held(l)
      BY <2>2, <3>2 DEF MeltInv
    <3> QED
      BY <1>3, <2>1, <3>3, HeldStays
  <2>3. CASE l \in Queue /\ UNCHANGED <<line, product, raced>>
    <3>1. line[l].product \in Products /\ Melting(product[line[l].product])
      BY <2>1, <2>3 DEF Queue, RowsInv, TypeOK, LineRow
    <3>2. line[l].product # None
      BY <2>3 DEF Queue
    <3> QED
      BY <2>3, <3>1, <3>2 DEF MeltInv
  <2> QED
    BY <1>3, <2>2, <2>3, QueueMoves
<1>4. ASSUME NEW l \in Lines, line'[l].lot # None
      PROVE  /\ line'[l].product # None
             /\ Smelted(product'[line'[l].product]) \/ line'[l].product \in raced'
  <2>1. line'[l].state = "live"
    BY <1>1, <1>4 DEF RowsInv, LinesOK, Live
  <2>2. CASE line'[l].lot = line[l].lot
    BY <1>4, <2>1, <2>2, HeldStays DEF MeltInv
  <2>3. ASSUME NEW w \in Workers, NEW p \in Products, NEW L \in Lots \cup {None},
               Route(w, p, L), req[w].on = l, line'[l].lot # line[l].lot
        PROVE  /\ line'[l].product # None
               /\ Smelted(product'[line'[l].product]) \/ line'[l].product \in raced'
    BY <1>4, <2>1, <2>3, RoutedIsHeld
  <2>4. ASSUME NEW w \in Workers, CreateLot(w, line'[l].lot), line'[l].lot # line[l].lot
        PROVE  Held(l)
    <3>1. line'[l] = IF l \in Attached(req[w].queue) THEN [line[l] EXCEPT !.lot = line'[l].lot] ELSE line[l]
      BY <2>4 DEF CreateLot
    <3>2. l \in req[w].queue /\ Live(l)
      BY <2>4, <3>1 DEF Attached
    <3> QED
      BY <3>2 DEF MeltInv
  <2> QED
    BY <1>4, <2>1, <2>2, <2>3, <2>4, LineMoves, HeldStays
<1> QED
  BY <1>2, <1>3, <1>4 DEF MeltInv, Held, Smelted, Melting, Live

\* The strengthening of LotHoldsMelted that is inductive: what is to be melted
\* and what is in the queue of a lot being made is melted too.
THEOREM MeltInvariance == Spec => []MeltInv
<1>1. Init => MeltInv
  BY DEF Init, MeltInv, Melting, Unborn, Idle, Unused
<1>2. RowsInv /\ MeltInv /\ [Next]_vars => MeltInv'
  BY MeltKept
<1> QED
  BY <1>1, <1>2, RowsInvariance, PTL DEF Spec

\* What is in a lot is melted, but for what the web shop has sold since and for
\* products whose row a request wrote over a change it had not seen.
THEOREM LotsHoldMelted == Spec => []LotHoldsMelted
<1>1. MeltInv => LotHoldsMelted
  BY DEF MeltInv, Held, LotHoldsMelted
<1> QED
  BY <1>1, MeltInvariance, PTL

\* FinalizedLotsLoseNothing, of one step.
LoseNothingStep ==
    \A l \in Lines, L \in Lots :
      Leaves(l, L) /\ lot[L].status = "finalized" =>
         \/ line'[l].state = "deleted"
         \/ L \in raced'
         \/ raced' \cap {line[l].product, line'[l].product} # {}

LEMMA NothingLost ==
  ASSUME RowsInv, MeltInv, [Next]_vars
  PROVE  LoseNothingStep
<1> SUFFICES ASSUME NEW l \in Lines, NEW K \in Lots, line[l].lot = K, line'[l].lot # K,
                    lot[K].status = "finalized"
             PROVE  \/ line'[l].state = "deleted"
                    \/ K \in raced'
                    \/ line[l].product \in raced'
                    \/ line'[l].product \in raced'
  BY DEF LoseNothingStep, Leaves
<1>1. K # None /\ Live(l) /\ Held(l)
  BY ConstantsAssumption DEF RowsInv, LinesOK, MeltInv
<1>2. CASE DocStep
  BY <1>1, <1>2 DEF DocStep, Gone, Live
<1>3. ASSUME NEW w \in Workers, NEW p \in Products, NEW L \in Lots \cup {None}, Route(w, p, L)
      PROVE  line[l].product \in raced' \/ line'[l].product \in raced'
  <2> DEFINE r == req[w]
  <2>1. RouteEffect(w, p, L)
    BY <1>3, RouteWrites
  <2>2. l = r.on
    BY <2>1 DEF RouteEffect, RowsInv, TypeOK
  <2>3. CASE p \in raced'
    BY <1>1, <2>1, <2>2, <2>3 DEF RouteEffect
  <2>4. CASE p \notin raced'
    <3>1. /\ line[l] = r.line /\ product[p].status = r.status /\ ~ Refused(r)
          /\ line'[l].lot = Written(r.line.lot, L, line[l].lot) /\ L \in RouteLots(r)
          /\ r.line.product # None => p = r.line.product
          /\ raced \subseteq raced'
      BY <2>1, <2>2, <2>4 DEF RouteEffect
    <3>2. p = line[l].product
      BY <1>1, <3>1 DEF Held
    <3>3. r.status \in Terminal
      BY <1>1, <2>4, <3>1, <3>2 DEF Held, Smelted, Terminal
    <3> QED
      BY <3>1, <3>3 DEF Refused
  <2> QED
    BY <2>3, <2>4
<1>4. ASSUME NEW w \in Workers, NEW L \in Lots, CreateLot(w, L)
      PROVE  FALSE
  BY <1>1, <1>4 DEF CreateLot, Attached
<1>5. ASSUME NEW w \in Workers, LotOp(w)
      PROVE  K \in raced'
  <2>1. LotEffect(w)
    BY <1>5, LotRows
  <2>2. req[w].lot.status = "draft" /\ req[w].on = K
    BY <2>1 DEF LotEffect
  <2> QED
    BY <2>1, <2>2 DEF LotEffect
<1> QED
  BY <1>2, <1>3, <1>4, <1>5, StepKinds, StatusWrites DEF StatusEffect

\* A line leaves a finalized lot only when its document is edited or when a
\* request wrote over the lot or the product unseen: the status that the lot's
\* product has reached lets no route of it through.
THEOREM NothingLeavesFinalizedLots == Spec => FinalizedLotsLoseNothing
<1>1. RowsInv /\ MeltInv /\ [Next]_vars => [LoseNothingStep]_vars
  BY NothingLost
<1>2. [LoseNothingStep]_vars =>
        [\A l \in Lines, L \in Lots :
           Leaves(l, L) /\ lot[L].status = "finalized" =>
              \/ line'[l].state = "deleted"
              \/ L \in raced'
              \/ raced' \cap {line[l].product, line'[l].product} # {}]_vars
  BY DEF LoseNothingStep
<1> QED
  BY <1>1, <1>2, RowsInvariance, MeltInvariance, PTL DEF Spec, FinalizedLotsLoseNothing
=============================================================================
