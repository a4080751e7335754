SPECIFICATION Spec
CONSTANTS
    None = None
    a1 = a1
    a2 = a2
    d1 = d1
    Lines = {a1, a2}
    Docs = {d1}
    DocOf <- MCDocOf
    Products = {p1, p2}
    Lots = {L1, L2}
    Workers = {w1, w2}
    Routed = {"inventory", "melt"}
    Traded = {p1}
    Changed = {"sold"}
    Imported = {"for_sale"}
    Handled = {L1}
SYMMETRY Alike
INVARIANTS TypeOK NoDanglingLots LotHoldsMelted FinalizedIsPaid
PROPERTIES FinalizedLotsGainNothing FinalizedLotsLoseNothing LinesStayInLot CreatedLotIsCounted TerminalStays
CHECK_DEADLOCK FALSE
