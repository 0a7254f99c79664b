------------------------------ MODULE Trading -------------------------------
(***************************************************************************)
(* The matching engine of pkg/hft/matching and the risk engine of          *)
(* pkg/hft/risk.                                                           *)
(***************************************************************************)
EXTENDS Integers, FiniteSets, Sequences, FiniteSetsExt

(***************************************************************************)
(* pkg/hft/matching: the price levels of one symbol.  A level is a linked  *)
(* list of orders; bestBid and bestAsk point to a level.  Each call of     *)
(* AddOrder and CancelOrder is one action: the book is driven by one       *)
(* goroutine.  When an order has emptied the level it matches,             *)
(* removeEmptyPriceLevel asks the nil list head for its side and panics:   *)
(* the fills stand, the empty level stays the best one, and what the order *)
(* had left is lost.  Quantities and prices are small numbers; TotalQty,   *)
(* Count and the metrics are left out.                                     *)
(***************************************************************************)

CONSTANTS Prices, Quantities,   \* positive
          MaxOrders             \* bound on ob.sequence

VARIABLES orders,      \* every order so far, by ID
          known,       \* the IDs in ob.orders
          heads,       \* [Sides -> [the prices with a level -> the head of its list, 0 for nil]]
          nextOf, prevOf,   \* the links of every order, 0 for nil
          best,        \* [Sides -> the price of bestBid or bestAsk, 0 for nil]
          trades,      \* history: <<aggressor, resting, quantity, price>>
          bookPanicked

bookVars == <<orders, known, heads, nextOf, prevOf, best, trades, bookPanicked>>

Sides == {"buy", "sell"}
Opposite(side) == IF side = "buy" THEN "sell" ELSE "buy"
Ids == 1 .. MaxOrders
NewOrders ==
  [side : Sides, type : {"limit"}, price : Prices, quantity : Quantities, tif : {"day", "ioc"}]
    \cup [side : Sides, type : {"market"}, price : {0}, quantity : Quantities, tif : {"ioc"}]

NewOrderBook ==
  /\ orders = <<>> /\ known = {} /\ heads = [side \in Sides |-> [p \in {} |-> 0]]
  /\ nextOf = [i \in Ids |-> 0] /\ prevOf = [i \in Ids |-> 0]
  /\ best = [side \in Sides |-> 0] /\ trades = <<>> /\ bookPanicked = FALSE

\* The orders of a list from head on, at most n of them.
Chain[n \in Nat, i \in 0 .. MaxOrders] ==
  IF n = 0 \/ i = 0 THEN <<>> ELSE <<i>> \o Chain[n - 1, nextOf[i]]
Level(side, p) == IF p \in DOMAIN heads[side] THEN Chain[MaxOrders, heads[side][p]] ELSE <<>>

\* order.Price against the level's, CanMatch and canMatchImmediately.
Crosses(o, p) ==
  /\ p # 0
  /\ o.type = "market" \/ IF o.side = "buy" THEN o.price >= p ELSE o.price <= p

Least(a, b) == IF a <= b THEN a ELSE b

\* What an order of quantity q takes from each order of a level, first come first served.
Taken(q, level) ==
  LET left[k \in 0 .. Len(level)] ==
        IF k = 0 THEN q
        ELSE left[k - 1] - Least(left[k - 1], orders[level[k]].leaves)
  IN  [k \in 1 .. Len(level) |-> left[k - 1] - left[k]]

\* The fills of the loop over one level.
Filled(o, q) ==
  [o EXCEPT !.leaves = @ - q,
            !.status = IF q = 0 THEN @ ELSE IF o.leaves = q THEN "filled" ELSE "partial"]

\* The end of matchOrder: what an IOC order has left is called cancelled.
Closed(o) == IF o.tif = "ioc" /\ o.leaves > 0 THEN [o EXCEPT !.status = "canceled"] ELSE o

\* updateBestBid and updateBestAsk over the levels that hold orders.
BestOf(side, hs) ==
  LET ps == {p \in DOMAIN hs : hs[p] # 0}
  IN  IF ps = {} THEN 0 ELSE IF side = "buy" THEN Max(ps) ELSE Min(ps)

Better(side, p, q) == q = 0 \/ (IF side = "buy" THEN p > q ELSE p < q)

\* addToBook and updateBestPrices, with the level's new last order i.
AddToBook(i, o, hs, nx, pv) ==
  LET level == Level(o.side, o.price)
      first == level = <<>>
      tail  == level[Len(level)]
  IN  /\ heads' = [hs EXCEPT ![o.side] =
                     [p \in DOMAIN hs[o.side] \cup {o.price} |->
                        IF p = o.price /\ first THEN i ELSE hs[o.side][p]]]
      /\ nextOf' = IF first THEN nx ELSE [nx EXCEPT ![tail] = i]
      /\ prevOf' = IF first THEN pv ELSE [pv EXCEPT ![i] = tail]
      /\ best' = IF Better(o.side, o.price, best[o.side])
                 THEN [best EXCEPT ![o.side] = o.price] ELSE best

\* The list of a level after matchOrder has removed its first n orders.
Unlinked(f, level, n) == [i \in Ids |-> IF \E k \in 1 .. n : level[k] = i THEN 0 ELSE f[i]]

\* Mutant: the worst level of the other side is matched first.
WorstPrice(side) ==
  LET ps == {p \in DOMAIN heads[side] : heads[side][p] # 0}
  IN  IF ps = {} THEN 0 ELSE IF side = "buy" THEN Min(ps) ELSE Max(ps)

\* The level matchOrder starts from.
BestPrice(side) == best[side]

AddOrder(new) ==
  LET i     == Len(orders) + 1
      other == Opposite(new.side)
      p     == BestPrice(other)
      o     == [side |-> new.side, type |-> new.type, price |-> new.price, tif |-> new.tif,
                quantity |-> new.quantity, leaves |-> new.quantity, status |-> "new"]
      level == IF Crosses(o, p) THEN Level(other, p) ELSE <<>>
      took  == Taken(o.leaves, level)
      total == MapThenSumSet(LAMBDA k : took[k], DOMAIN took)
      gone  == {k \in DOMAIN took : took[k] = orders[level[k]].leaves}
      n     == Cardinality(gone)
      empty == n = Len(level)
      matched == new.type = "market" \/ Crosses(o, p)
      after == IF matched /\ ~(empty /\ p # 0) THEN Closed(Filled(o, total)) ELSE Filled(o, total)
  IN  /\ i <= MaxOrders
      /\ orders' = Append([j \in DOMAIN orders |->
                             IF \E k \in DOMAIN took : level[k] = j
                             THEN Filled(orders[j], took[CHOOSE k \in DOMAIN took : level[k] = j])
                             ELSE orders[j]], after)
      /\ trades' = trades \o [k \in 1 .. Cardinality({k \in DOMAIN took : took[k] > 0}) |->
                                <<i, level[k], took[k], p>>]
      /\ known' = (known \cup {i}) \ {level[k] : k \in gone}
      /\ bookPanicked' = (bookPanicked \/ (matched /\ p # 0 /\ empty))
      /\ LET hs == IF n = 0 THEN heads
                   ELSE [heads EXCEPT ![other][p] = IF empty THEN 0 ELSE level[n + 1]]
             nx == Unlinked(nextOf, level, n)
             pv == IF n = 0 \/ empty THEN Unlinked(prevOf, level, n)
                   ELSE [Unlinked(prevOf, level, n) EXCEPT ![level[n + 1]] = 0]
         IN  IF after.leaves > 0 /\ after.type = "limit" /\ ~(matched /\ p # 0 /\ empty)
             THEN AddToBook(i, after, hs, nx, pv)
             ELSE heads' = hs /\ nextOf' = nx /\ prevOf' = pv /\ UNCHANGED best

\* CancelOrder of any order ob.orders has: one that is in no list is taken for the head of one.
CancelOrder(i) ==
  LET o    == orders[i]
      hs   == heads[o.side]
      head == IF prevOf[i] = 0 THEN nextOf[i] ELSE hs[o.price]
  IN  /\ i \in known /\ known' = known \ {i}
      /\ orders' = [orders EXCEPT ![i].status = "canceled"]
      /\ IF o.price \notin DOMAIN hs THEN UNCHANGED <<heads, nextOf, prevOf, best>>
         ELSE /\ nextOf' = [j \in Ids |-> IF j = i THEN 0 ELSE IF j = prevOf[i] THEN nextOf[i] ELSE nextOf[j]]
              /\ prevOf' = [j \in Ids |-> IF j = i THEN 0 ELSE IF j = nextOf[i] THEN prevOf[i] ELSE prevOf[j]]
              /\ LET left == [p \in IF head = 0 THEN DOMAIN hs \ {o.price} ELSE DOMAIN hs |->
                                IF p = o.price THEN head ELSE hs[p]]
                 IN  /\ heads' = [heads EXCEPT ![o.side] = left]
                     /\ best' = IF head = 0 THEN [best EXCEPT ![o.side] = BestOf(o.side, left)] ELSE best
      /\ UNCHANGED <<trades, bookPanicked>>

OrderBookNext == (\E new \in NewOrders : AddOrder(new)) \/ \E i \in known : CancelOrder(i)

OrderBookSpec == NewOrderBook /\ [][OrderBookNext]_bookVars
-----------------------------------------------------------------------------
\* The orders a side holds, and where each stands.
Resting(side) == {i \in Ids : \E p \in DOMAIN heads[side] : \E k \in DOMAIN Level(side, p) :
                                Level(side, p)[k] = i}

(***************************************************************************)
(* Price-time priority: an order that trades as the resting one was, among *)
(* the orders its side held before the step, at the best price, and at     *)
(* that price no order before it in the level is left with a quantity; the *)
(* trade is at its price, which both orders accept.                        *)
(***************************************************************************)
PriceTimePriority ==
  [][\A k \in Len(trades) + 1 .. Len(trades') :
       LET t == trades'[k]
           r == orders'[t[2]]
           a == orders'[t[1]]
       IN  /\ t[4] = r.price /\ Crosses(a, r.price) /\ a.side # r.side
           /\ \A j \in Resting(r.side) :
                /\ ~Better(r.side, orders[j].price, r.price)
                /\ (orders[j].price = r.price /\ j < t[2]) => orders'[j].leaves = 0]_bookVars

(***************************************************************************)
(* What matchOrder says of a level it has emptied, "Move to next price     *)
(* level if current is empty" (orderbook.go:202): it goes on.  The code    *)
(* panics there (orderbook.go:294).                                        *)
(***************************************************************************)
MovesToNextLevel == ~bookPanicked
-----------------------------------------------------------------------------
(***************************************************************************)
(* pkg/hft/risk/engine.go: CheckOrder reads the position of the order's    *)
(* symbol once, then every position for the exposure, each under its own   *)
(* lock; the order is filled later, in one or several pieces, and          *)
(* UpdatePosition does no check.  Prices are integers in units of          *)
(* 1/RiskScale (1e8 in the code).  The market price is an input.           *)
(***************************************************************************)
CONSTANTS RiskOrders,             \* [the orders -> [symbol, side, quantity, price]]
          MarketPrices,
          MaxOrderSize, MaxNotionalPerOrder, MaxPositionPerSymbol, MaxNotionalExposure,
          DeviationPercent,       \* MaxPriceDeviation
          RiskScale

VARIABLES position,    \* [symbols -> Position]
          checkPC,     \* [orders -> where its check is]
          exposureOf,  \* [orders -> [seen |-> the positions read, sum |-> their exposure]]
          toFill,      \* [orders -> the quantity not filled yet]
          cashOf       \* history: [symbols -> money received for the fills]

riskVars == <<position, checkPC, exposureOf, toFill, cashOf>>

OrderIDs == DOMAIN RiskOrders
RiskSymbols == {RiskOrders[o].symbol : o \in OrderIDs}
AbsOf(x) == IF x < 0 THEN -x ELSE x
\* Integer division that truncates toward zero.
Quotient(x, y) == LET q == AbsOf(x) \div AbsOf(y) IN IF (x < 0) # (y < 0) THEN -q ELSE q
Sign(side) == IF side = "buy" THEN 1 ELSE -1
Notional(o) == Quotient(RiskOrders[o].quantity * RiskOrders[o].price, RiskScale)

NewRiskEngine ==
  /\ position = [s \in RiskSymbols |-> [quantity |-> 0, avgPrice |-> 0, realizedPnL |-> 0,
                                    totalBought |-> 0, totalSold |-> 0]]
  /\ checkPC = [o \in OrderIDs |-> "idle"]
  /\ exposureOf = [o \in OrderIDs |-> [seen |-> {}, sum |-> 0]]
  /\ toFill = [o \in OrderIDs |-> RiskOrders[o].quantity]
  /\ cashOf = [s \in RiskSymbols |-> 0]

\* Mutant: a short position is not limited.
LongLimitOnly(o) ==
  position[RiskOrders[o].symbol].quantity + Sign(RiskOrders[o].side) * RiskOrders[o].quantity
    <= MaxPositionPerSymbol

WithinPositionLimit(o) ==
  AbsOf(position[RiskOrders[o].symbol].quantity + Sign(RiskOrders[o].side) * RiskOrders[o].quantity)
    <= MaxPositionPerSymbol

PriceDeviates(o, market) ==
  market > 0 /\ 100 * AbsOf(RiskOrders[o].price - market) > DeviationPercent * market

\* CheckOrder, up to the exposure.
CheckOrder(o, market) ==
  /\ checkPC[o] = "idle"
  /\ checkPC' = [checkPC EXCEPT ![o] =
        IF \/ RiskOrders[o].quantity > MaxOrderSize \/ Notional(o) > MaxNotionalPerOrder
           \/ ~WithinPositionLimit(o) \/ PriceDeviates(o, market)
        THEN "rejected" ELSE "exposure"]
  /\ UNCHANGED <<position, exposureOf, toFill, cashOf>>

ReadExposure(o, s) ==
  /\ checkPC[o] = "exposure" /\ s \in RiskSymbols \ exposureOf[o].seen
  /\ exposureOf' = [exposureOf EXCEPT ![o] =
        [seen |-> @.seen \cup {s},
         sum |-> @.sum + AbsOf(Quotient(position[s].quantity * position[s].avgPrice, RiskScale))]]
  /\ UNCHANGED <<position, checkPC, toFill, cashOf>>

CheckNotionalExposure(o) ==
  /\ checkPC[o] = "exposure" /\ exposureOf[o].seen = RiskSymbols
  /\ checkPC' = [checkPC EXCEPT ![o] =
        IF exposureOf[o].sum + Notional(o) > MaxNotionalExposure THEN "rejected" ELSE "allowed"]
  /\ UNCHANGED <<position, exposureOf, toFill, cashOf>>

\* Mutant: crossing through zero averages over the closed part too.
AveragesClosed(p, side, qty, price) ==
  LET s      == Sign(side)
      reduce == IF s * p.quantity < 0 THEN Min({qty, AbsOf(p.quantity)}) ELSE 0
      after  == p.quantity + s * qty
  IN  [p EXCEPT !.quantity = after,
                !.avgPrice = IF qty > reduce THEN Quotient(p.quantity * @ + s * qty * price, after) ELSE @,
                !.realizedPnL = @ - s * Quotient((price - p.avgPrice) * reduce, RiskScale)]

\* UpdatePosition: the part of a fill that closes a position of the other side realizes
\* a profit or a loss, the rest opens or adds to a position.
UpdatePosition(p, side, qty, price) ==
  LET s      == Sign(side)
      reduce == IF s * p.quantity < 0 THEN Min({qty, AbsOf(p.quantity)}) ELSE 0
      held   == p.quantity + s * reduce
      rest   == qty - reduce
      after  == held + s * rest
  IN  [quantity |-> after,
       avgPrice |-> IF rest > 0 /\ after # 0
                    THEN Quotient(held * p.avgPrice + s * rest * price, after) ELSE p.avgPrice,
       realizedPnL |-> p.realizedPnL - s * Quotient((price - p.avgPrice) * reduce, RiskScale),
       totalBought |-> p.totalBought + IF side = "buy" THEN rest ELSE 0,
       totalSold |-> p.totalSold + IF side = "sell" THEN rest ELSE 0]

\* A fill of part of an order that was let through.
FillOrder(o, qty) ==
  LET r == RiskOrders[o]
  IN  /\ checkPC[o] = "allowed" /\ qty \in 1 .. toFill[o]
      /\ toFill' = [toFill EXCEPT ![o] = @ - qty]
      /\ position' = [position EXCEPT ![r.symbol] = UpdatePosition(@, r.side, qty, r.price)]
      /\ cashOf' = [cashOf EXCEPT ![r.symbol] = @ - Sign(r.side) * qty * r.price]
      /\ UNCHANGED <<checkPC, exposureOf>>

RiskNext ==
  \E o \in OrderIDs :
    \/ \E market \in MarketPrices : CheckOrder(o, market)
    \/ \E s \in RiskSymbols : ReadExposure(o, s)
    \/ CheckNotionalExposure(o)
    \/ \E qty \in 1 .. MaxOrderSize : FillOrder(o, qty)

RiskSpec == NewRiskEngine /\ [][RiskNext]_riskVars
-----------------------------------------------------------------------------
RiskTypeOK ==
  /\ checkPC \in [OrderIDs -> {"idle", "exposure", "rejected", "allowed"}]
  /\ \A o \in OrderIDs : toFill[o] \in 0 .. RiskOrders[o].quantity /\ exposureOf[o].seen \subseteq RiskSymbols

RiskOrdersOf(s, side) == {o \in OrderIDs : RiskOrders[o].symbol = s /\ RiskOrders[o].side = side}
FilledOf(o) == RiskOrders[o].quantity - toFill[o]
SumOver(S, f) == MapThenSumSet(LAMBDA o : f[o], S)
FilledQuantity(s, side) == SumOver(RiskOrdersOf(s, side), [o \in OrderIDs |-> FilledOf(o)])
PendingQuantity(s, side) == SumOver({o \in RiskOrdersOf(s, side) : checkPC[o] = "allowed"}, toFill)

(* Checks of several orders may all pass on the same position, so that the *)
(* limit can be exceeded; but what is held and what is let through stay    *)
(* within the limit and one largest order for each of the other orders of  *)
(* the symbol (CheckOrder and UpdatePosition).                             *)
PositionBounded ==
  \A s \in RiskSymbols, side \in {"buy", "sell"} :
    Sign(side) * position[s].quantity + PendingQuantity(s, side)
      <= MaxPositionPerSymbol + (Max({Cardinality(RiskOrdersOf(s, side)), 1}) - 1) * MaxOrderSize

(* Whatever pieces the fills come in and however often a position passes   *)
(* through zero, the position is what was bought less what was sold, its   *)
(* average price lies between the prices that were paid, and the realized  *)
(* profit is the money received and the value held, but for one rounding   *)
(* of each fill.                                                           *)
PositionTellsTruth ==
  \A s \in RiskSymbols :
    LET p      == position[s]
        prices == {RiskOrders[o].price : o \in {x \in OrderIDs : RiskOrders[x].symbol = s /\ FilledOf(x) > 0}}
        fills  == FilledQuantity(s, "buy") + FilledQuantity(s, "sell")
    IN  /\ p.quantity = FilledQuantity(s, "buy") - FilledQuantity(s, "sell")
        /\ p.quantity # 0 => Min(prices) <= p.avgPrice /\ p.avgPrice <= Max(prices)
        /\ AbsOf(cashOf[s] + p.quantity * p.avgPrice - RiskScale * p.realizedPnL)
             <= fills * (RiskScale + fills)
=============================================================================
