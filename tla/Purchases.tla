------------------------------ MODULE Purchases ------------------------------
(***************************************************************************)
(* What players buy with their balances: the machines of a limited offer   *)
(* event, machines of the shop, rooms, and another currency.               *)
(*                                                                         *)
(* Every purchase reads the balance, decides, and then debits whatever the *)
(* balance has become; shop, swap and offer read it inside of their        *)
(* transactions, which at READ COMMITTED is no different.  The stock of an *)
(* offer is guarded by an optimistic counter: read soldCount, update it    *)
(* where it is still the same, and read it again if it is not.  What       *)
(* follows the update in a transaction takes effect with it.               *)
(*                                                                         *)
(* One offered machine.  A balance is that of one currency, and a swap     *)
(* gives one unit for one.  Nothing looks at the sign of a swap's amount.  *)
(* The machines that are granted and the copy of the balance in the engine *)
(* are subjects of other modules.                                          *)
(***************************************************************************)
EXTENDS Integers, Sequences, FiniteSets

CONSTANTS
  Customers,         \* the players
  Calls,          \* HTTP requests in progress
  Quantities,     \* how many machines are bought at once
  ShopPrice,
  RoomPrices,     \* the price of each room, in their order
  Currencies, PolCurrency,
  SwapAmounts,    \* what a player may ask to swap, negative or not
  OpeningBalance, \* each player's balance of each currency
  StockLevels,    \* the stocks an administrator may give the offer
  OfferPrice,
  OfferLimit,     \* claimLimitPerUser
  MaxTries,       \* reads of soldCount before STOCK_BUSY (10 in the code)
  MaxEdits,       \* bound on the administrator's changes of the offer
  MaxPurchases    \* bound on the calls

ASSUME QuantityAssumption == Quantities \subseteq Nat \ {0}
ASSUME StockAssumption == StockLevels \subseteq Nat /\ StockLevels # {}
ASSUME PriceAssumption ==
  /\ ShopPrice \in Nat /\ OfferPrice \in Nat /\ SwapAmounts \subseteq Int
  /\ RoomPrices \in Seq(Nat)
  /\ OpeningBalance \in Nat /\ PolCurrency \in Currencies
ASSUME LimitAssumption ==
  OfferLimit \in Nat /\ MaxTries \in Nat /\ MaxEdits \in Nat /\ MaxPurchases \in Nat

VARIABLES
  bal,        \* users.pol_balance and the like
  rooms,      \* user_rooms: the room numbers of each player, in their order
  offer,      \* the event and its machine: stockCount, isFree, whether it is on sale
  soldCount,  \*   soldCount
  receipts,   \* event_purchases: the player of each row
  call,       \* requests in progress
  edits,      \* bound: changes of the offer so far
  begun,      \* bound: calls begun so far
  largest,    \* history: the largest stock the offer had
  together,   \* history: players who had two purchases in progress
  reversed    \* history: balances that a swap of a negative amount was taken from

pVars == <<bal, rooms, offer, soldCount, receipts, call, edits, begun, largest, together,
           reversed>>

IdleCall == [pc |-> "idle", op |-> "none", buyer |-> "none", qty |-> 0, cost |-> 0,
             currency |-> PolCurrency, room |-> 0, seen |-> 0, tries |-> 0]

\* The offer when its event begins.
FirstOffers == [stock : StockLevels, free : BOOLEAN, live : {TRUE}]

PInit ==
  /\ bal = [b \in Customers |-> [c \in Currencies |-> OpeningBalance]]
  /\ rooms = [b \in Customers |-> <<>>]
  /\ offer \in FirstOffers
  /\ soldCount = 0
  /\ receipts = <<>>
  /\ call = [c \in Calls |-> IdleCall]
  /\ edits = 0
  /\ begun = 0
  /\ largest = offer.stock
  /\ together = {}
  /\ reversed = {}

-----------------------------------------------------------------------------
Begin(c, b, op, pc, qty, cost, currency, room) ==
  /\ call[c].pc = "idle"
  /\ begun < MaxPurchases
  /\ begun' = begun + 1
  /\ call' = [call EXCEPT ![c] = [pc |-> pc, op |-> op, buyer |-> b, qty |-> qty,
                                  cost |-> cost, currency |-> currency, room |-> room,
                                  seen |-> 0, tries |-> 0]]
  /\ UNCHANGED <<bal, rooms, offer, soldCount, receipts, edits, largest>>

Finish(c) == call' = [call EXCEPT ![c] = IdleCall]
To(c, pc) == call' = [call EXCEPT ![c].pc = pc]

Cost(price, qty) == price * qty

\* purchaseMiner
BeginShop(c, b) ==
  \E q \in Quantities :
    Begin(c, b, "shop", "balance", q, Cost(ShopPrice, q), PolCurrency, 0)

\* executeSwap, from one currency to the other: Number(amount), of either sign
BeginSwap(c, b) ==
  \E from \in Currencies, n \in SwapAmounts : Begin(c, b, "swap", "balance", 1, n, from, 0)

\* buyRoom: the rooms are read, the next one is wanted.
BeginRoom(c, b) ==
  LET next == Len(rooms[b]) + 1
  IN  /\ next <= Len(RoomPrices)
      /\ Begin(c, b, "room", "balance", 1, RoomPrices[next], PolCurrency, next)

\* isOfferEventLiveAt, isActive, hasEventMinerStock
OnSale == offer.live /\ soldCount < offer.stock

\* purchaseEventMinerForUser
BeginOffer(c, b) ==
  /\ OnSale
  /\ \E q \in Quantities :
       Begin(c, b, "offer", IF offer.free THEN "claims" ELSE "balance", q,
             IF offer.free THEN 0 ELSE Cost(OfferPrice, q), PolCurrency, 0)

-----------------------------------------------------------------------------
Claims(b) == Cardinality({i \in DOMAIN receipts : receipts[i] = b})

\* mutant: only earlier claims count, not what is asked for
EarlierClaims(c) == Claims(call[c].buyer) < OfferLimit

WithinLimit(c) == OfferLimit > 0 => Claims(call[c].buyer) + call[c].qty <= OfferLimit

CountClaims(c) ==
  /\ call[c].pc = "claims"
  /\ WithinLimit(c)
  /\ To(c, "stock")
  /\ UNCHANGED <<bal, rooms, offer, soldCount, receipts, edits, begun, largest>>

\* mutant: the balance is held against the price of one machine
CoversOne(c) == bal[call[c].buyer][call[c].currency] * call[c].qty >= call[c].cost

CoversAll(c) == bal[call[c].buyer][call[c].currency] >= call[c].cost

ReadBalance(c) ==
  /\ call[c].pc = "balance"
  /\ CoversAll(c)
  /\ To(c, IF call[c].op = "offer" THEN "stock" ELSE "commit")
  /\ UNCHANGED <<bal, rooms, offer, soldCount, receipts, edits, begun, largest>>

-----------------------------------------------------------------------------
(* incrementSoldCountOptimistic                                            *)

\* mutant: the stock was looked at before
AnyLeft(c) == TRUE

StockLeft(c) == offer.stock - soldCount >= call[c].qty

ReadSold(c) ==
  /\ call[c].pc = "stock"
  /\ StockLeft(c)
  /\ call' = [call EXCEPT ![c].pc = "sell", ![c].seen = soldCount]
  /\ UNCHANGED <<bal, rooms, offer, soldCount, receipts, edits, begun, largest>>

\* mutant: the counter is updated by id alone
UpdatedById(c) == TRUE

StillSeen(c) == soldCount = call[c].seen

Debit(c) == [bal EXCEPT ![call[c].buyer][call[c].currency] = @ - call[c].cost]

\* The update meets the count that was read: the purchase is made.
SellOffer(c) ==
  /\ call[c].pc = "sell"
  /\ StillSeen(c)
  /\ soldCount' = soldCount + call[c].qty
  /\ receipts' = receipts \o [i \in 1 .. call[c].qty |-> call[c].buyer]
  /\ bal' = Debit(c)
  /\ Finish(c)
  /\ UNCHANGED <<rooms, offer, edits, begun, largest>>

\* It does not: the count is read again.
Retry(c) ==
  /\ call[c].pc = "sell"
  /\ ~StillSeen(c)
  /\ call[c].tries + 1 < MaxTries
  /\ call' = [call EXCEPT ![c].pc = "stock", ![c].tries = @ + 1]
  /\ UNCHANGED <<bal, rooms, offer, soldCount, receipts, edits, begun, largest>>

-----------------------------------------------------------------------------
CommitShop(c) ==
  /\ call[c].pc = "commit" /\ call[c].op = "shop"
  /\ bal' = Debit(c)
  /\ Finish(c)
  /\ UNCHANGED <<rooms, offer, soldCount, receipts, edits, begun, largest>>

CommitSwap(c) ==
  /\ call[c].pc = "commit" /\ call[c].op = "swap"
  /\ \E other \in Currencies \ {call[c].currency} :
       bal' = [Debit(c) EXCEPT ![call[c].buyer][other] = @ + call[c].cost]
  /\ Finish(c)
  /\ UNCHANGED <<rooms, offer, soldCount, receipts, edits, begun, largest>>

\* mutant: nothing keeps a room number from being inserted twice
RoomAnyway(c) == TRUE

\* @@unique([userId, roomNumber]): the debit is undone with the insert.
RoomIsNew(c) == \A i \in DOMAIN rooms[call[c].buyer] : rooms[call[c].buyer][i] # call[c].room

CommitRoom(c) ==
  /\ call[c].pc = "commit" /\ call[c].op = "room"
  /\ RoomIsNew(c)
  /\ bal' = Debit(c)
  /\ rooms' = [rooms EXCEPT ![call[c].buyer] = Append(@, call[c].room)]
  /\ Finish(c)
  /\ UNCHANGED <<offer, soldCount, receipts, edits, begun, largest>>

\* A test fails, a unique index is hit, the tries are used up or a query throws.
Reject(c) ==
  /\ call[c].pc # "idle"
  /\ Finish(c)
  /\ UNCHANGED <<bal, rooms, offer, soldCount, receipts, edits, begun, largest>>

-----------------------------------------------------------------------------
\* adminUpdateEventMiner: the stock, which may fall below what is sold.  Its
\* other fields stay as they are.
EditOffer ==
  /\ edits < MaxEdits
  /\ edits' = edits + 1
  /\ \E n \in StockLevels :
       /\ offer' = [offer EXCEPT !.stock = n]
       /\ largest' = IF n > largest THEN n ELSE largest
  /\ UNCHANGED <<bal, rooms, soldCount, receipts, call, begun>>

\* adminRemoveEventMiner, adminSoftDeleteOfferEvent, the end of the event and
\* deactivateExpiredOfferEvents.
EndOffer ==
  /\ offer.live
  /\ offer' = [offer EXCEPT !.live = FALSE]
  /\ UNCHANGED <<bal, rooms, soldCount, receipts, call, edits, begun, largest>>

-----------------------------------------------------------------------------
Buy(c) ==
  \/ \E b \in Customers : BeginShop(c, b) \/ BeginSwap(c, b) \/ BeginRoom(c, b) \/ BeginOffer(c, b)
  \/ CountClaims(c) \/ ReadBalance(c)
  \/ ReadSold(c) \/ SellOffer(c) \/ Retry(c)
  \/ CommitShop(c) \/ CommitSwap(c) \/ CommitRoom(c)
  \/ Reject(c)

Busy(b) == {c \in Calls : call[c].buyer = b}
TwoCalls(b) == \E c, d \in Busy(b) : c # d

\* A negative amount is taken from the currency it was to be given in.
Reversals ==
  {e \in Customers \X Currencies :
     \E c \in Busy(e[1]) : /\ call[c].op = "swap" /\ call[c].pc = "commit"
                           /\ call[c].cost < 0 /\ call[c].currency # e[2]}

PStep == (\E c \in Calls : Buy(c)) \/ EditOffer \/ EndOffer

PNext ==
  /\ PStep
  /\ together' = together \cup {b \in Customers : TwoCalls(b)}'
  /\ reversed' = reversed \cup Reversals

PSpec == PInit /\ [][PNext]_pVars

-----------------------------------------------------------------------------
\* incrementSoldCountOptimistic: however the calls interleave, and whatever
\* the administrator makes of the stock, the players never have more of the
\* offered machine than the largest stock it had.  The mapping counts the
\* rows of event_purchases and not the counter that guards them.
Offered == INSTANCE Stock WITH sold <- Len(receipts), most <- largest

ImplementsStock == Offered!StockSpec

\* A room is unlocked once and after those before it, however often it was
\* wanted at a time; a player with one purchase at a time never owes
\* ("Insufficient balance") in a currency that no swap of a negative amount
\* was taken from, and claims a free offer as often as he may ("Check
\* per-user claim limit").
PurchasesCovered ==
  /\ \A b \in Customers : \A i \in DOMAIN rooms[b] : rooms[b][i] = i
  /\ \A b \in Customers \ together :
       /\ \A k \in Currencies : <<b, k>> \notin reversed => bal[b][k] >= 0
       /\ offer.free /\ OfferLimit > 0 => Claims(b) <= OfferLimit

=============================================================================
