--------------------------- MODULE Market_proofs -----------------------------
(***************************************************************************)
(* Proofs about the two parts of Market, first about Purchases, for any    *)
(* players, calls, prices, stocks, tries and bounds.                       *)
(*                                                                         *)
(* The stock: a call that is about to sell has seen a count that left room *)
(* for its quantity (Seen), the rows of event_purchases are as many as the *)
(* counter says (Counted), and the update meets the count that was seen.   *)
(***************************************************************************)
EXTENDS Market, Sums_proofs, TLAPS

Ops == {"none", "shop", "swap", "room", "offer"}
Pcs == {"idle", "balance", "claims", "stock", "sell", "commit"}

CallRecord ==
  [pc : Pcs, op : Ops, buyer : Customers \cup {"none"}, qty : Nat, cost : Int,
   currency : Currencies, room : Nat, seen : Nat, tries : Nat]

PTypeOK ==
  /\ bal \in [Customers -> [Currencies -> Int]]
  /\ rooms \in [Customers -> Seq(Nat)]
  /\ offer \in [stock : StockLevels, free : BOOLEAN, live : BOOLEAN]
  /\ soldCount \in Nat
  /\ receipts \in Seq(Customers)
  /\ call \in [Calls -> CallRecord]
  /\ largest \in Nat

Counted == Len(receipts) = soldCount /\ soldCount <= largest /\ offer.stock <= largest

Begun(c) == call[c].pc # "idle" => call[c].qty >= 1 /\ call[c].buyer \in Customers

Seen(c) == call[c].pc = "sell" => call[c].seen + call[c].qty <= largest

StockInv == PTypeOK /\ Counted /\ \A c \in Calls : Begun(c) /\ Seen(c)

(***************************************************************************)
(* Lemmas                                                                  *)
(***************************************************************************)

\* A purchase of n machines adds n rows of the buyer, after those before.
LEMMA AppendCopies ==
  ASSUME NEW S, NEW s \in Seq(S), NEW n \in Nat, NEW b \in S
  PROVE  LET t == s \o [i \in 1 .. n |-> b]
         IN  /\ t \in Seq(S)
             /\ Len(t) = Len(s) + n
             /\ \A i \in 1 .. Len(s) : t[i] = s[i]
             /\ \A i \in Len(s) + 1 .. Len(s) + n : t[i] = b
<1> DEFINE u == [i \in 1 .. n |-> b]
<1>1. u \in Seq(S) /\ Len(u) = n
  <2>1. u \in [1 .. n -> S]
    OBVIOUS
  <2> QED
    BY <2>1
<1> QED
  BY <1>1

\* What a customer pays for q pieces is no debt.
LEMMA CostNat == ASSUME NEW p \in Nat, NEW q \in Nat PROVE Cost(p, q) \in Nat
BY DEF Cost

LEMMA IdleRecord == IdleCall \in CallRecord
BY PriceAssumption DEF IdleCall, CallRecord, Pcs, Ops

\* A new call of b: the next room, a free machine after its claims are counted.
Intends(r, b) ==
  /\ r.op = "room" => r.room = Len(rooms[b]) + 1
  /\ r.pc = "claims" => r.cost = 0
  /\ r.pc = "balance" /\ r.op = "offer" => ~offer.free

\* A call that is started: what it wants to buy, and that nothing else moves.
LEMMA Beginning ==
  ASSUME PTypeOK, NEW c \in Calls, NEW b \in Customers,
         BeginShop(c, b) \/ BeginSwap(c, b) \/ BeginRoom(c, b) \/ BeginOffer(c, b)
  PROVE  \E r \in CallRecord :
           /\ call' = [call EXCEPT ![c] = r]
           /\ r.pc \in {"balance", "claims"} /\ r.qty >= 1 /\ r.buyer = b
           /\ Intends(r, b)
           /\ UNCHANGED <<bal, rooms, offer, soldCount, receipts, edits, largest>>
<1> DEFINE R(op, pc, q, cost, cur, room) ==
             [pc |-> pc, op |-> op, buyer |-> b, qty |-> q, cost |-> cost, currency |-> cur,
              room |-> room, seen |-> 0, tries |-> 0]
<1>0. ASSUME NEW op \in Ops, NEW pc \in {"balance", "claims"}, NEW q \in Nat, q >= 1,
             NEW cost \in Int, NEW cur \in Currencies, NEW room \in Nat,
             Intends(R(op, pc, q, cost, cur, room), b),
             Begin(c, b, op, pc, q, cost, cur, room)
      PROVE  \E r \in CallRecord :
               /\ call' = [call EXCEPT ![c] = r]
               /\ r.pc \in {"balance", "claims"} /\ r.qty >= 1 /\ r.buyer = b
               /\ Intends(r, b)
               /\ UNCHANGED <<bal, rooms, offer, soldCount, receipts, edits, largest>>
  <2>1. R(op, pc, q, cost, cur, room) \in CallRecord
    BY <1>0 DEF CallRecord, Pcs, Ops
  <2> QED
    BY <1>0, <2>1 DEF Begin
<1>1. CASE BeginShop(c, b)
  <2>1. PICK q \in Quantities : Begin(c, b, "shop", "balance", q, Cost(ShopPrice, q), PolCurrency, 0)
    BY <1>1 DEF BeginShop
  <2>a. q \in Nat /\ q >= 1
    BY QuantityAssumption
  <2>b. ShopPrice \in Nat /\ PolCurrency \in Currencies
    BY PriceAssumption
  <2>2. q \in Nat /\ q >= 1 /\ Cost(ShopPrice, q) \in Nat /\ PolCurrency \in Currencies
    BY <2>a, <2>b, CostNat
  <2> QED
    BY <2>1, <2>2, <1>0 DEF Ops, Intends
<1>2. CASE BeginSwap(c, b)
  <2>1. PICK from \in Currencies, n \in SwapAmounts : Begin(c, b, "swap", "balance", 1, n, from, 0)
    BY <1>2 DEF BeginSwap
  <2>2. Intends(R("swap", "balance", 1, n, from, 0), b) /\ n \in Int
    BY PriceAssumption DEF Intends
  <2> HIDE DEF R
  <2> QED
    BY <2>1, <2>2, <1>0 DEF Ops
<1>3. CASE BeginRoom(c, b)
  <2> DEFINE next == Len(rooms[b]) + 1
  <2>1. next \in Nat /\ rooms[b] \in Seq(Nat)
    BY DEF PTypeOK
  <2>2. next \in 1 .. Len(RoomPrices)
    BY <1>3, <2>1 DEF BeginRoom
  <2>3. RoomPrices[next] \in Nat
    BY <2>2, PriceAssumption
  <2>4. Begin(c, b, "room", "balance", 1, RoomPrices[next], PolCurrency, next)
    BY <1>3 DEF BeginRoom
  <2>5. Intends(R("room", "balance", 1, RoomPrices[next], PolCurrency, next), b)
    BY DEF Intends
  <2>6. PICK x \in Nat, y \in Nat : x = RoomPrices[next] /\ y = next
    BY <2>1, <2>3
  <2> HIDE DEF next
  <2>7. /\ Begin(c, b, "room", "balance", 1, x, PolCurrency, y)
        /\ Intends(R("room", "balance", 1, x, PolCurrency, y), b)
    BY <2>4, <2>5, <2>6
  <2> QED
    BY <2>7, <1>0, PriceAssumption DEF Ops
<1>4. CASE BeginOffer(c, b)
  <2>1. PICK q \in Quantities :
          Begin(c, b, "offer", IF offer.free THEN "claims" ELSE "balance", q,
                IF offer.free THEN 0 ELSE Cost(OfferPrice, q), PolCurrency, 0)
    BY <1>4 DEF BeginOffer
  <2>a. q \in Nat /\ q >= 1
    BY QuantityAssumption
  <2>b. OfferPrice \in Nat /\ PolCurrency \in Currencies
    BY PriceAssumption
  <2>2. q \in Nat /\ q >= 1 /\ Cost(OfferPrice, q) \in Nat /\ PolCurrency \in Currencies
    BY <2>a, <2>b, CostNat
  <2>3. CASE offer.free
    BY <2>1, <2>2, <2>3, <1>0 DEF Ops, Intends
  <2>4. CASE ~offer.free
    BY <2>1, <2>2, <2>4, <1>0 DEF Ops, Intends
  <2> QED
    BY <2>3, <2>4
<1> QED
  BY <1>1, <1>2, <1>3, <1>4

\* Calls other than c stay as they are, and the largest stock only grows.
LEMMA Moving ==
  ASSUME StockInv, NEW c \in Calls, NEW r \in CallRecord,
         call' = [call EXCEPT ![c] = r],
         r.pc # "idle" => r.qty >= 1 /\ r.buyer \in Customers,
         r.pc = "sell" => r.seen + r.qty <= largest,
         UNCHANGED largest
  PROVE  call' \in [Calls -> CallRecord] /\ \A d \in Calls : (Begun(d) /\ Seen(d))'
<1>1. call' \in [Calls -> CallRecord]
  BY DEF StockInv, PTypeOK
<1>2. call'[c] = r
  BY DEF StockInv, PTypeOK
<1>3. \A d \in Calls \ {c} : call'[d] = call[d]
  BY DEF StockInv, PTypeOK
<1> QED
  BY <1>1, <1>2, <1>3 DEF StockInv, Begun, Seen

\* A debit leaves every balance a number: the code lets it fall below zero.
LEMMA Debiting ==
  ASSUME StockInv, NEW c \in Calls, call[c].pc # "idle"
  PROVE  /\ Debit(c) \in [Customers -> [Currencies -> Int]]
         /\ call[c].buyer \in Customers /\ call[c].currency \in Currencies
         /\ call[c].cost \in Int
<1>1. call[c] \in CallRecord /\ bal \in [Customers -> [Currencies -> Int]]
  BY DEF StockInv, PTypeOK
<1>2. call[c].buyer \in Customers
  BY DEF StockInv, Begun
<1>3. call[c].currency \in Currencies /\ call[c].cost \in Int
  BY <1>1 DEF CallRecord
<1> QED
  BY <1>1, <1>2, <1>3 DEF Debit

(***************************************************************************)
(* The counter holds the stock                                             *)
(***************************************************************************)

LEMMA InitStock == PInit => StockInv
<1> SUFFICES ASSUME PInit PROVE StockInv
  OBVIOUS
<1>1. offer \in [stock : StockLevels, free : BOOLEAN, live : BOOLEAN]
  BY DEF PInit, FirstOffers
<1>2. bal \in [Customers -> [Currencies -> Int]]
  BY PriceAssumption DEF PInit
<1>3. rooms \in [Customers -> Seq(Nat)]
  BY DEF PInit
<1>4. largest \in Nat /\ largest = offer.stock
  BY <1>1, StockAssumption DEF PInit
<1>5. call \in [Calls -> CallRecord]
  BY IdleRecord DEF PInit
<1>6. \A c \in Calls : Begun(c) /\ Seen(c)
  BY DEF PInit, Begun, Seen, IdleCall
<1> QED
  BY <1>1, <1>2, <1>3, <1>4, <1>5, <1>6 DEF StockInv, PTypeOK, Counted, PInit

\* What a step of a purchase does to the call and to the rest.
LEMMA BuyStock ==
  ASSUME StockInv, NEW c \in Calls, Buy(c)
  PROVE  /\ StockInv'
         /\ UNCHANGED largest
         /\ Len(receipts)' = Len(receipts) \/ Len(receipts)' \in Len(receipts) + 1 .. largest
<1>0. /\ call \in [Calls -> CallRecord] /\ call[c] \in CallRecord
      /\ receipts \in Seq(Customers) /\ soldCount \in Nat /\ largest \in Nat
      /\ Len(receipts) = soldCount /\ soldCount <= largest
  BY DEF StockInv, PTypeOK, Counted
<1> DEFINE Rest == UNCHANGED <<offer, soldCount, receipts, largest>>
<1>i. /\ IdleCall \in CallRecord /\ IdleCall.pc = "idle"
  BY IdleRecord DEF IdleCall
<1>1. ASSUME NEW r \in CallRecord, call' = [call EXCEPT ![c] = r],
             r.pc # "idle" => r.qty >= 1 /\ r.buyer \in Customers,
             r.pc = "sell" => r.seen + r.qty <= largest,
             bal' \in [Customers -> [Currencies -> Int]],
             rooms' \in [Customers -> Seq(Nat)],
             Rest
      PROVE  /\ StockInv' /\ UNCHANGED largest /\ Len(receipts)' = Len(receipts)
  <2>1. call' \in [Calls -> CallRecord] /\ \A d \in Calls : (Begun(d) /\ Seen(d))'
    BY <1>1, Moving
  <2>2. Counted' /\ largest' = largest /\ receipts' = receipts
    BY <1>1 DEF StockInv, Counted
  <2>3. PTypeOK'
    BY <1>1, <2>1 DEF StockInv, PTypeOK
  <2> QED
    BY <2>1, <2>2, <2>3 DEF StockInv
<1>2. CASE \E b \in Customers : BeginShop(c, b) \/ BeginSwap(c, b) \/ BeginRoom(c, b) \/ BeginOffer(c, b)
  <2>1. PICK b \in Customers : BeginShop(c, b) \/ BeginSwap(c, b) \/ BeginRoom(c, b) \/ BeginOffer(c, b)
    BY <1>2
  <2>2. PICK r \in CallRecord :
          /\ call' = [call EXCEPT ![c] = r]
          /\ r.pc \in {"balance", "claims"} /\ r.qty >= 1 /\ r.buyer = b
          /\ UNCHANGED <<bal, rooms, offer, soldCount, receipts, edits, largest>>
    BY <2>1, Beginning DEF StockInv
  <2> QED
    BY <2>2, <1>1 DEF StockInv, PTypeOK
<1>3. CASE CountClaims(c)
  <2> DEFINE r == [call[c] EXCEPT !.pc = "stock"]
  <2>1. /\ r \in CallRecord /\ r.pc = "stock" /\ r.qty = call[c].qty /\ r.buyer = call[c].buyer
    BY <1>0 DEF CallRecord, Pcs
  <2>2. /\ call' = [call EXCEPT ![c] = r] /\ call[c].pc = "claims"
        /\ UNCHANGED <<bal, rooms, offer, soldCount, receipts, edits, largest>>
    BY <1>3, <1>0 DEF CountClaims, To
  <2> HIDE DEF r
  <2> QED
    BY <2>1, <2>2, <1>1 DEF StockInv, PTypeOK, Begun
<1>4. CASE ReadBalance(c)
  <2> DEFINE r == [call[c] EXCEPT !.pc = IF call[c].op = "offer" THEN "stock" ELSE "commit"]
  <2>1. /\ r \in CallRecord /\ r.pc \in {"stock", "commit"}
        /\ r.qty = call[c].qty /\ r.buyer = call[c].buyer
    BY <1>0 DEF CallRecord, Pcs
  <2>2. /\ call' = [call EXCEPT ![c] = r] /\ call[c].pc = "balance"
        /\ UNCHANGED <<bal, rooms, offer, soldCount, receipts, edits, largest>>
    BY <1>4, <1>0 DEF ReadBalance, To
  <2> HIDE DEF r
  <2> QED
    BY <2>1, <2>2, <1>1 DEF StockInv, PTypeOK, Begun
<1>5. CASE ReadSold(c)
  <2> DEFINE r == [call[c] EXCEPT !.pc = "sell", !.seen = soldCount]
  <2>1. /\ r \in CallRecord /\ r.pc = "sell" /\ r.seen = soldCount
        /\ r.qty = call[c].qty /\ r.buyer = call[c].buyer /\ r.qty \in Nat
    BY <1>0 DEF CallRecord, Pcs
  <2>2. /\ call' = [call EXCEPT ![c] = r] /\ call[c].pc = "stock" /\ StockLeft(c)
        /\ UNCHANGED <<bal, rooms, offer, soldCount, receipts, edits, largest>>
    BY <1>5, <1>0 DEF ReadSold
  <2>3. offer.stock \in Nat /\ offer.stock <= largest
    BY StockAssumption DEF StockInv, PTypeOK, Counted
  <2> HIDE DEF r
  <2>4. r.seen + r.qty <= largest
    BY <2>1, <2>2, <2>3, <1>0 DEF StockLeft
  <2> QED
    BY <2>1, <2>2, <2>4, <1>1 DEF StockInv, PTypeOK, Begun
<1>6. CASE SellOffer(c)
  <2> DEFINE q == call[c].qty
             b == call[c].buyer
  <2>1. /\ call[c].pc = "sell" /\ call[c].pc # "idle" /\ soldCount = call[c].seen
        /\ soldCount' = soldCount + q
        /\ receipts' = receipts \o [i \in 1 .. q |-> b]
        /\ bal' = Debit(c) /\ call' = [call EXCEPT ![c] = IdleCall]
        /\ UNCHANGED <<rooms, offer, largest>>
    BY <1>6 DEF SellOffer, StillSeen, Finish
  <2>2. q \in Nat /\ q >= 1 /\ b \in Customers /\ soldCount + q <= largest
    BY <2>1, <1>0 DEF StockInv, Begun, Seen, CallRecord
  <2>3. receipts' \in Seq(Customers) /\ Len(receipts') = Len(receipts) + q
    <3> HIDE DEF q, b
    <3> DEFINE t == receipts \o [i \in 1 .. q |-> b]
    <3>1. q \in Nat /\ b \in Customers /\ receipts \in Seq(Customers)
      BY <2>2, <1>0
    <3>2. t \in Seq(Customers) /\ Len(t) = Len(receipts) + q
      BY <3>1, AppendCopies
    <3> QED
      BY <2>1, <3>2
  <2>4. call' \in [Calls -> CallRecord] /\ \A d \in Calls : (Begun(d) /\ Seen(d))'
    BY <2>1, <1>i, Moving
  <2>5. bal' \in [Customers -> [Currencies -> Int]]
    BY <2>1, Debiting
  <2> HIDE DEF q, b
  <2>6. Counted'
    BY <2>1, <2>2, <2>3, <1>0 DEF StockInv, Counted
  <2>7. soldCount' \in Nat
    BY <2>1, <2>2, <1>0
  <2>8. PTypeOK'
    BY <2>1, <2>3, <2>4, <2>5, <2>7 DEF StockInv, PTypeOK
  <2>9. Len(receipts)' \in Len(receipts) + 1 .. largest
    BY <2>2, <2>3, <1>0
  <2> QED
    BY <2>1, <2>4, <2>6, <2>8, <2>9 DEF StockInv
<1>7. CASE Retry(c)
  <2> DEFINE r == [call[c] EXCEPT !.pc = "stock", !.tries = @ + 1]
  <2>0. call[c].tries + 1 \in Nat
    BY <1>0 DEF CallRecord
  <2>1. /\ r \in CallRecord /\ r.pc = "stock" /\ r.qty = call[c].qty /\ r.buyer = call[c].buyer
    BY <2>0, <1>0 DEF CallRecord, Pcs
  <2>2. /\ call' = [call EXCEPT ![c] = r] /\ call[c].pc = "sell"
        /\ UNCHANGED <<bal, rooms, offer, soldCount, receipts, edits, largest>>
    BY <1>7, <1>0 DEF Retry
  <2> HIDE DEF r
  <2> QED
    BY <2>1, <2>2, <1>1 DEF StockInv, PTypeOK, Begun
<1>8. CASE CommitShop(c)
  <2>1. /\ call[c].pc # "idle" /\ bal' = Debit(c) /\ call' = [call EXCEPT ![c] = IdleCall]
        /\ UNCHANGED <<rooms, offer, soldCount, receipts, largest>>
    BY <1>8 DEF CommitShop, Finish
  <2>2. bal' \in [Customers -> [Currencies -> Int]]
    BY <2>1, Debiting
  <2> QED
    BY <2>1, <2>2, <1>i, <1>1 DEF StockInv, PTypeOK
<1>9. CASE CommitSwap(c)
  <2>1. /\ call[c].pc # "idle" /\ call' = [call EXCEPT ![c] = IdleCall]
        /\ UNCHANGED <<rooms, offer, soldCount, receipts, largest>>
    BY <1>9 DEF CommitSwap, Finish
  <2>2. PICK other \in Currencies :
          bal' = [Debit(c) EXCEPT ![call[c].buyer][other] = @ + call[c].cost]
    BY <1>9 DEF CommitSwap
  <2>3. bal' \in [Customers -> [Currencies -> Int]]
    <3>1. /\ Debit(c) \in [Customers -> [Currencies -> Int]]
          /\ call[c].buyer \in Customers /\ call[c].cost \in Int
      BY <2>1, Debiting
    <3> QED
      BY <3>1, <2>2
  <2> QED
    BY <2>1, <2>3, <1>i, <1>1 DEF StockInv, PTypeOK
<1>10. CASE CommitRoom(c)
  <2>1. /\ call[c].pc # "idle" /\ bal' = Debit(c) /\ call' = [call EXCEPT ![c] = IdleCall]
        /\ rooms' = [rooms EXCEPT ![call[c].buyer] = Append(@, call[c].room)]
        /\ UNCHANGED <<offer, soldCount, receipts, largest>>
    BY <1>10 DEF CommitRoom, Finish
  <2>2. bal' \in [Customers -> [Currencies -> Int]] /\ call[c].buyer \in Customers
    BY <2>1, Debiting
  <2>3. call[c].room \in Nat /\ rooms \in [Customers -> Seq(Nat)]
    BY <1>0 DEF StockInv, PTypeOK, CallRecord
  <2>4. rooms' \in [Customers -> Seq(Nat)]
    BY <2>1, <2>2, <2>3
  <2> QED
    BY <2>1, <2>2, <2>4, <1>i, <1>1
<1>11. CASE Reject(c)
  <2>1. /\ call' = [call EXCEPT ![c] = IdleCall]
        /\ UNCHANGED <<bal, rooms, offer, soldCount, receipts, largest>>
    BY <1>11 DEF Reject, Finish
  <2> QED
    BY <2>1, <1>i, <1>1 DEF StockInv, PTypeOK
<1> QED
  BY <1>2, <1>3, <1>4, <1>5, <1>6, <1>7, <1>8, <1>9, <1>10, <1>11 DEF Buy

\* The administrator: the largest stock grows with the stock, and a call that
\* has seen its room before still has it.
LEMMA EditStock ==
  ASSUME StockInv, EditOffer
  PROVE  StockInv' /\ receipts' = receipts /\ largest' \in Nat /\ largest' >= largest
<1>1. PICK n \in StockLevels :
        /\ offer' = [offer EXCEPT !.stock = n]
        /\ largest' = IF n > largest THEN n ELSE largest
  BY DEF EditOffer
<1>2. /\ n \in Nat /\ largest \in Nat /\ soldCount \in Nat /\ soldCount <= largest
      /\ offer \in [stock : StockLevels, free : BOOLEAN, live : BOOLEAN]
  BY StockAssumption DEF StockInv, PTypeOK, Counted
<1>3. UNCHANGED <<bal, rooms, soldCount, receipts, call>>
  BY DEF EditOffer
<1>4. largest' \in Nat /\ largest' >= largest /\ largest' >= n
  BY <1>1, <1>2
<1>5. offer' \in [stock : StockLevels, free : BOOLEAN, live : BOOLEAN] /\ offer'.stock = n
  BY <1>1, <1>2
<1>6. Counted'
  BY <1>2, <1>3, <1>4, <1>5 DEF StockInv, Counted
<1>7. PTypeOK'
  BY <1>3, <1>4, <1>5 DEF StockInv, PTypeOK
<1>8. ASSUME NEW d \in Calls PROVE (Begun(d) /\ Seen(d))'
  <2>1. call[d] \in CallRecord
    BY DEF StockInv, PTypeOK
  <2>2. call[d].seen \in Nat /\ call[d].qty \in Nat
    BY <2>1 DEF CallRecord
  <2> QED
    BY <2>2, <1>2, <1>3, <1>4 DEF StockInv, Begun, Seen
<1> QED
  BY <1>3, <1>4, <1>6, <1>7, <1>8 DEF StockInv

LEMMA EndStock ==
  ASSUME StockInv, EndOffer
  PROVE  StockInv' /\ UNCHANGED <<receipts, largest>>
<1>1. /\ offer' = [offer EXCEPT !.live = FALSE]
      /\ UNCHANGED <<bal, rooms, soldCount, receipts, call, largest>>
  BY DEF EndOffer
<1>2. /\ offer' \in [stock : StockLevels, free : BOOLEAN, live : BOOLEAN]
      /\ offer'.stock = offer.stock
  BY <1>1 DEF StockInv, PTypeOK
<1> QED
  BY <1>1, <1>2 DEF StockInv, PTypeOK, Counted, Begun, Seen

\* A step of the store is a sale, a new stock or nothing, as Stock has them.
LEMMA StockStep ==
  ASSUME StockInv, [PNext]_pVars
  PROVE  /\ StockInv'
         /\ [Offered!Sell \/ Offered!Restock]_<<Len(receipts), largest>>
<1>0. largest \in Nat /\ Len(receipts) \in Nat
  BY DEF StockInv, PTypeOK
<1>1. CASE \E c \in Calls : Buy(c)
  <2>1. PICK c \in Calls : Buy(c)
    BY <1>1
  <2>2. /\ StockInv' /\ UNCHANGED largest
        /\ Len(receipts)' = Len(receipts) \/ Len(receipts)' \in Len(receipts) + 1 .. largest
    BY <2>1, BuyStock
  <2> QED
    BY <2>2 DEF Offered!Sell
<1>2. CASE EditOffer
  <2>1. StockInv' /\ receipts' = receipts /\ largest' \in Nat /\ largest' >= largest
    BY <1>2, EditStock
  <2>2. largest' = largest \/ largest' > largest
    BY <2>1, <1>0
  <2> QED
    BY <2>1, <2>2 DEF Offered!Restock
<1>3. CASE EndOffer
  BY <1>3, EndStock
<1>4. CASE UNCHANGED pVars
  BY <1>4 DEF StockInv, PTypeOK, Counted, Begun, Seen, pVars
<1> QED
  BY <1>1, <1>2, <1>3, <1>4 DEF PNext, PStep

\* Whatever the interleaving of the purchases and of the administrator's
\* changes, a sale of the event machine is a sale within the largest stock.
THEOREM SoldWithinStock == PSpec => ImplementsStock
<1>1. PInit => StockInv
  BY InitStock
<1>2. StockInv /\ [PNext]_pVars => StockInv'
  BY StockStep
<1>3. PInit => Offered!StockInit
  <2>1. PInit => largest \in Nat /\ receipts = <<>>
    BY InitStock DEF StockInv, PTypeOK, PInit
  <2> QED
    BY <2>1 DEF Offered!StockInit
<1>4. StockInv /\ [PNext]_pVars => [Offered!Sell \/ Offered!Restock]_<<Len(receipts), largest>>
  BY StockStep
<1> QED
  BY <1>1, <1>2, <1>3, <1>4, PTL DEF PSpec, ImplementsStock, Offered!StockSpec

(***************************************************************************)
(* What a purchase has tested still holds                                  *)
(*                                                                         *)
(* A player with one purchase at a time: what his call has read is still   *)
(* so when it commits, since no other call of his has moved since (Paced). *)
(* The rooms are numbered in their order, and a call wants one that is     *)
(* there or the one after them (Wants).                                    *)
(***************************************************************************)

\* Two purchases of one player in progress: he is in together.
Noticed ==
  \A c, d \in Calls :
    c # d /\ call[c].pc # "idle" /\ call[d].pc # "idle" /\ call[c].buyer = call[d].buyer
      => call[c].buyer \in together

Wants(c) ==
  call[c].pc # "idle" /\ call[c].op = "room" =>
    call[c].room \in 1 .. Len(rooms[call[c].buyer]) + 1

Ordered(b) == \A i \in DOMAIN rooms[b] : rooms[b][i] = i

Limited == offer.free /\ OfferLimit > 0

Solvent(b) ==
  /\ \A k \in Currencies : <<b, k>> \in reversed \/ bal[b][k] >= 0
  /\ Limited => Claims(b) <= OfferLimit

\* What a call at each of its places has made sure of.
Paced(c) ==
  /\ call[c].pc = "claims" => call[c].cost = 0
  /\ call[c].pc \in {"stock", "sell", "commit"} =>
       \/ <<call[c].buyer, call[c].currency>> \in reversed
       \/ bal[call[c].buyer][call[c].currency] >= call[c].cost
  /\ Limited =>
       /\ call[c].pc = "balance" => call[c].op # "offer"
       /\ call[c].pc \in {"stock", "sell"} => Claims(call[c].buyer) + call[c].qty <= OfferLimit

CoverInv ==
  /\ StockInv /\ Noticed
  /\ \A b \in Customers : Ordered(b) /\ (b \notin together => Solvent(b))
  /\ \A c \in Calls : Wants(c) /\ (call[c].pc # "idle" /\ call[c].buyer \notin together => Paced(c))

RowsOf(s, x) == {i \in DOMAIN s : s[i] = x}

LEMMA RowsFinite ==
  ASSUME NEW S, NEW s \in Seq(S), NEW x
  PROVE  IsFiniteSet(RowsOf(s, x)) /\ Cardinality(RowsOf(s, x)) \in Nat
<1>1. IsFiniteSet(1 .. Len(s))
  BY FS_Interval
<1>2. RowsOf(s, x) \subseteq 1 .. Len(s)
  BY DEF RowsOf
<1> QED
  BY <1>1, <1>2, FS_Subset, FS_CardinalityType

\* The rows of a purchase count for its buyer and for nobody else.
LEMMA RowsAdded ==
  ASSUME NEW S, NEW s \in Seq(S), NEW n \in Nat, NEW b \in S,
         NEW t \in Seq(S), Len(t) = Len(s) + n,
         \A i \in 1 .. Len(s) : t[i] = s[i],
         \A i \in Len(s) + 1 .. Len(s) + n : t[i] = b
  PROVE  /\ Cardinality(RowsOf(t, b)) = Cardinality(RowsOf(s, b)) + n
         /\ \A x \in S \ {b} : RowsOf(t, x) = RowsOf(s, x)
<1> DEFINE new == Len(s) + 1 .. Len(s) + n
<1>2. Len(s) \in Nat /\ DOMAIN s = 1 .. Len(s)
  OBVIOUS
<1>3. DOMAIN t = 1 .. Len(s) + n
  OBVIOUS
<1>4. DOMAIN t = DOMAIN s \cup new
  BY <1>2, <1>3
<1>5. RowsOf(t, b) = RowsOf(s, b) \cup new
  BY <1>2, <1>4 DEF RowsOf
<1>6. \A x \in S \ {b} : RowsOf(t, x) = RowsOf(s, x)
  BY <1>2, <1>4 DEF RowsOf
<1>7. IsFiniteSet(new) /\ Cardinality(new) = n
  <2>1. PICK lo \in Int, hi \in Int : lo = Len(s) + 1 /\ hi = Len(s) + n
    BY <1>2
  <2>2. IsFiniteSet(lo .. hi) /\ Cardinality(lo .. hi) = IF lo > hi THEN 0 ELSE hi - lo + 1
    BY FS_Interval
  <2>3. (IF lo > hi THEN 0 ELSE hi - lo + 1) = n
    BY <2>1, <1>2
  <2> QED
    BY <2>1, <2>2, <2>3
<1>8. RowsOf(s, b) \cap new = {}
  BY <1>2 DEF RowsOf
<1>9. IsFiniteSet(RowsOf(s, b)) /\ Cardinality(RowsOf(s, b)) \in Nat
  BY RowsFinite
<1> HIDE DEF new
<1>10. Cardinality(RowsOf(s, b) \cup new) = Cardinality(RowsOf(s, b)) + Cardinality(new) - Cardinality({})
  BY <1>7, <1>8, <1>9, FS_Union
<1>11. Cardinality(RowsOf(t, b)) = Cardinality(RowsOf(s, b)) + n
  BY <1>5, <1>7, <1>9, <1>10, FS_EmptySet
<1> QED
  BY <1>6, <1>11

\* A call that moves, of player b: the other players' balances, rooms and
\* claims stay as they are, and b is in together if he has another call.
LEMMA Player ==
  ASSUME CoverInv, StockInv',
         NEW c \in Calls, NEW b \in Customers, NEW r \in CallRecord,
         call' = [call EXCEPT ![c] = r],
         call[c].pc # "idle" \/ r.pc # "idle",
         call[c].pc # "idle" => call[c].buyer = b,
         r.pc # "idle" => r.buyer = b,
         UNCHANGED offer,
         together' = together \cup {x \in Customers : TwoCalls(x)}', reversed \subseteq reversed',
         \A x \in Customers \ {b} :
           bal'[x] = bal[x] /\ rooms'[x] = rooms[x] /\ Claims(x)' = Claims(x),
         Ordered(b)', Len(rooms'[b]) >= Len(rooms[b]),
         Wants(c)',
         b \notin together' => Solvent(b)',
         r.pc # "idle" /\ b \notin together' => Paced(c)'
  PROVE  CoverInv'
<1>0. /\ call \in [Calls -> CallRecord] /\ call' \in [Calls -> CallRecord]
      /\ call'[c] = r /\ \A d \in Calls \ {c} : call'[d] = call[d]
  BY DEF CoverInv, StockInv, PTypeOK
<1>1. together \subseteq together'
  OBVIOUS
<1>2. \A x \in Customers : TwoCalls(x)' => x \in together'
  OBVIOUS
<1>3. \A d \in Calls : Begun(d) /\ Begun(d)'
  BY DEF CoverInv, StockInv
<1>4. Noticed'
  <2> SUFFICES ASSUME NEW d \in Calls, NEW e \in Calls, d # e, call'[d].pc # "idle",
                      call'[e].pc # "idle", call'[d].buyer = call'[e].buyer
               PROVE  call'[d].buyer \in together'
    BY DEF Noticed
  <2>1. PICK x \in Customers : x = call'[d].buyer
    BY <1>3 DEF Begun
  <2>2. TwoCalls(x)'
    BY <2>1 DEF TwoCalls, Busy
  <2> QED
    BY <2>1, <2>2, <1>2
\* Another call of b: he is in together, before this step or by it.
<1>5. ASSUME NEW d \in Calls \ {c}, call[d].pc # "idle", call[d].buyer = b
      PROVE  b \in together'
  <2>1. CASE call[c].pc # "idle"
    BY <2>1, <1>5, <1>1 DEF CoverInv, Noticed
  <2>2. CASE r.pc # "idle"
    BY <2>2, <1>0, <1>4, <1>5 DEF Noticed
  <2> QED
    BY <2>1, <2>2
<1>6. ASSUME NEW x \in Customers PROVE Ordered(x)' /\ (x \notin together' => Solvent(x)')
  <2>1. CASE x = b
    BY <2>1
  <2>2. CASE x # b
    <3>1. bal'[x] = bal[x] /\ rooms'[x] = rooms[x] /\ Claims(x)' = Claims(x) /\ offer' = offer
      BY <2>2
    <3>2. Ordered(x)'
      BY <3>1 DEF CoverInv, Ordered
    <3>3. x \notin together' => Solvent(x)
      BY <1>1 DEF CoverInv
    <3> QED
      BY <3>1, <3>2, <3>3 DEF Solvent, Limited
  <2> QED
    BY <2>1, <2>2
<1>7. ASSUME NEW d \in Calls
      PROVE  Wants(d)' /\ (call'[d].pc # "idle" /\ call'[d].buyer \notin together' => Paced(d)')
  <2>1. CASE d = c
    BY <2>1, <1>0
  <2>2. CASE d # c
    <3>1. call'[d] = call[d] /\ call[d] \in CallRecord
      BY <2>2, <1>0
    <3>2. CASE call[d].pc = "idle"
      BY <3>1, <3>2 DEF Wants
    <3>3. CASE call[d].pc # "idle"
      <4>0. Wants(d) /\ (call[d].buyer \notin together => Paced(d))
        BY <3>3 DEF CoverInv
      <4>1. call[d].buyer \in Customers
        BY <3>3, <1>3 DEF Begun
      <4>2. CASE call[d].buyer = b
        <5>1. b \in together'
          BY <4>2, <2>2, <3>3, <1>5
        <5>2. Wants(d)'
          <6>1. Len(rooms[b]) \in Nat /\ Len(rooms'[b]) \in Nat
            BY DEF CoverInv, StockInv, PTypeOK
          <6>2. Len(rooms'[b]) >= Len(rooms[b]) /\ call[d].room \in Nat
            BY <3>1 DEF CallRecord
          <6> QED
            BY <6>1, <6>2, <4>0, <4>2, <3>1 DEF Wants
        <5> QED
          BY <5>1, <5>2, <4>2, <3>1
      <4>3. CASE call[d].buyer # b
        <5>1. PICK x \in Customers : x = call[d].buyer
          BY <4>1
        <5>2. /\ bal'[x] = bal[x] /\ rooms'[x] = rooms[x] /\ Claims(x)' = Claims(x) /\ offer' = offer
              /\ call'[d].buyer = x
          BY <5>1, <4>3, <3>1
        <5>3. Wants(d)'
          BY <5>1, <5>2, <4>0, <3>1 DEF Wants
        <5>4. call[d].buyer \notin together' => Paced(d)
          BY <4>0, <1>1
        <5>5. Cardinality({i \in DOMAIN receipts' : receipts'[i] = call'[d].buyer}) = Claims(x)
          BY <5>2 DEF Claims
        <5>6. call[d].buyer \notin together' => Paced(d)'
          BY <5>1, <5>2, <5>4, <5>5, <3>1 DEF Paced, Limited, Claims
        <5> QED
          BY <5>3, <5>6, <3>1
      <4> QED
        BY <4>2, <4>3
    <3> QED
      BY <3>2, <3>3
  <2> QED
    BY <2>1, <2>2
<1> QED
  BY <1>4, <1>6, <1>7 DEF CoverInv

\* What an action of a call in progress has to show, in one piece.
LEMMA PlayerMoves ==
  ASSUME CoverInv, StockInv',
         NEW c \in Calls, NEW r \in CallRecord, call[c].pc # "idle",
         call' = [call EXCEPT ![c] = r],
         r.pc # "idle" =>
           r.buyer = call[c].buyer /\ r.op = call[c].op /\ r.room = call[c].room,
         UNCHANGED <<bal, rooms, offer, receipts>>,
         together' = together \cup {x \in Customers : TwoCalls(x)}', reversed \subseteq reversed',
         r.pc # "idle" /\ call[c].buyer \notin together' => Paced(c)'
  PROVE  CoverInv'
<1>1. PICK b \in Customers : b = call[c].buyer
  BY DEF CoverInv, StockInv, Begun
<1>2. call'[c] = r
  BY DEF CoverInv, StockInv, PTypeOK
<1>3. \A x \in Customers : Claims(x)' = Claims(x)
  BY DEF Claims
<1>4. Wants(c)' /\ Ordered(b)'
  BY <1>1, <1>2 DEF CoverInv, Wants, Ordered
<1>5. b \notin together' => Solvent(b)'
  BY <1>3 DEF CoverInv, Solvent, Limited
<1>6. Len(rooms'[b]) >= Len(rooms[b])
  <2>1. Len(rooms[b]) \in Nat
    BY DEF CoverInv, StockInv, PTypeOK
  <2> QED
    BY <2>1
<1> QED
  BY <1>1, <1>2, <1>3, <1>4, <1>5, <1>6, Player

LEMMA BuyCover ==
  ASSUME CoverInv, StockInv', NEW c \in Calls, Buy(c),
         together' = together \cup {x \in Customers : TwoCalls(x)}', reversed' = reversed \cup Reversals
  PROVE  CoverInv'
<1>0. /\ StockInv /\ call \in [Calls -> CallRecord] /\ call[c] \in CallRecord
      /\ bal \in [Customers -> [Currencies -> Int]]
      /\ rooms \in [Customers -> Seq(Nat)] /\ receipts \in Seq(Customers)
  BY DEF CoverInv, StockInv, PTypeOK
<1>i. IdleCall \in CallRecord /\ IdleCall.pc = "idle"
  BY IdleRecord DEF IdleCall
<1>t. together \subseteq together' /\ reversed \subseteq reversed'
  OBVIOUS
<1>1. CASE \E b \in Customers : BeginShop(c, b) \/ BeginSwap(c, b) \/ BeginRoom(c, b) \/ BeginOffer(c, b)
  <2>1. PICK b \in Customers : BeginShop(c, b) \/ BeginSwap(c, b) \/ BeginRoom(c, b) \/ BeginOffer(c, b)
    BY <1>1
  <2>2. PICK r \in CallRecord :
          /\ call' = [call EXCEPT ![c] = r]
          /\ r.pc \in {"balance", "claims"} /\ r.qty >= 1 /\ r.buyer = b
          /\ Intends(r, b)
          /\ UNCHANGED <<bal, rooms, offer, soldCount, receipts, edits, largest>>
    BY <2>1, Beginning DEF CoverInv, StockInv
  <2>3. call[c].pc = "idle" /\ call'[c] = r
    BY <2>1, <2>2, <1>0 DEF BeginShop, BeginSwap, BeginRoom, BeginOffer, Begin
  <2>4. \A x \in Customers : Claims(x)' = Claims(x)
    BY <2>2 DEF Claims
  <2>5. Len(rooms[b]) \in Nat
    BY <1>0
  <2>6. Wants(c)' /\ Ordered(b)' /\ Len(rooms'[b]) >= Len(rooms[b])
    BY <2>2, <2>3, <2>5 DEF CoverInv, Wants, Ordered, Intends
  <2>7. b \notin together' => Solvent(b)'
    BY <2>2, <2>4, <1>t DEF CoverInv, Solvent, Limited
  <2>8. Paced(c)'
    BY <2>2, <2>3 DEF Paced, Intends, Limited
  <2> QED
    BY <2>2, <2>3, <2>4, <2>5, <2>6, <2>7, <2>8, Player
<1>2. CASE CountClaims(c)
  <2> DEFINE r == [call[c] EXCEPT !.pc = "stock"]
  <2>1. /\ r \in CallRecord /\ r.pc = "stock" /\ r.qty = call[c].qty /\ r.cost = call[c].cost
        /\ r.buyer = call[c].buyer /\ r.op = call[c].op /\ r.room = call[c].room
        /\ r.currency = call[c].currency
    BY <1>0 DEF CallRecord, Pcs
  <2>2. /\ call' = [call EXCEPT ![c] = r] /\ call[c].pc = "claims" /\ WithinLimit(c)
        /\ UNCHANGED <<bal, rooms, offer, receipts>>
    BY <1>2, <1>0 DEF CountClaims, To
  <2> HIDE DEF r
  <2>3. call'[c] = r
    BY <2>2, <1>0
  <2>4. call[c].buyer \notin together' => Paced(c)'
    <3>1. SUFFICES ASSUME call[c].buyer \notin together' PROVE Paced(c)'
      OBVIOUS
    <3>2. call[c].cost = 0 /\ call[c].currency \in Currencies /\ call[c].buyer \in Customers
      BY <3>1, <2>2, <1>t, <1>0 DEF CoverInv, Paced, StockInv, Begun, CallRecord
    <3>3. \/ <<call[c].buyer, call[c].currency>> \in reversed'
          \/ bal[call[c].buyer][call[c].currency] >= call[c].cost
      BY <3>1, <3>2, <1>t DEF CoverInv, Solvent
    <3>4. OfferLimit > 0 => Claims(call[c].buyer) + call[c].qty <= OfferLimit
      BY <2>2 DEF WithinLimit
    <3> QED
      BY <2>1, <2>2, <2>3, <3>3, <3>4 DEF Paced, Limited, Claims
  <2> QED
    BY <2>1, <2>2, <2>4, PlayerMoves
<1>3. CASE ReadBalance(c)
  <2> DEFINE r == [call[c] EXCEPT !.pc = IF call[c].op = "offer" THEN "stock" ELSE "commit"]
  <2>1. /\ r \in CallRecord /\ r.pc = (IF call[c].op = "offer" THEN "stock" ELSE "commit")
        /\ r.qty = call[c].qty /\ r.cost = call[c].cost
        /\ r.buyer = call[c].buyer /\ r.op = call[c].op /\ r.room = call[c].room
        /\ r.currency = call[c].currency
    BY <1>0 DEF CallRecord, Pcs
  <2>2. /\ call' = [call EXCEPT ![c] = r] /\ call[c].pc = "balance" /\ CoversAll(c)
        /\ UNCHANGED <<bal, rooms, offer, receipts>>
    BY <1>3, <1>0 DEF ReadBalance, To
  <2> HIDE DEF r
  <2>3. call'[c] = r
    BY <2>2, <1>0
  <2>4. call[c].buyer \notin together' => Paced(c)'
    <3>1. SUFFICES ASSUME call[c].buyer \notin together' PROVE Paced(c)'
      OBVIOUS
    <3>2. Paced(c)
      BY <3>1, <2>2, <1>t DEF CoverInv
    <3> QED
      BY <3>2, <2>1, <2>2, <2>3, <1>t DEF Paced, Limited, CoversAll
  <2> QED
    BY <2>1, <2>2, <2>4, PlayerMoves
<1>4. CASE ReadSold(c)
  <2> DEFINE r == [call[c] EXCEPT !.pc = "sell", !.seen = soldCount]
  <2>0. soldCount \in Nat
    BY <1>0 DEF StockInv, PTypeOK
  <2>1. /\ r \in CallRecord /\ r.pc = "sell" /\ r.qty = call[c].qty /\ r.cost = call[c].cost
        /\ r.buyer = call[c].buyer /\ r.op = call[c].op /\ r.room = call[c].room
        /\ r.currency = call[c].currency
    BY <1>0, <2>0 DEF CallRecord, Pcs
  <2>2. /\ call' = [call EXCEPT ![c] = r] /\ call[c].pc = "stock"
        /\ UNCHANGED <<bal, rooms, offer, receipts>>
    BY <1>4, <1>0 DEF ReadSold
  <2> HIDE DEF r
  <2>3. call'[c] = r
    BY <2>2, <1>0
  <2>4. call[c].buyer \notin together' => Paced(c)'
    <3>1. SUFFICES ASSUME call[c].buyer \notin together' PROVE Paced(c)'
      OBVIOUS
    <3>2. Paced(c)
      BY <3>1, <2>2, <1>t DEF CoverInv
    <3> QED
      BY <3>2, <2>1, <2>2, <2>3, <1>t DEF Paced, Limited, Claims
  <2> QED
    BY <2>1, <2>2, <2>4, PlayerMoves
<1>5. CASE Retry(c)
  <2> DEFINE r == [call[c] EXCEPT !.pc = "stock", !.tries = @ + 1]
  <2>0. call[c].tries + 1 \in Nat
    BY <1>0 DEF CallRecord
  <2>1. /\ r \in CallRecord /\ r.pc = "stock" /\ r.qty = call[c].qty /\ r.cost = call[c].cost
        /\ r.buyer = call[c].buyer /\ r.op = call[c].op /\ r.room = call[c].room
        /\ r.currency = call[c].currency
    BY <1>0, <2>0 DEF CallRecord, Pcs
  <2>2. /\ call' = [call EXCEPT ![c] = r] /\ call[c].pc = "sell"
        /\ UNCHANGED <<bal, rooms, offer, receipts>>
    BY <1>5, <1>0 DEF Retry
  <2> HIDE DEF r
  <2>3. call'[c] = r
    BY <2>2, <1>0
  <2>4. call[c].buyer \notin together' => Paced(c)'
    <3>1. SUFFICES ASSUME call[c].buyer \notin together' PROVE Paced(c)'
      OBVIOUS
    <3>2. Paced(c)
      BY <3>1, <2>2, <1>t DEF CoverInv
    <3> QED
      BY <3>2, <2>1, <2>2, <2>3, <1>t DEF Paced, Limited, Claims
  <2> QED
    BY <2>1, <2>2, <2>4, PlayerMoves
<1>6. CASE Reject(c)
  <2>1. call' = [call EXCEPT ![c] = IdleCall] /\ call[c].pc # "idle"
        /\ UNCHANGED <<bal, rooms, offer, receipts>>
    BY <1>6 DEF Reject, Finish
  <2> QED
    BY <2>1, <1>i, PlayerMoves
<1>7. CASE SellOffer(c)
  <2>0. PICK b \in Customers, n \in Nat, k \in Currencies, p \in Int :
          b = call[c].buyer /\ n = call[c].qty /\ k = call[c].currency /\ p = call[c].cost
    BY <1>7, <1>0 DEF SellOffer, StockInv, Begun, CallRecord
  <2>1. /\ call[c].pc = "sell" /\ receipts' = receipts \o [i \in 1 .. n |-> b]
        /\ bal' = [bal EXCEPT ![b][k] = @ - p] /\ call' = [call EXCEPT ![c] = IdleCall]
        /\ UNCHANGED <<rooms, offer>>
    BY <1>7, <2>0 DEF SellOffer, Finish, Debit
  <2>2. Claims(b)' = Claims(b) + n /\ \A x \in Customers \ {b} : Claims(x)' = Claims(x)
    <3>0. receipts \in Seq(Customers) /\ n \in Nat /\ b \in Customers
      BY <1>0, <2>0
    <3> DEFINE t == receipts \o [i \in 1 .. n |-> b]
    <3>a. /\ t \in Seq(Customers) /\ Len(t) = Len(receipts) + n
          /\ \A i \in 1 .. Len(receipts) : t[i] = receipts[i]
          /\ \A i \in Len(receipts) + 1 .. Len(receipts) + n : t[i] = b
      <4> DEFINE u == [i \in 1 .. n |-> b]
      <4>1. u \in [1 .. n -> Customers]
        BY <3>0
      <4>2. u \in Seq(Customers) /\ Len(u) = n
        BY <3>0, <4>1
      <4> QED
        BY <3>0, <4>2
    <3>b. receipts' = t
      BY <2>1
    <3> HIDE DEF t
    <3>1. /\ Cardinality(RowsOf(receipts', b)) = Cardinality(RowsOf(receipts, b)) + n
          /\ \A x \in Customers \ {b} : RowsOf(receipts', x) = RowsOf(receipts, x)
      BY <3>0, <3>a, <3>b, RowsAdded
    <3> QED
      BY <3>1 DEF Claims, RowsOf
  <2>3. /\ bal'[b][k] = bal[b][k] - p /\ \A j \in Currencies \ {k} : bal'[b][j] = bal[b][j]
        /\ \A x \in Customers \ {b} : bal'[x] = bal[x]
    BY <2>1, <1>0
  <2>4. b \notin together' => Solvent(b)'
    <3>1. SUFFICES ASSUME b \notin together' PROVE Solvent(b)'
      OBVIOUS
    <3>2. Solvent(b) /\ Paced(c)
      BY <3>1, <2>0, <2>1, <1>t DEF CoverInv
    <3>3. (<<b, k>> \in reversed \/ bal[b][k] >= p) /\ bal[b][k] \in Int
      BY <3>2, <2>0, <2>1, <1>0 DEF Paced
    <3>4. \A j \in Currencies : <<b, j>> \in reversed' \/ bal'[b][j] >= 0
      BY <3>2, <3>3, <2>0, <2>3, <1>t DEF Solvent
    <3>5. Limited => Claims(b) + n <= OfferLimit
      BY <3>2, <2>0, <2>1 DEF Paced
    <3> QED
      BY <3>4, <3>5, <2>1, <2>2 DEF Solvent, Limited
  <2>5. Ordered(b)' /\ Len(rooms'[b]) >= Len(rooms[b])
    <3>1. Len(rooms[b]) \in Nat /\ rooms' = rooms
      BY <2>1, <1>0
    <3> QED
      BY <3>1 DEF CoverInv, Ordered
  <2>6. Wants(c)' /\ call'[c].pc = "idle"
    BY <2>1, <1>0, <1>i DEF Wants
  <2> QED
    BY <2>0, <2>1, <2>2, <2>3, <2>4, <2>5, <2>6, <1>i, Player
<1>8. CASE CommitShop(c)
  <2>0. PICK b \in Customers, k \in Currencies, p \in Int :
          b = call[c].buyer /\ k = call[c].currency /\ p = call[c].cost
    BY <1>8, <1>0 DEF CommitShop, StockInv, Begun, CallRecord
  <2>1. /\ call[c].pc = "commit"
        /\ bal' = [bal EXCEPT ![b][k] = @ - p] /\ call' = [call EXCEPT ![c] = IdleCall]
        /\ UNCHANGED <<rooms, offer, receipts>>
    BY <1>8, <2>0 DEF CommitShop, Finish, Debit
  <2>2. \A x \in Customers : Claims(x)' = Claims(x)
    BY <2>1 DEF Claims
  <2>3. /\ bal'[b][k] = bal[b][k] - p /\ \A j \in Currencies \ {k} : bal'[b][j] = bal[b][j]
        /\ \A x \in Customers \ {b} : bal'[x] = bal[x]
    BY <2>1, <1>0
  <2>4. b \notin together' => Solvent(b)'
    <3>1. SUFFICES ASSUME b \notin together' PROVE Solvent(b)'
      OBVIOUS
    <3>2. Solvent(b) /\ Paced(c)
      BY <3>1, <2>0, <2>1, <1>t DEF CoverInv
    <3>3. (<<b, k>> \in reversed \/ bal[b][k] >= p) /\ bal[b][k] \in Int
      BY <3>2, <2>0, <2>1, <1>0 DEF Paced
    <3>4. \A j \in Currencies : <<b, j>> \in reversed' \/ bal'[b][j] >= 0
      BY <3>2, <3>3, <2>0, <2>3, <1>t DEF Solvent
    <3> QED
      BY <3>2, <3>4, <2>1, <2>2 DEF Solvent, Limited
  <2>5. Ordered(b)' /\ Len(rooms'[b]) >= Len(rooms[b])
    <3>1. Len(rooms[b]) \in Nat /\ rooms' = rooms
      BY <2>1, <1>0
    <3> QED
      BY <3>1 DEF CoverInv, Ordered
  <2>6. Wants(c)' /\ call'[c].pc = "idle"
    BY <2>1, <1>0, <1>i DEF Wants
  <2> QED
    BY <2>0, <2>1, <2>2, <2>3, <2>4, <2>5, <2>6, <1>i, Player
<1>9. CASE CommitSwap(c)
  <2>0. PICK b \in Customers, k \in Currencies, p \in Int :
          b = call[c].buyer /\ k = call[c].currency /\ p = call[c].cost
    BY <1>9, <1>0 DEF CommitSwap, StockInv, Begun, CallRecord
  <2>1. /\ call[c].pc = "commit" /\ call' = [call EXCEPT ![c] = IdleCall]
        /\ UNCHANGED <<rooms, offer, receipts>>
    BY <1>9 DEF CommitSwap, Finish
  <2>2. \A x \in Customers : Claims(x)' = Claims(x)
    BY <2>1 DEF Claims
  <2>3. PICK other \in Currencies \ {k} :
          bal' = [[bal EXCEPT ![b][k] = @ - p] EXCEPT ![b][other] = @ + p]
    BY <1>9, <2>0 DEF CommitSwap, Debit
  <2>4. /\ bal'[b][k] = bal[b][k] - p /\ bal'[b][other] = bal[b][other] + p
        /\ \A j \in Currencies \ {k, other} : bal'[b][j] = bal[b][j]
        /\ \A x \in Customers \ {b} : bal'[x] = bal[x]
    BY <2>3, <1>0
  <2>8. call[c].op = "swap"
    BY <1>9 DEF CommitSwap
  <2>5. b \notin together' => Solvent(b)'
    <3>1. SUFFICES ASSUME b \notin together' PROVE Solvent(b)'
      OBVIOUS
    <3>2. Solvent(b) /\ Paced(c)
      BY <3>1, <2>0, <2>1, <1>t DEF CoverInv
    <3>3. /\ <<b, k>> \in reversed \/ bal[b][k] >= p
          /\ bal[b][k] \in Int /\ bal[b][other] \in Int
      BY <3>2, <2>0, <2>1, <1>0 DEF Paced
    <3>a. p < 0 => <<b, other>> \in reversed'
      <4>1. <<b, other>>[1] = b /\ <<b, other>>[2] = other /\ <<b, other>> \in Customers \X Currencies
        OBVIOUS
      <4> QED
        BY <4>1, <2>0, <2>1, <2>8 DEF Reversals, Busy
    <3>4. /\ <<b, k>> \in reversed' \/ bal'[b][k] >= 0
          /\ <<b, other>> \in reversed' \/ bal'[b][other] >= 0
      BY <3>2, <3>3, <3>a, <2>0, <2>4, <1>t DEF Solvent
    <3>5. \A j \in Currencies : <<b, j>> \in reversed' \/ bal'[b][j] >= 0
      BY <3>2, <3>4, <2>4, <1>t DEF Solvent
    <3> QED
      BY <3>2, <3>5, <2>1, <2>2 DEF Solvent, Limited
  <2>6. Ordered(b)' /\ Len(rooms'[b]) >= Len(rooms[b])
    <3>1. Len(rooms[b]) \in Nat /\ rooms' = rooms
      BY <2>1, <1>0
    <3> QED
      BY <3>1 DEF CoverInv, Ordered
  <2>7. Wants(c)' /\ call'[c].pc = "idle"
    BY <2>1, <1>0, <1>i DEF Wants
  <2> QED
    BY <2>0, <2>1, <2>2, <2>4, <2>5, <2>6, <2>7, <1>i, Player
<1>10. CASE CommitRoom(c)
  <2>0. PICK b \in Customers, k \in Currencies, p \in Int, room \in Nat :
          b = call[c].buyer /\ k = call[c].currency /\ p = call[c].cost /\ room = call[c].room
    BY <1>10, <1>0 DEF CommitRoom, StockInv, Begun, CallRecord
  <2>1. /\ call[c].pc = "commit" /\ call[c].op = "room" /\ RoomIsNew(c)
        /\ bal' = [bal EXCEPT ![b][k] = @ - p] /\ call' = [call EXCEPT ![c] = IdleCall]
        /\ rooms' = [rooms EXCEPT ![b] = Append(@, room)]
        /\ UNCHANGED <<offer, receipts>>
    BY <1>10, <2>0 DEF CommitRoom, Finish, Debit
  <2>2. \A x \in Customers : Claims(x)' = Claims(x)
    BY <2>1 DEF Claims
  <2>3. /\ bal'[b][k] = bal[b][k] - p /\ \A j \in Currencies \ {k} : bal'[b][j] = bal[b][j]
        /\ \A x \in Customers \ {b} : bal'[x] = bal[x] /\ rooms'[x] = rooms[x]
        /\ rooms'[b] = Append(rooms[b], room)
    BY <2>1, <1>0
  <2>4. b \notin together' => Solvent(b)'
    <3>1. SUFFICES ASSUME b \notin together' PROVE Solvent(b)'
      OBVIOUS
    <3>2. Solvent(b) /\ Paced(c)
      BY <3>1, <2>0, <2>1, <1>t DEF CoverInv
    <3>3. (<<b, k>> \in reversed \/ bal[b][k] >= p) /\ bal[b][k] \in Int
      BY <3>2, <2>0, <2>1, <1>0 DEF Paced
    <3>4. \A j \in Currencies : <<b, j>> \in reversed' \/ bal'[b][j] >= 0
      BY <3>2, <3>3, <2>0, <2>3, <1>t DEF Solvent
    <3> QED
      BY <3>2, <3>4, <2>1, <2>2 DEF Solvent, Limited
\* The room is not there yet and not beyond the next one.
  <2>5. Ordered(b)' /\ Len(rooms'[b]) >= Len(rooms[b])
    <3>1. /\ rooms[b] \in Seq(Nat) /\ Len(rooms[b]) \in Nat
          /\ \A i \in 1 .. Len(rooms[b]) : rooms[b][i] = i /\ rooms[b][i] # room
      BY <2>0, <2>1, <1>0 DEF CoverInv, Ordered, RoomIsNew
    <3>2. room \in 1 .. Len(rooms[b]) + 1
      BY <2>0, <2>1 DEF CoverInv, Wants
    <3>3. room = Len(rooms[b]) + 1
      BY <3>1, <3>2
    <3>4. /\ Len(rooms'[b]) = Len(rooms[b]) + 1 /\ DOMAIN rooms'[b] = 1 .. Len(rooms[b]) + 1
          /\ \A i \in 1 .. Len(rooms[b]) : rooms'[b][i] = rooms[b][i]
          /\ rooms'[b][Len(rooms[b]) + 1] = room
      BY <2>3, <3>1
    <3>5. \A i \in DOMAIN rooms'[b] : rooms'[b][i] = i
      BY <3>1, <3>3, <3>4
    <3> QED
      BY <3>1, <3>4, <3>5 DEF Ordered
  <2>6. Wants(c)' /\ call'[c].pc = "idle"
    BY <2>1, <1>0, <1>i DEF Wants
  <2> QED
    BY <2>0, <2>1, <2>2, <2>3, <2>4, <2>5, <2>6, <1>i, Player
<1> QED
  BY <1>1, <1>2, <1>3, <1>4, <1>5, <1>6, <1>7, <1>8, <1>9, <1>10 DEF Buy

\* The administrator changes the stock, never whether the machine is free.
LEMMA OfferCover ==
  ASSUME CoverInv, StockInv',
         offer'.free = offer.free, UNCHANGED <<bal, rooms, receipts, call>>,
         together' = together \cup {x \in Customers : TwoCalls(x)}', reversed \subseteq reversed'
  PROVE  CoverInv'
<1>1. together \subseteq together'
  OBVIOUS
<1>2. Noticed'
  BY <1>1 DEF CoverInv, Noticed
<1>3. \A b \in Customers : Ordered(b)' /\ (b \notin together' => Solvent(b)')
  BY <1>1 DEF CoverInv, Ordered, Solvent, Limited, Claims
<1>4. \A c \in Calls :
        Wants(c)' /\ (call'[c].pc # "idle" /\ call'[c].buyer \notin together' => Paced(c)')
  BY <1>1 DEF CoverInv, Wants, Paced, Limited, Claims
<1> QED
  BY <1>2, <1>3, <1>4 DEF CoverInv

LEMMA InitCover == PInit => CoverInv
<1> SUFFICES ASSUME PInit PROVE CoverInv
  OBVIOUS
<1>1. StockInv
  BY InitStock
<1>2. \A c \in Calls : call[c].pc = "idle"
  BY DEF PInit, IdleCall
<1>3. \A b \in Customers : Claims(b) = 0
  <2>1. \A b \in Customers : {i \in DOMAIN receipts : receipts[i] = b} = {}
    BY DEF PInit
  <2> QED
    BY <2>1, FS_EmptySet DEF Claims
<1>4. \A b \in Customers : Ordered(b)
  BY DEF PInit, Ordered
<1>5. \A b \in Customers : Solvent(b)
  BY <1>3, PriceAssumption, LimitAssumption DEF PInit, Solvent
<1> QED
  BY <1>1, <1>2, <1>4, <1>5 DEF CoverInv, Noticed, Wants

LEMMA NextCover ==
  ASSUME CoverInv, [PNext]_pVars
  PROVE  CoverInv'
<1>0. StockInv'
  BY StockStep DEF CoverInv
<1>1. CASE PNext
  <2>0. together' = together \cup {x \in Customers : TwoCalls(x)}' /\ reversed' = reversed \cup Reversals
    BY <1>1 DEF PNext
  <2>1. CASE \E c \in Calls : Buy(c)
    BY <2>0, <2>1, <1>0, BuyCover
  <2>2. CASE EditOffer
    <3>1. UNCHANGED <<bal, rooms, receipts, call>>
      BY <2>2 DEF EditOffer
    <3>2. offer \in [stock : StockLevels, free : BOOLEAN, live : BOOLEAN]
      BY DEF CoverInv, StockInv, PTypeOK
    <3>3. offer'.free = offer.free
      BY <2>2, <3>2 DEF EditOffer
    <3> QED
      BY <2>0, <3>1, <3>3, <1>0, OfferCover
  <2>3. CASE EndOffer
    <3>1. UNCHANGED <<bal, rooms, receipts, call>>
      BY <2>3 DEF EndOffer
    <3>2. offer \in [stock : StockLevels, free : BOOLEAN, live : BOOLEAN]
      BY DEF CoverInv, StockInv, PTypeOK
    <3>3. offer'.free = offer.free
      BY <2>3, <3>2 DEF EndOffer
    <3> QED
      BY <2>0, <3>1, <3>3, <1>0, OfferCover
  <2> QED
    BY <1>1, <2>1, <2>2, <2>3 DEF PNext, PStep
<1>2. CASE UNCHANGED pVars
  <2>1. UNCHANGED <<bal, rooms, offer, receipts, call, together, reversed>>
    BY <1>2 DEF pVars
  <2> QED
    BY <2>1, <1>0 DEF CoverInv, Noticed, Wants, Ordered, Limited, Solvent, Paced, Claims
<1> QED
  BY <1>1, <1>2

\* A player with one purchase at a time never owes in a currency that no swap
\* of a negative amount was taken from, whatever was swapped, and stays within
\* the limit of a free offer; rooms are unlocked once and in their order.
THEOREM Covered == PSpec => []PurchasesCovered
<1>1. PInit => CoverInv
  BY InitCover
<1>2. CoverInv /\ [PNext]_pVars => CoverInv'
  BY NextCover
<1>3. CoverInv => PurchasesCovered
  BY DEF CoverInv, Ordered, Solvent, Limited, PurchasesCovered
<1> QED
  BY <1>1, <1>2, <1>3, PTL DEF PSpec

(***************************************************************************)
(* Auto Mining: what a claim has tested still holds                        *)
(*                                                                         *)
(* Every claim moves its session on (Skew < Cycle), so a claim that finds  *)
(* the session as it read it is the first since; and a grant is kept for   *)
(* as long as its day and its banner count.                                *)
(***************************************************************************)

SessionRecord == [mode : Modes, due : Nat, active : BOOLEAN]
BannerRecord == [session : Nat, shown : Nat, clicked : BOOLEAN, grant : Nat, kept : BOOLEAN]
GrantRecord == [at : Nat, hash : Nat, banner : Nat]
TapRecord ==
  [pc : {"idle", "start", "create", "banner", "show", "look", "claim"}, now : Nat, mode : Modes,
   session : Nat, due : Nat, banner : Nat, ending : SUBSET Nat]

ATypeOK ==
  /\ clock \in Nat
  /\ sessions \in Seq(SessionRecord) /\ banners \in Seq(BannerRecord)
  /\ granted \in Seq(GrantRecord) /\ kept \subseteq DOMAIN granted
  /\ tap \in [Taps -> TapRecord] /\ crossed \in BOOLEAN

\* A request is never older than one unit; a grant that is gone is a day old.
Timed ==
  /\ \A t \in Taps : tap[t].pc # "idle" => tap[t].now <= clock /\ clock <= tap[t].now + 1
  /\ \A i \in DOMAIN granted : granted[i].at <= clock
  /\ \A b \in DOMAIN banners : banners[b].shown <= clock
  /\ \A i \in DOMAIN granted \ kept : granted[i].at + DayLength < clock

\* The banner and the session a request has read.
Holds(t) ==
  /\ tap[t].pc \in {"look", "claim"} =>
       IF tap[t].mode = "NORMAL" THEN tap[t].banner = NoBanner
       ELSE /\ tap[t].banner \in DOMAIN banners
            /\ banners[tap[t].banner].shown <= tap[t].now
  /\ tap[t].pc = "claim" =>
       /\ tap[t].session \in DOMAIN sessions
       /\ tap[t].due <= tap[t].now + Skew
       /\ tap[t].due <= sessions[tap[t].session].due
       /\ tap[t].mode = "TURBO" => banners[tap[t].banner].session = tap[t].session

\* A banner that was paid for points to its grant, or its click is too old.
PaidBanner(i) ==
  granted[i].banner # NoBanner =>
    /\ granted[i].banner \in DOMAIN banners
    /\ banners[granted[i].banner].shown <= granted[i].at
    /\ banners[granted[i].banner].grant = i \/ granted[i].at + DayLength < clock

Paying(t) == tap[t].pc = "claim" /\ SessionUnmoved(t)

BannersOnce ==
  /\ \A i \in DOMAIN granted : PaidBanner(i)
  /\ \A t \in Taps : Paying(t) /\ tap[t].mode = "TURBO" =>
       \A i \in DOMAIN granted : granted[i].banner # tap[t].banner
  /\ \A i, j \in DOMAIN granted :
       i # j => granted[i].banner = NoBanner \/ granted[i].banner # granted[j].banner

\* The hash power of the grants in g on day d.
HashOn(g, d) ==
  Total([i \in DOMAIN g |-> g[i].hash], {i \in DOMAIN g : Day(g[i].at) = d})

\* No start beside another call.
Orderly ==
  /\ \A t \in Starting : \A u \in Calling : t = u
  /\ \A s, r \in Active : s = r
  /\ \A t \in Starting :
       /\ tap[t].pc = "create" => Active \subseteq tap[t].ending
       /\ \A i \in DOMAIN granted : granted[i].at <= tap[t].now
  /\ \A s \in Active : \A i \in DOMAIN granted : sessions[s].due >= granted[i].at + Cycle
  /\ \A i, j \in DOMAIN granted : i < j => granted[j].at >= granted[i].at + Cycle - Skew

Frugal ==
  /\ \A i \in DOMAIN granted : HashOn(granted, Day(granted[i].at)) <= DailyLimit
  /\ \A t \in Taps : Paying(t) =>
       HashOn(granted, Day(tap[t].now)) + HashPerCycle[tap[t].mode] <= DailyLimit

GrantInv ==
  /\ ATypeOK /\ Timed /\ \A t \in Taps : Holds(t)
  /\ BannersOnce
  /\ ~crossed => Orderly /\ Frugal

(***************************************************************************)
(* Lemmas                                                                  *)
(***************************************************************************)

LEMMA SameDay ==
  ASSUME NEW a \in Nat, NEW b \in Nat, Day(a) = Day(b)
  PROVE  b < a + DayLength
<1>1. DayLength \in Nat \ {0}
  BY CycleAssumption, BannerAssumption
<1>2. \A n \in Nat \ {0} : a \div n = b \div n => b < a + n
  OBVIOUS
<1> QED
  BY <1>1, <1>2 DEF Day

LEMMA HashOnType ==
  ASSUME NEW g \in Seq(GrantRecord), NEW d
  PROVE  HashOn(g, d) \in Int
<1> DEFINE f == [i \in DOMAIN g |-> g[i].hash]
           S == {i \in DOMAIN g : Day(g[i].at) = d}
<1>1. IsFiniteSet(1 .. Len(g)) /\ DOMAIN g = 1 .. Len(g)
  BY FS_Interval
<1>2. S \subseteq DOMAIN g
  OBVIOUS
<1>3. IsFiniteSet(S)
  BY <1>1, <1>2, FS_Subset
<1>4. \A i \in S : f[i] \in Int
  <2> SUFFICES ASSUME NEW i \in DOMAIN g PROVE g[i].hash \in Nat
    OBVIOUS
  <2>1. g[i] \in GrantRecord
    OBVIOUS
  <2> QED
    BY <2>1 DEF GrantRecord
<1> HIDE DEF f, S
<1>5. Total(f, S) \in Int
  BY <1>3, <1>4, TotalType
<1> QED
  BY <1>5 DEF f, S, HashOn

\* A new grant counts for its day and for no other.
LEMMA HashAppend ==
  ASSUME NEW g \in Seq(GrantRecord), NEW r \in GrantRecord, NEW d
  PROVE  HashOn(Append(g, r), d) = HashOn(g, d) + (IF Day(r.at) = d THEN r.hash ELSE 0)
<1> DEFINE n == Len(g) + 1
           h == Append(g, r)
           f == [i \in DOMAIN g |-> g[i].hash]
           e == [i \in DOMAIN h |-> h[i].hash]
           S == {i \in DOMAIN g : Day(g[i].at) = d}
           T == {i \in DOMAIN h : Day(h[i].at) = d}
<1>1. IsFiniteSet(1 .. Len(g)) /\ DOMAIN g = 1 .. Len(g) /\ Len(g) \in Nat
  BY FS_Interval
<1>2. S \subseteq DOMAIN g
  OBVIOUS
<1>3. IsFiniteSet(S)
  BY <1>1, <1>2, FS_Subset
<1>4. /\ DOMAIN h = DOMAIN g \cup {n} /\ n \notin DOMAIN g
      /\ h[n] = r /\ \A i \in DOMAIN g : h[i] = g[i]
  BY <1>1
<1>5. \A i \in DOMAIN g : g[i].hash \in Nat
  <2> SUFFICES ASSUME NEW i \in DOMAIN g PROVE g[i].hash \in Nat
    OBVIOUS
  <2>1. g[i] \in GrantRecord
    OBVIOUS
  <2> QED
    BY <2>1 DEF GrantRecord
<1>6. r.hash \in Nat
  BY DEF GrantRecord
<1> HIDE DEF h, n
<1>7. \A i \in S : f[i] \in Int /\ f[i] = e[i]
  BY <1>4, <1>5
<1>8. e[n] = r.hash
  BY <1>4
<1>9. T = IF Day(r.at) = d THEN S \cup {n} ELSE S
  BY <1>4
<1>10. n \notin S
  BY <1>4
<1> HIDE DEF f, e, S, T
<1>11. \A i \in S \cup {n} : e[i] \in Int
  BY <1>6, <1>7, <1>8
<1>12. Total(e, S) = Total(f, S)
  BY <1>3, <1>7, TotalSame
<1>13. Total(e, S \cup {n}) = Total(e, S) + e[n]
  BY <1>3, <1>10, <1>11, TotalAdd
<1>14. Total(f, S) \in Int
  BY <1>3, <1>7, TotalType
<1>15. Total(e, T) = Total(f, S) + (IF Day(r.at) = d THEN r.hash ELSE 0)
  BY <1>8, <1>9, <1>12, <1>13, <1>14
<1>16. HashOn(g, d) = Total(f, S)
  BY DEF f, S, HashOn
<1>17. HashOn(h, d) = Total(e, T)
  BY DEF e, T, HashOn
<1> QED
  BY <1>15, <1>16, <1>17 DEF h

\* What the daily limit is tested against is what was granted that day: the
\* grants that were cleaned up are older.
LEMMA UsedIsAll ==
  ASSUME ATypeOK, Timed, NEW now \in Nat, clock <= now + 1
  PROVE  UsedToday(now) = HashOn(granted, Day(now))
<1>1. ASSUME NEW i \in DOMAIN granted, Day(granted[i].at) = Day(now) PROVE i \in kept
  <2>1. granted[i] \in GrantRecord
    BY DEF ATypeOK
  <2>2. granted[i].at \in Nat /\ clock \in Nat /\ DayLength \in Nat
    BY <2>1, CycleAssumption DEF ATypeOK, GrantRecord
  <2>3. now < granted[i].at + DayLength
    BY <1>1, <2>2, SameDay
  <2>4. ~(granted[i].at + DayLength < clock)
    BY <2>2, <2>3
  <2> QED
    BY <2>4 DEF Timed
<1>2. {i \in kept : Day(granted[i].at) = Day(now)} = {i \in DOMAIN granted : Day(granted[i].at) = Day(now)}
  BY <1>1 DEF ATypeOK
<1> QED
  BY <1>2 DEF UsedToday, DaySum, GrantedHash, HashOn

Noting == crossed' = (crossed \/ (\E t \in Starting : \E u \in Calling : t # u)')

LEMMA Uncrossed ==
  ASSUME Noting, ~crossed'
  PROVE  /\ ~crossed
         /\ \A t \in Starting' : \A u \in Calling' : t = u
BY DEF Noting

\* A request that moves on and changes nothing else.
LEMMA TapMoves ==
  ASSUME GrantInv, NEW t \in Taps, NEW r \in TapRecord, tap' = [tap EXCEPT ![t] = r], Noting,
         UNCHANGED <<clock, sessions, banners, granted, kept>>,
         r.pc # "idle" => r.now <= clock /\ clock <= r.now + 1,
         Holds(t)',
         r.pc = "claim" /\ r.mode = "TURBO" => \A i \in DOMAIN granted : granted[i].banner # r.banner,
         ~crossed' /\ r.pc \in {"start", "create"} =>
           \A i \in DOMAIN granted : granted[i].at <= r.now,
         ~crossed' /\ r.pc = "create" => Active \subseteq r.ending,
         ~crossed' /\ r.pc = "claim" =>
           HashOn(granted, Day(r.now)) + HashPerCycle[r.mode] <= DailyLimit
  PROVE  GrantInv'
<1>0. /\ tap \in [Taps -> TapRecord] /\ tap' \in [Taps -> TapRecord]
      /\ tap'[t] = r /\ \A u \in Taps \ {t} : tap'[u] = tap[u]
  BY DEF GrantInv, ATypeOK
<1>1. ATypeOK'
  BY <1>0 DEF GrantInv, ATypeOK, Noting
<1>2. Timed'
  BY <1>0 DEF GrantInv, Timed
<1>3. \A u \in Taps : Holds(u)'
  <2> SUFFICES ASSUME NEW u \in Taps, u # t PROVE Holds(u)'
    OBVIOUS
  <2> QED
    BY <1>0 DEF GrantInv, Holds
<1>4. \A u \in Taps \ {t} : Paying(u)' = Paying(u)
  BY <1>0 DEF Paying, SessionUnmoved
<1>5. BannersOnce'
  <2>1. \A i \in DOMAIN granted' : PaidBanner(i)'
    BY DEF GrantInv, BannersOnce, PaidBanner
  <2>2. ASSUME NEW u \in Taps, Paying(u)', tap'[u].mode = "TURBO", NEW i \in DOMAIN granted
        PROVE  granted[i].banner # tap'[u].banner
    <3>1. CASE u = t
      BY <3>1, <2>2, <1>0 DEF Paying
    <3>2. CASE u # t
      BY <3>2, <2>2, <1>0, <1>4 DEF GrantInv, BannersOnce
    <3> QED
      BY <3>1, <3>2
  <2>3. \A i, j \in DOMAIN granted' :
          i # j => granted'[i].banner = NoBanner \/ granted'[i].banner # granted'[j].banner
    BY DEF GrantInv, BannersOnce
  <2> QED
    BY <2>1, <2>2, <2>3 DEF BannersOnce
<1>6. ASSUME ~crossed' PROVE Orderly' /\ Frugal'
  <2>0. /\ Orderly /\ Frugal /\ Active' = Active
        /\ \A u \in Starting' : \A v \in Calling' : u = v
    BY <1>6, Uncrossed DEF GrantInv, Active
  <2>1. \A u \in Starting' :
          /\ tap'[u].pc = "create" => Active' \subseteq tap'[u].ending
          /\ \A i \in DOMAIN granted' : granted'[i].at <= tap'[u].now
    <3> SUFFICES ASSUME NEW u \in Taps, tap'[u].pc \in {"start", "create"}
                 PROVE  /\ tap'[u].pc = "create" => Active \subseteq tap'[u].ending
                        /\ \A i \in DOMAIN granted : granted[i].at <= tap'[u].now
      BY <2>0 DEF Starting
    <3>1. CASE u = t
      BY <3>1, <1>0, <1>6
    <3>2. CASE u # t
      BY <3>2, <1>0, <2>0 DEF Orderly, Starting
    <3> QED
      BY <3>1, <3>2
  <2>2. Orderly'
    BY <2>0, <2>1 DEF Orderly
  <2>3. ASSUME NEW u \in Taps, Paying(u)'
        PROVE  HashOn(granted, Day(tap'[u].now)) + HashPerCycle[tap'[u].mode] <= DailyLimit
    <3>1. CASE u = t
      BY <3>1, <2>3, <1>0, <1>6 DEF Paying
    <3>2. CASE u # t
      BY <3>2, <2>3, <2>0, <1>0, <1>4 DEF Frugal
    <3> QED
      BY <3>1, <3>2
  <2>4. Frugal'
    BY <2>0, <2>3 DEF Frugal
  <2> QED
    BY <2>2, <2>4
<1> QED
  BY <1>1, <1>2, <1>3, <1>5, <1>6 DEF GrantInv

LEMMA IdleTapRecord == IdleTap \in TapRecord /\ IdleTap.pc = "idle"
BY DEF IdleTap, TapRecord, Modes, NoBanner

LEMMA IdleHolds ==
  ASSUME NEW t \in Taps, tap[t].pc = "idle"
  PROVE  Holds(t)
BY DEF Holds

LEMMA Arriving ==
  ASSUME GrantInv, Noting, NEW t \in Taps, NEW pc \in {"start", "banner", "look"}, NEW mode \in Modes,
         NEW b \in Nat, Arrive(t, pc, mode, b),
         pc = "look" => IF mode = "NORMAL" THEN b = NoBanner ELSE b \in DOMAIN banners
  PROVE  GrantInv'
<1> DEFINE r == [IdleTap EXCEPT !.pc = pc, !.now = clock, !.mode = mode, !.banner = b]
<1>0. /\ clock \in Nat /\ tap \in [Taps -> TapRecord]
      /\ \A i \in DOMAIN granted : granted[i].at <= clock
      /\ \A i \in DOMAIN banners : banners[i].shown <= clock
  BY DEF GrantInv, ATypeOK, Timed
<1>1. r \in TapRecord /\ r.pc = pc /\ r.now = clock /\ r.mode = mode /\ r.banner = b
  BY <1>0 DEF IdleTap, TapRecord
<1>2. tap' = [tap EXCEPT ![t] = r] /\ UNCHANGED <<clock, sessions, banners, granted, kept>>
  BY DEF Arrive, Touch
<1> HIDE DEF r
<1>3. tap'[t] = r
  BY <1>0, <1>2
<1>4. Holds(t)'
  BY <1>0, <1>1, <1>2, <1>3 DEF Holds
<1>5. r.now <= clock /\ clock <= r.now + 1
  BY <1>0, <1>1
<1> QED
  BY <1>0, <1>1, <1>2, <1>4, <1>5, TapMoves

LEMMA Deactivating ==
  ASSUME GrantInv, Noting, NEW t \in Taps, Deactivate(t)
  PROVE  GrantInv'
<1> DEFINE r == [tap[t] EXCEPT !.pc = "create", !.ending = Active]
<1>0. /\ tap \in [Taps -> TapRecord] /\ tap[t] \in TapRecord /\ tap[t].pc = "start"
      /\ tap[t].now <= clock /\ clock <= tap[t].now + 1
  BY DEF GrantInv, ATypeOK, Timed, Deactivate
<1>a. Active \in SUBSET Nat
  BY DEF GrantInv, ATypeOK, Active
<1>1. r \in TapRecord /\ r.pc = "create" /\ r.ending = Active /\ r.now = tap[t].now
  BY <1>0, <1>a DEF TapRecord
<1>2. tap' = [tap EXCEPT ![t] = r] /\ UNCHANGED <<clock, sessions, banners, granted, kept>>
  BY DEF Deactivate, Touch
<1> HIDE DEF r
<1>3. tap'[t] = r
  BY <1>0, <1>2
<1>4. Holds(t)'
  BY <1>1, <1>3 DEF Holds
<1>5. ~crossed' => \A i \in DOMAIN granted : granted[i].at <= r.now
  BY <1>0, <1>1, Uncrossed DEF GrantInv, Orderly, Starting
<1> QED
  BY <1>0, <1>1, <1>2, <1>4, <1>5, TapMoves

LEMMA Showing ==
  ASSUME GrantInv, Noting, NEW t \in Taps, ShowBanner(t)
  PROVE  GrantInv'
<1>1. PICK s \in Active : Touch(t, [tap[t] EXCEPT !.pc = "show", !.session = s])
  BY DEF ShowBanner
<1> DEFINE r == [tap[t] EXCEPT !.pc = "show", !.session = s]
<1>0. /\ tap \in [Taps -> TapRecord] /\ tap[t] \in TapRecord /\ tap[t].pc = "banner" /\ s \in Nat
      /\ tap[t].now <= clock /\ clock <= tap[t].now + 1
  BY <1>1 DEF GrantInv, ATypeOK, Timed, ShowBanner, Active
<1>2. r \in TapRecord /\ r.pc = "show" /\ r.now = tap[t].now
  BY <1>0 DEF TapRecord
<1>3. tap' = [tap EXCEPT ![t] = r] /\ UNCHANGED <<clock, sessions, banners, granted, kept>>
  BY <1>1 DEF ShowBanner, Touch
<1> HIDE DEF r
<1>4. tap'[t] = r
  BY <1>0, <1>3
<1>5. Holds(t)'
  BY <1>2, <1>4 DEF Holds
<1> QED
  BY <1>0, <1>2, <1>3, <1>5, TapMoves

\* A click that is still in time was not paid for: its grant would be there.
LEMMA ClickUnpaid ==
  ASSUME GrantInv, NEW b \in DOMAIN banners, NEW now \in Nat, clock <= now + 1, ValidClick(b, now)
  PROVE  \A i \in DOMAIN granted : granted[i].banner # b
<1> SUFFICES ASSUME NEW i \in DOMAIN granted, granted[i].banner = b PROVE FALSE
  OBVIOUS
<1>1. /\ granted[i] \in GrantRecord /\ banners[b] \in BannerRecord /\ clock \in Nat
      /\ i \in Nat \ {0} /\ b \in Nat \ {0}
  BY DEF GrantInv, ATypeOK
<1>2. banners[b].shown <= granted[i].at /\ (banners[b].grant = i \/ granted[i].at + DayLength < clock)
  BY <1>1 DEF GrantInv, BannersOnce, PaidBanner, NoBanner
<1>3. banners[b].grant = 0 /\ now - banners[b].shown <= ClickGrace
  BY DEF ValidClick
<1>4. granted[i].at + DayLength < clock
  BY <1>1, <1>2, <1>3
<1>5. granted[i].at \in Nat /\ banners[b].shown \in Nat /\ DayLength \in Nat /\ ClickGrace \in Nat /\ ClickGrace < DayLength
  BY <1>1, CycleAssumption, BannerAssumption DEF GrantRecord, BannerRecord
<1> QED
  BY <1>1, <1>2, <1>3, <1>4, <1>5

LEMMA Looking ==
  ASSUME GrantInv, Noting, NEW t \in Taps, Look(t)
  PROVE  GrantInv'
<1>1. PICK s \in Active :
        /\ MayClaim(s, tap[t].mode, tap[t].now)
        /\ tap[t].mode = "TURBO" =>
             banners[tap[t].banner].session = s /\ ValidClick(tap[t].banner, tap[t].now)
        /\ Touch(t, [tap[t] EXCEPT !.pc = "claim", !.session = s, !.due = sessions[s].due])
  BY DEF Look
<1> DEFINE r == [tap[t] EXCEPT !.pc = "claim", !.session = s, !.due = sessions[s].due]
<1>0. /\ tap \in [Taps -> TapRecord] /\ tap[t] \in TapRecord /\ tap[t].pc = "look"
      /\ s \in DOMAIN sessions /\ s \in Nat /\ sessions[s] \in SessionRecord
      /\ tap[t].now <= clock /\ clock <= tap[t].now + 1 /\ clock \in Nat
  BY <1>1 DEF GrantInv, ATypeOK, Timed, Look, Active
<1>a. tap[t].now \in Nat /\ sessions[s].due \in Nat /\ tap[t].mode \in Modes /\ tap[t].banner \in Nat
  BY <1>0 DEF TapRecord, SessionRecord
<1>2. /\ r \in TapRecord /\ r.pc = "claim" /\ r.now = tap[t].now /\ r.session = s
      /\ r.due = sessions[s].due /\ r.mode = tap[t].mode /\ r.banner = tap[t].banner
  BY <1>0, <1>a DEF TapRecord
<1>3. tap' = [tap EXCEPT ![t] = r] /\ UNCHANGED <<clock, sessions, banners, granted, kept>>
  BY <1>1 DEF Look, Touch
<1> HIDE DEF r
<1>4. tap'[t] = r
  BY <1>0, <1>3
<1>5. r.due <= r.now + Skew
  <2>1. Skew \in Nat /\ tap[t].now >= sessions[s].due - Skew
    BY <1>1, CycleAssumption DEF MayClaim, ClaimDue
  <2> QED
    BY <2>1, <1>2, <1>a
<1>6. Holds(t)
  BY DEF GrantInv
<1>7. Holds(t)'
  BY <1>0, <1>1, <1>2, <1>3, <1>4, <1>5, <1>6, <1>a DEF Holds
<1>8. r.mode = "TURBO" => \A i \in DOMAIN granted : granted[i].banner # r.banner
  <2>1. r.mode = "TURBO" => r.banner \in DOMAIN banners
    BY <1>0, <1>2, <1>6 DEF Holds
  <2>2. r.mode = "TURBO" => ValidClick(r.banner, r.now)
    BY <1>1, <1>2
  <2> QED
    BY <2>1, <2>2, <1>0, <1>2, <1>a, ClickUnpaid
<1>9. HashOn(granted, Day(r.now)) + HashPerCycle[r.mode] <= DailyLimit
  <2>1. UsedToday(tap[t].now) = HashOn(granted, Day(tap[t].now))
    BY <1>0, <1>a, UsedIsAll DEF GrantInv
  <2>2. UsedToday(tap[t].now) + HashPerCycle[tap[t].mode] <= DailyLimit
    BY <1>1 DEF MayClaim, CanGrant
  <2> QED
    BY <2>1, <2>2, <1>2
<1> QED
  BY <1>0, <1>2, <1>3, <1>7, <1>8, <1>9, TapMoves

LEMMA Refusing ==
  ASSUME GrantInv, Noting, NEW t \in Taps, Refuse(t)
  PROVE  GrantInv'
<1>1. tap' = [tap EXCEPT ![t] = IdleTap] /\ UNCHANGED <<clock, sessions, banners, granted, kept>>
  BY DEF Refuse, Release, Touch
<1>2. tap'[t] = IdleTap
  BY <1>1 DEF GrantInv, ATypeOK
<1>3. Holds(t)'
  BY <1>2, IdleTapRecord DEF Holds
<1> QED
  BY <1>1, <1>3, IdleTapRecord, TapMoves

LEMMA Passing ==
  ASSUME GrantInv, Noting, Pass
  PROVE  GrantInv'
<1>0. /\ clock \in Nat /\ clock' = clock + 1
      /\ \A t \in Taps : tap[t].pc = "idle" \/ tap[t].now = clock
      /\ UNCHANGED <<sessions, banners, granted, kept, tap>>
  BY DEF GrantInv, ATypeOK, Pass
<1>1. ATypeOK'
  BY <1>0 DEF GrantInv, ATypeOK, Noting
<1>t. DayLength \in Nat
  BY CycleAssumption
<1>2. /\ \A i \in DOMAIN granted : granted[i].at \in Nat
      /\ \A b \in DOMAIN banners : banners[b].shown \in Nat
      /\ \A t \in Taps : tap[t].now \in Nat
  <2>1. /\ \A i \in DOMAIN granted : granted[i] \in GrantRecord
        /\ \A b \in DOMAIN banners : banners[b] \in BannerRecord
        /\ \A t \in Taps : tap[t] \in TapRecord
    BY DEF GrantInv, ATypeOK
  <2> QED
    BY <2>1 DEF GrantRecord, BannerRecord, TapRecord
<1>3. Timed'
  BY <1>0, <1>2, <1>t DEF GrantInv, Timed
<1>4. \A t \in Taps : Holds(t)'
  BY <1>0 DEF GrantInv, Holds
<1>5. BannersOnce'
  <2>1. \A i \in DOMAIN granted' : PaidBanner(i)'
    BY <1>0, <1>2, <1>t DEF GrantInv, BannersOnce, PaidBanner
  <2>2. \A t \in Taps : Paying(t)' = Paying(t)
    BY <1>0 DEF Paying, SessionUnmoved
  <2> QED
    BY <1>0, <2>1, <2>2 DEF GrantInv, BannersOnce
<1>6. ASSUME ~crossed' PROVE Orderly' /\ Frugal'
  <2>1. Orderly /\ Frugal
    BY <1>6, Uncrossed DEF GrantInv
  <2>2. Orderly'
    BY <1>0, <2>1 DEF Orderly, Starting, Calling, Active
  <2>3. Frugal'
    BY <1>0, <2>1 DEF Frugal, Paying, SessionUnmoved
  <2> QED
    BY <2>2, <2>3
<1> QED
  BY <1>1, <1>3, <1>4, <1>5, <1>6 DEF GrantInv

\* Without a session that is active nobody can be paid.
LEMMA Stopping ==
  ASSUME GrantInv, Noting, StopSession
  PROVE  GrantInv'
<1>0. /\ sessions \in Seq(SessionRecord)
      /\ sessions' = [s \in DOMAIN sessions |-> [sessions[s] EXCEPT !.active = FALSE]]
      /\ UNCHANGED <<clock, banners, granted, kept, tap>>
  BY DEF GrantInv, ATypeOK, StopSession
<1>1. \A s \in DOMAIN sessions : sessions[s] \in SessionRecord
  BY <1>0
<1>2. /\ DOMAIN sessions' = DOMAIN sessions
      /\ \A s \in DOMAIN sessions : /\ sessions'[s] \in SessionRecord /\ ~sessions'[s].active
                                    /\ sessions'[s].due = sessions[s].due
  BY <1>0, <1>1 DEF SessionRecord
<1>3. sessions' \in Seq(SessionRecord)
  <2>1. sessions' \in [1 .. Len(sessions) -> SessionRecord] /\ Len(sessions) \in Nat
    BY <1>0, <1>2
  <2> QED
    BY <2>1
<1>4. ATypeOK'
  BY <1>0, <1>3 DEF GrantInv, ATypeOK, Noting
<1>5. Timed'
  BY <1>0 DEF GrantInv, Timed
<1>6. \A t \in Taps : Holds(t)'
  BY <1>0, <1>2 DEF GrantInv, Holds
<1>7. \A t \in Taps : ~Paying(t)'
  BY <1>0, <1>2, <1>6 DEF Paying, SessionUnmoved, Holds
<1>8. BannersOnce'
  <2>1. \A i \in DOMAIN granted' : PaidBanner(i)'
    BY <1>0 DEF GrantInv, BannersOnce, PaidBanner
  <2> QED
    BY <1>0, <1>7, <2>1 DEF GrantInv, BannersOnce
<1>9. ASSUME ~crossed' PROVE Orderly' /\ Frugal'
  <2>1. Orderly /\ Frugal
    BY <1>9, Uncrossed DEF GrantInv
  <2>2. Active' = {}
    BY <1>2 DEF Active
  <2>3. Orderly'
    BY <1>0, <2>1, <2>2 DEF Orderly, Starting, Calling
  <2>4. Frugal'
    BY <1>0, <1>7, <2>1 DEF Frugal
  <2> QED
    BY <2>3, <2>4
<1> QED
  BY <1>4, <1>5, <1>6, <1>8, <1>9 DEF GrantInv

\* Banners that are clicked or cleaned up, and grants that are cleaned up.
LEMMA BannersMove ==
  ASSUME GrantInv, Noting, UNCHANGED <<clock, sessions, granted, tap>>,
         kept' \subseteq kept, \A i \in kept \ kept' : Expired(i),
         DOMAIN banners' = DOMAIN banners,
         \A b \in DOMAIN banners :
           /\ banners'[b] \in BannerRecord
           /\ banners'[b].session = banners[b].session /\ banners'[b].shown = banners[b].shown
           /\ banners'[b].grant = banners[b].grant \/ banners[b].grant \notin kept',
         banners' \in Seq(BannerRecord)
  PROVE  GrantInv'
<1>1. ATypeOK'
  BY DEF GrantInv, ATypeOK, Noting
<1>2. Timed'
  BY DEF GrantInv, Timed, Expired
<1>3. \A t \in Taps : Holds(t)'
  BY DEF GrantInv, Holds
<1>4. BannersOnce'
  <2>1. ASSUME NEW i \in DOMAIN granted PROVE PaidBanner(i)'
    <3>1. PaidBanner(i)
      BY DEF GrantInv, BannersOnce
    <3>2. i \notin kept' => granted[i].at + DayLength < clock
      BY <1>2 DEF Timed
    <3> QED
      BY <3>1, <3>2 DEF PaidBanner
  <2>2. \A t \in Taps : Paying(t)' = Paying(t)
    BY DEF Paying, SessionUnmoved
  <2> QED
    BY <2>1, <2>2 DEF GrantInv, BannersOnce
<1>5. ASSUME ~crossed' PROVE Orderly' /\ Frugal'
  <2>1. Orderly /\ Frugal
    BY <1>5, Uncrossed DEF GrantInv
  <2>2. Orderly'
    BY <2>1 DEF Orderly, Starting, Calling, Active
  <2>3. Frugal'
    BY <2>1 DEF Frugal, Paying, SessionUnmoved
  <2> QED
    BY <2>2, <2>3
<1> QED
  BY <1>1, <1>2, <1>3, <1>4, <1>5 DEF GrantInv

LEMMA Clicking ==
  ASSUME GrantInv, Noting, NEW b \in DOMAIN banners, Click(b)
  PROVE  GrantInv'
<1>0. /\ banners \in Seq(BannerRecord) /\ kept \subseteq DOMAIN granted
      /\ banners' = [banners EXCEPT ![b].clicked = TRUE]
      /\ UNCHANGED <<clock, sessions, granted, kept, tap>>
  BY DEF GrantInv, ATypeOK, Click
<1>1. banners[b] \in BannerRecord
  BY <1>0
<1>2. [banners[b] EXCEPT !.clicked = TRUE] \in BannerRecord
  BY <1>1 DEF BannerRecord
<1>3. banners' \in Seq(BannerRecord)
  BY <1>0, <1>2
<1>4. DOMAIN banners' = DOMAIN banners
  BY <1>0
<1>5. ASSUME NEW e \in DOMAIN banners
      PROVE  /\ banners'[e] \in BannerRecord
             /\ banners'[e].session = banners[e].session /\ banners'[e].shown = banners[e].shown
             /\ banners'[e].grant = banners[e].grant
  <2>1. CASE e = b
    BY <2>1, <1>0, <1>1, <1>2 DEF BannerRecord
  <2>2. CASE e # b
    BY <2>2, <1>0
  <2> QED
    BY <2>1, <2>2
<1> QED
  BY <1>0, <1>3, <1>4, <1>5, BannersMove

LEMMA CleaningGrants ==
  ASSUME GrantInv, Noting, CleanGrants
  PROVE  GrantInv'
<1>0. /\ banners \in Seq(BannerRecord) /\ kept' = {i \in kept : ~Expired(i)}
      /\ banners' = [b \in DOMAIN banners |->
                       IF banners[b].grant # 0 /\ banners[b].grant \notin kept'
                         THEN [banners[b] EXCEPT !.grant = 0] ELSE banners[b]]
      /\ UNCHANGED <<clock, sessions, granted, tap>>
  BY DEF GrantInv, ATypeOK, CleanGrants
<1>1. DOMAIN banners' = DOMAIN banners
  BY <1>0
<1>2. ASSUME NEW e \in DOMAIN banners
      PROVE  /\ banners'[e] \in BannerRecord
             /\ banners'[e].session = banners[e].session /\ banners'[e].shown = banners[e].shown
             /\ banners'[e].grant = banners[e].grant \/ banners[e].grant \notin kept'
  <2>1. banners[e] \in BannerRecord
    BY <1>0
  <2>2. banners'[e] = IF banners[e].grant # 0 /\ banners[e].grant \notin kept'
                        THEN [banners[e] EXCEPT !.grant = 0] ELSE banners[e]
    BY <1>0
  <2> QED
    BY <2>1, <2>2 DEF BannerRecord
<1>3. banners' \in Seq(BannerRecord)
  <2>1. banners' \in [1 .. Len(banners) -> BannerRecord] /\ Len(banners) \in Nat
    BY <1>0, <1>2
  <2> QED
    BY <2>1
<1>4. kept' \subseteq kept /\ \A i \in kept \ kept' : Expired(i)
  BY <1>0
<1> QED
  BY <1>0, <1>1, <1>2, <1>3, <1>4, BannersMove

LEMMA CleaningBanners ==
  ASSUME GrantInv, Noting, CleanBanners
  PROVE  GrantInv'
<1>0. /\ banners \in Seq(BannerRecord)
      /\ banners' = [b \in DOMAIN banners |->
                       IF banners[b].grant = 0 /\ banners[b].shown + DayLength < clock
                         THEN [banners[b] EXCEPT !.kept = FALSE] ELSE banners[b]]
      /\ UNCHANGED <<clock, sessions, granted, kept, tap>>
  BY DEF GrantInv, ATypeOK, CleanBanners
<1>1. DOMAIN banners' = DOMAIN banners
  BY <1>0
<1>2. ASSUME NEW e \in DOMAIN banners
      PROVE  /\ banners'[e] \in BannerRecord
             /\ banners'[e].session = banners[e].session /\ banners'[e].shown = banners[e].shown
             /\ banners'[e].grant = banners[e].grant
  <2>1. banners[e] \in BannerRecord
    BY <1>0
  <2>2. banners'[e] = IF banners[e].grant = 0 /\ banners[e].shown + DayLength < clock
                        THEN [banners[e] EXCEPT !.kept = FALSE] ELSE banners[e]
    BY <1>0
  <2> QED
    BY <2>1, <2>2 DEF BannerRecord
<1>3. banners' \in Seq(BannerRecord)
  <2>1. banners' \in [1 .. Len(banners) -> BannerRecord] /\ Len(banners) \in Nat
    BY <1>0, <1>2
  <2> QED
    BY <2>1
<1> QED
  BY <1>0, <1>1, <1>2, <1>3, BannersMove

LEMMA Releasing ==
  ASSUME tap \in [Taps -> TapRecord], NEW t \in Taps, Release(t)
  PROVE  /\ tap' \in [Taps -> TapRecord] /\ tap'[t] = IdleTap /\ tap'[t].pc = "idle"
         /\ \A u \in Taps \ {t} : tap'[u] = tap[u]
BY IdleTapRecord DEF Release, Touch

LEMMA CreatingBanner ==
  ASSUME GrantInv, Noting, NEW t \in Taps, CreateBanner(t)
  PROVE  GrantInv'
<1> DEFINE b == [session |-> tap[t].session, shown |-> clock, clicked |-> FALSE,
                 grant |-> 0, kept |-> TRUE]
<1>0. /\ banners \in Seq(BannerRecord) /\ clock \in Nat /\ tap \in [Taps -> TapRecord]
      /\ banners' = Append(banners, b) /\ tap[t].pc = "show"
      /\ UNCHANGED <<clock, sessions, granted, kept>>
  BY DEF GrantInv, ATypeOK, CreateBanner
<1>r. /\ tap' \in [Taps -> TapRecord] /\ tap'[t].pc = "idle"
      /\ \A u \in Taps \ {t} : tap'[u] = tap[u]
  BY <1>0, Releasing DEF CreateBanner
<1>1. b \in BannerRecord /\ b.shown = clock
  <2>1. tap[t].session \in Nat
    BY <1>0 DEF TapRecord
  <2> QED
    BY <2>1, <1>0 DEF BannerRecord
<1> HIDE DEF b
<1>2. /\ banners' \in Seq(BannerRecord)
      /\ DOMAIN banners' = DOMAIN banners \cup {Len(banners) + 1}
      /\ \A e \in DOMAIN banners : banners'[e] = banners[e]
      /\ banners'[Len(banners) + 1] = b
  BY <1>0, <1>1
<1>3. ATypeOK'
  BY <1>0, <1>2, <1>r DEF GrantInv, ATypeOK, Noting
<1>4. Timed'
  <2>1. \A e \in DOMAIN banners' : banners'[e].shown <= clock
    BY <1>0, <1>1, <1>2 DEF GrantInv, Timed
  <2> QED
    BY <2>1, <1>0, <1>r DEF GrantInv, Timed
<1>5. \A u \in Taps : Holds(u)'
  BY <1>0, <1>2, <1>r DEF GrantInv, Holds
<1>6. \A u \in Taps : Paying(u)' <=> u # t /\ Paying(u)
  BY <1>0, <1>r DEF Paying, SessionUnmoved
<1>7. BannersOnce'
  <2>1. \A i \in DOMAIN granted' : PaidBanner(i)'
    BY <1>0, <1>2 DEF GrantInv, BannersOnce, PaidBanner
  <2> QED
    BY <1>0, <1>6, <1>r, <2>1 DEF GrantInv, BannersOnce
<1>8. ASSUME ~crossed' PROVE Orderly' /\ Frugal'
  <2>1. /\ Orderly /\ Frugal /\ \A u \in Starting' : \A v \in Calling' : u = v
    BY <1>8, Uncrossed DEF GrantInv
  <2>2. Active' = Active
    BY <1>0 DEF Active
  <2>3. ASSUME NEW u \in Starting'
        PROVE  /\ tap'[u].pc = "create" => Active' \subseteq tap'[u].ending
               /\ \A i \in DOMAIN granted' : granted'[i].at <= tap'[u].now
    <3>1. u \in Starting /\ tap'[u] = tap[u]
      BY <1>r DEF Starting
    <3> QED
      BY <3>1, <1>0, <2>1, <2>2 DEF Orderly
  <2>4. Orderly'
    BY <1>0, <2>1, <2>2, <2>3 DEF Orderly
  <2>5. Frugal'
    BY <1>0, <1>6, <1>r, <2>1 DEF Frugal
  <2> QED
    BY <2>4, <2>5
<1> QED
  BY <1>3, <1>4, <1>5, <1>7, <1>8 DEF GrantInv

\* The new session may be claimed from a cycle after anything granted before.
LEMMA CreatingSession ==
  ASSUME GrantInv, Noting, NEW t \in Taps, CreateSession(t)
  PROVE  GrantInv'
<1> DEFINE n == Len(sessions) + 1
           v == [mode |-> tap[t].mode, due |-> NextClaim(tap[t].now), active |-> TRUE]
           old == [s \in DOMAIN sessions |-> IF s \in tap[t].ending
                                               THEN [sessions[s] EXCEPT !.active = FALSE]
                                               ELSE sessions[s]]
<1>0. /\ sessions \in Seq(SessionRecord) /\ clock \in Nat /\ tap \in [Taps -> TapRecord]
      /\ granted \in Seq(GrantRecord)
      /\ sessions' = Append(old, v) /\ tap[t].pc = "create"
      /\ UNCHANGED <<clock, banners, granted, kept>>
  BY DEF GrantInv, ATypeOK, CreateSession
<1>r. /\ tap' \in [Taps -> TapRecord] /\ tap'[t].pc = "idle"
      /\ \A u \in Taps \ {t} : tap'[u] = tap[u]
  BY <1>0, Releasing DEF CreateSession
<1>1. v \in SessionRecord /\ v.due = tap[t].now + Cycle
  <2>1. tap[t].now \in Nat /\ tap[t].mode \in Modes
    BY <1>0 DEF TapRecord
  <2>2. tap[t].now + Cycle \in Nat
    BY <2>1, CycleAssumption
  <2> QED
    BY <2>1, <2>2 DEF SessionRecord, NextClaim
<1>2. ASSUME NEW s \in DOMAIN sessions
      PROVE  /\ old[s] \in SessionRecord /\ old[s].due = sessions[s].due
             /\ old[s].active <=> sessions[s].active /\ s \notin tap[t].ending
  <2>1. sessions[s] \in SessionRecord
    BY <1>0
  <2> QED
    BY <2>1 DEF SessionRecord
<1>3. old \in Seq(SessionRecord) /\ Len(old) = Len(sessions) /\ Len(sessions) \in Nat
  <2>1. old \in [1 .. Len(sessions) -> SessionRecord] /\ Len(sessions) \in Nat
    BY <1>0, <1>2
  <2> QED
    BY <2>1
<1>4. DOMAIN sessions = 1 .. Len(sessions)
  BY <1>0
<1> HIDE DEF v, old
<1>5. /\ sessions' \in Seq(SessionRecord)
      /\ DOMAIN sessions' = DOMAIN sessions \cup {n} /\ n \notin DOMAIN sessions
      /\ \A s \in DOMAIN sessions : sessions'[s] = old[s]
      /\ sessions'[n] = v
  BY <1>0, <1>1, <1>3, <1>4
<1> HIDE DEF n
<1>6. ATypeOK'
  BY <1>0, <1>5, <1>r DEF GrantInv, ATypeOK, Noting
<1>7. Timed'
  BY <1>0, <1>r DEF GrantInv, Timed
<1>8. \A u \in Taps : Holds(u)'
  BY <1>0, <1>2, <1>5, <1>r DEF GrantInv, Holds
<1>9. \A u \in Taps : Paying(u)' => u # t /\ Paying(u)
  <2> SUFFICES ASSUME NEW u \in Taps, Paying(u)' PROVE u # t /\ Paying(u)
    OBVIOUS
  <2>1. u # t /\ tap'[u] = tap[u]
    BY <1>r DEF Paying
  <2>2. tap[u].pc = "claim" /\ tap[u].session \in DOMAIN sessions
    BY <2>1 DEF Paying, GrantInv, Holds
  <2>3. sessions'[tap[u].session] = old[tap[u].session]
    BY <2>2, <1>5
  <2> QED
    BY <2>1, <2>2, <2>3, <1>2 DEF Paying, SessionUnmoved
<1>10. BannersOnce'
  <2>1. \A i \in DOMAIN granted' : PaidBanner(i)'
    BY <1>0 DEF GrantInv, BannersOnce, PaidBanner
  <2> QED
    BY <1>0, <1>9, <1>r, <2>1 DEF GrantInv, BannersOnce
<1>11. ASSUME ~crossed' PROVE Orderly' /\ Frugal'
  <2>1. /\ Orderly /\ Frugal /\ \A u \in Starting' : \A w \in Calling' : u = w
    BY <1>11, Uncrossed DEF GrantInv
  <2>2. t \in Starting /\ Active \subseteq tap[t].ending
    BY <1>0, <2>1 DEF Orderly, Starting
  <2>3. Active' \subseteq {n}
    BY <1>2, <1>5, <2>2 DEF Active
  <2>4. \A u \in Starting' : FALSE
    BY <1>r, <2>1, <2>2 DEF Orderly, Starting, Calling
  <2>5. ASSUME NEW i \in DOMAIN granted PROVE sessions'[n].due >= granted[i].at + Cycle
    <3>1. granted[i].at <= tap[t].now
      BY <2>1, <2>2 DEF Orderly
    <3>2. granted[i].at \in Nat /\ tap[t].now \in Nat /\ Cycle \in Nat
      <4>1. granted[i] \in GrantRecord /\ tap[t] \in TapRecord
        BY <1>0
      <4> QED
        BY <4>1, CycleAssumption DEF GrantRecord, TapRecord
    <3> QED
      BY <3>1, <3>2, <1>1, <1>5
  <2>6. Orderly'
    BY <1>0, <2>1, <2>3, <2>4, <2>5 DEF Orderly
  <2>7. Frugal'
    BY <1>0, <1>9, <1>r, <2>1 DEF Frugal
  <2> QED
    BY <2>6, <2>7
<1> QED
  BY <1>6, <1>7, <1>8, <1>10, <1>11 DEF GrantInv

\* A claim moves its session on, so that no other claim that has read it is
\* still to be paid.
LEMMA Claiming ==
  ASSUME GrantInv, Noting, NEW t \in Taps, Claim(t)
  PROVE  GrantInv'
<1> DEFINE s == tap[t].session
           b == tap[t].banner
           now == tap[t].now
           mode == tap[t].mode
           n == Len(granted) + 1
           g == [at |-> now, hash |-> HashPerCycle[mode], banner |-> b]
<1>0. /\ sessions \in Seq(SessionRecord) /\ banners \in Seq(BannerRecord)
      /\ granted \in Seq(GrantRecord) /\ kept \subseteq DOMAIN granted
      /\ tap \in [Taps -> TapRecord] /\ tap[t] \in TapRecord /\ clock \in Nat /\ Holds(t)
  BY DEF GrantInv, ATypeOK
<1>1. /\ tap[t].pc = "claim" /\ SessionUnmoved(t) /\ UNCHANGED clock
      /\ sessions' = [sessions EXCEPT ![s].due = NextClaim(now)]
      /\ granted' = Append(granted, g) /\ kept' = kept \cup {Len(granted')}
      /\ banners' = IF mode = "TURBO" THEN [banners EXCEPT ![b].grant = Len(granted')] ELSE banners
  BY DEF Claim
<1>r. /\ tap' \in [Taps -> TapRecord] /\ tap'[t].pc = "idle"
      /\ \A u \in Taps \ {t} : tap'[u] = tap[u]
  BY <1>0, Releasing DEF Claim
<1>c. Cycle \in Nat /\ Skew \in Nat /\ Skew < Cycle /\ DayLength \in Nat
  BY CycleAssumption
<1>2. now \in Nat /\ mode \in Modes /\ b \in Nat /\ tap[t].due \in Nat /\ s \in Nat
  BY <1>0 DEF TapRecord
<1>3. /\ s \in DOMAIN sessions /\ sessions[s] \in SessionRecord /\ sessions[s].active
      /\ sessions[s].due \in Nat /\ sessions[s].due <= now + Skew
  <2>1. s \in DOMAIN sessions /\ tap[t].due <= now + Skew
    BY <1>0, <1>1 DEF Holds
  <2>2. sessions[s] \in SessionRecord
    BY <2>1, <1>0
  <2>3. sessions[s].active /\ sessions[s].due = tap[t].due
    BY <1>1 DEF SessionUnmoved
  <2> QED
    BY <2>1, <2>2, <2>3, <1>2
<1>4. IF mode = "NORMAL" THEN b = NoBanner
      ELSE b \in DOMAIN banners /\ banners[b].shown <= now /\ banners[b].session = s
  BY <1>0, <1>1, <1>2 DEF Holds, Modes
<1>5. g \in GrantRecord /\ g.at = now /\ g.banner = b /\ g.hash = HashPerCycle[mode]
  <2>1. HashPerCycle[mode] \in Nat
    BY <1>2, HashAssumption
  <2> QED
    BY <2>1, <1>2 DEF GrantRecord
<1>p. Paying(t)
  BY <1>1 DEF Paying
\* What has become of the session, the grants, the banners.
<1>6. /\ sessions' \in Seq(SessionRecord) /\ DOMAIN sessions' = DOMAIN sessions
      /\ sessions'[s].due = now + Cycle /\ sessions'[s].active
      /\ \A x \in DOMAIN sessions \ {s} : sessions'[x] = sessions[x]
  <2>1. [sessions[s] EXCEPT !.due = NextClaim(now)] \in SessionRecord
    BY <1>2, <1>3, <1>c DEF SessionRecord, NextClaim
  <2>2. sessions' = [sessions EXCEPT ![s] = [sessions[s] EXCEPT !.due = NextClaim(now)]]
    BY <1>1
  <2>3. sessions' \in Seq(SessionRecord) /\ DOMAIN sessions' = DOMAIN sessions
    <3>1. PICK v \in SessionRecord : sessions' = [sessions EXCEPT ![s] = v]
      BY <2>1, <2>2
    <3>2. s \in DOMAIN sessions /\ sessions \in Seq(SessionRecord)
      BY <1>0, <1>3
    <3> HIDE DEF s
    <3> QED
      BY <3>1, <3>2
  <2>4. sessions'[s] = [sessions[s] EXCEPT !.due = NextClaim(now)]
    BY <2>2, <1>3, <1>0
  <2>5. sessions'[s].due = now + Cycle /\ sessions'[s].active
    BY <2>4, <1>3 DEF SessionRecord, NextClaim
  <2>6. \A x \in DOMAIN sessions \ {s} : sessions'[x] = sessions[x]
    BY <2>2, <1>0
  <2> QED
    BY <2>3, <2>5, <2>6
<1> HIDE DEF g
<1>7. /\ granted' \in Seq(GrantRecord) /\ Len(granted') = n
      /\ DOMAIN granted' = DOMAIN granted \cup {n} /\ n \notin DOMAIN granted /\ n \in Nat \ {0}
      /\ \A i \in DOMAIN granted : granted'[i] = granted[i] /\ i < n
      /\ granted'[n] = g
  BY <1>0, <1>1, <1>5
<1> HIDE DEF n
<1>8. /\ banners' \in Seq(BannerRecord) /\ DOMAIN banners' = DOMAIN banners
      /\ \A e \in DOMAIN banners : /\ banners'[e].session = banners[e].session
                                   /\ banners'[e].shown = banners[e].shown
                                   /\ e # b => banners'[e] = banners[e]
      /\ mode = "TURBO" => banners'[b].grant = n
  <2>1. CASE mode = "NORMAL"
    BY <2>1, <1>0, <1>1
  <2>2. CASE mode # "NORMAL"
    <3>1. mode = "TURBO" /\ b \in DOMAIN banners /\ banners[b] \in BannerRecord
      BY <2>2, <1>0, <1>2, <1>4 DEF Modes
    <3> DEFINE v == [banners[b] EXCEPT !.grant = n]
    <3>2. /\ v \in BannerRecord /\ v.session = banners[b].session /\ v.shown = banners[b].shown
          /\ v.grant = n
      BY <3>1, <1>7 DEF BannerRecord
    <3>3. banners' = [banners EXCEPT ![b] = v]
      BY <3>1, <1>1, <1>7
    <3> HIDE DEF v
    <3>4. banners' \in Seq(BannerRecord) /\ DOMAIN banners' = DOMAIN banners /\ banners'[b] = v
      BY <3>1, <3>2, <3>3, <1>0
    <3>5. \A e \in DOMAIN banners : e # b => banners'[e] = banners[e]
      BY <3>3, <1>0
    <3> QED
      BY <3>2, <3>4, <3>5
  <2> QED
    BY <2>1, <2>2
<1>9. kept' = kept \cup {n}
  BY <1>1, <1>7
<1> HIDE DEF s, b, now, mode
<1>10. ATypeOK'
  BY <1>0, <1>1, <1>6, <1>7, <1>8, <1>9, <1>r DEF GrantInv, ATypeOK, Noting
<1>11. Timed'
  <2>1. now <= clock
    BY <1>1 DEF GrantInv, Timed, now
  <2>2. \A i \in DOMAIN granted' : granted'[i].at <= clock
    BY <2>1, <1>5, <1>7 DEF GrantInv, Timed
  <2>3. \A i \in DOMAIN granted' \ kept' : granted'[i].at + DayLength < clock
    BY <1>7, <1>9 DEF GrantInv, Timed
  <2>4. \A e \in DOMAIN banners' : banners'[e].shown <= clock
    BY <1>8 DEF GrantInv, Timed
  <2>5. \A u \in Taps : tap'[u].pc # "idle" => tap'[u].now <= clock /\ clock <= tap'[u].now + 1
    BY <1>r DEF GrantInv, Timed
  <2> QED
    BY <2>2, <2>3, <2>4, <2>5, <1>1 DEF Timed
<1>12. ASSUME NEW u \in Taps \ {t}, tap[u].pc = "claim"
       PROVE  /\ tap[u].session \in DOMAIN sessions
              /\ tap[u].due <= sessions'[tap[u].session].due
              /\ tap[u].session = s => tap[u].due # sessions'[s].due
  <2>1. tap[u].session \in DOMAIN sessions /\ tap[u].due <= sessions[tap[u].session].due
    BY <1>12 DEF GrantInv, Holds
  <2>2. tap[u] \in TapRecord
    BY <1>0
  <2>3. tap[u].due \in Nat
    BY <2>2 DEF TapRecord
  <2>4. CASE tap[u].session = s
    BY <2>1, <2>3, <2>4, <1>2, <1>3, <1>6, <1>c
  <2>5. CASE tap[u].session # s
    BY <2>1, <2>5, <1>6
  <2> QED
    BY <2>1, <2>4, <2>5
<1>13. ASSUME NEW u \in Taps PROVE Holds(u)'
  <2>1. CASE u = t
    BY <2>1, <1>r DEF Holds
  <2>2. CASE u # t
    <3>1. Holds(u) /\ tap'[u] = tap[u]
      BY <2>2, <1>r DEF GrantInv
    <3>2. tap[u].pc = "claim" => tap[u].due <= sessions'[tap[u].session].due
      BY <2>2, <1>12
    <3>3. tap[u].pc \in {"look", "claim"} /\ tap[u].mode # "NORMAL" =>
            /\ tap[u].banner \in DOMAIN banners
            /\ banners[tap[u].banner].shown <= tap[u].now
            /\ tap[u].pc = "claim" /\ tap[u].mode = "TURBO" =>
                 banners[tap[u].banner].session = tap[u].session
      BY <3>1 DEF Holds
    <3> QED
      BY <3>1, <3>2, <3>3, <1>6, <1>8 DEF Holds
  <2> QED
    BY <2>1, <2>2
<1>14. ASSUME NEW u \in Taps, Paying(u)'
       PROVE  /\ u # t /\ tap'[u] = tap[u] /\ tap[u].pc = "claim"
              /\ tap[u].session # s /\ Paying(u) /\ sessions[tap[u].session].active
  <2>1. u # t /\ tap'[u] = tap[u] /\ tap[u].pc = "claim"
    BY <1>14, <1>r DEF Paying
  <2>2. sessions'[tap[u].session].active /\ sessions'[tap[u].session].due = tap[u].due
    BY <2>1, <1>14 DEF Paying, SessionUnmoved
  <2>3. tap[u].session # s /\ tap[u].session \in DOMAIN sessions
    BY <2>1, <2>2, <1>12
  <2>4. sessions'[tap[u].session] = sessions[tap[u].session]
    BY <2>3, <1>6
  <2> QED
    BY <2>1, <2>2, <2>3, <2>4 DEF Paying, SessionUnmoved
\* The click of this claim was not paid for before.
<1>15. mode = "TURBO" => \A i \in DOMAIN granted : granted[i].banner # b
  BY <1>p DEF GrantInv, BannersOnce, mode, b
<1>16. BannersOnce'
  <2>0. \A i \in DOMAIN granted : granted[i].banner # NoBanner => granted[i].banner # b
    BY <1>2, <1>4, <1>15 DEF Modes
  <2>1. ASSUME NEW i \in DOMAIN granted' PROVE PaidBanner(i)'
    <3>1. CASE i = n
      <4>1. granted'[i].banner = b /\ granted'[i].at = now
        BY <3>1, <1>5, <1>7
      <4>2. CASE mode = "NORMAL"
        BY <4>1, <4>2, <1>4 DEF PaidBanner
      <4>3. CASE mode = "TURBO"
        BY <3>1, <4>1, <4>3, <1>4, <1>8 DEF PaidBanner
      <4> QED
        BY <4>2, <4>3, <1>2 DEF Modes
    <3>2. CASE i # n
      <4>1. i \in DOMAIN granted /\ granted'[i] = granted[i]
        BY <3>2, <1>7
      <4>2. PaidBanner(i)
        BY <4>1 DEF GrantInv, BannersOnce
      <4>3. granted[i].banner # NoBanner =>
              /\ granted[i].banner \in DOMAIN banners
              /\ banners'[granted[i].banner] = banners[granted[i].banner]
        BY <4>1, <4>2, <2>0, <1>8 DEF PaidBanner
      <4> QED
        BY <4>1, <4>2, <4>3, <1>1, <1>8 DEF PaidBanner
    <3> QED
      BY <3>1, <3>2
  <2>2. ASSUME NEW u \in Taps, Paying(u)', tap'[u].mode = "TURBO", NEW i \in DOMAIN granted'
        PROVE  granted'[i].banner # tap'[u].banner
    <3>1. /\ tap'[u] = tap[u] /\ tap[u].pc = "claim" /\ tap[u].session # s /\ Paying(u)
          /\ tap[u].mode = "TURBO"
      BY <2>2, <1>14
    <3>2. CASE i # n
      <4>1. i \in DOMAIN granted /\ granted'[i] = granted[i]
        BY <3>2, <1>7
      <4> QED
        BY <3>1, <4>1 DEF GrantInv, BannersOnce
    <3>3. CASE i = n
      <4>1. granted'[i].banner = b
        BY <3>3, <1>5, <1>7
      <4>2. tap[u].banner \in DOMAIN banners /\ banners[tap[u].banner].session = tap[u].session
        BY <3>1 DEF GrantInv, Holds
      <4>3. tap[u].banner # NoBanner
        BY <4>2, <1>0 DEF NoBanner
      <4>4. tap[u].banner # b
        BY <3>1, <4>2, <4>3, <1>4
      <4> QED
        BY <3>1, <4>1, <4>4
    <3> QED
      BY <3>2, <3>3
  <2>3. ASSUME NEW i \in DOMAIN granted', NEW j \in DOMAIN granted', i # j
        PROVE  granted'[i].banner = NoBanner \/ granted'[i].banner # granted'[j].banner
    <3>1. \A k \in DOMAIN granted : granted'[k].banner = granted[k].banner
      BY <1>7
    <3>2. granted'[n].banner = b
      BY <1>5, <1>7
    <3>3. CASE i = n
      BY <3>1, <3>2, <3>3, <2>0, <2>3, <1>7
    <3>4. CASE j = n
      BY <3>1, <3>2, <3>4, <2>0, <2>3, <1>7
    <3>5. CASE i # n /\ j # n
      <4>1. i \in DOMAIN granted /\ j \in DOMAIN granted
        BY <3>5, <1>7
      <4> QED
        BY <3>1, <4>1, <2>3 DEF GrantInv, BannersOnce
    <3> QED
      BY <3>3, <3>4, <3>5
  <2> QED
    BY <2>1, <2>2, <2>3 DEF BannersOnce
<1>17. ASSUME ~crossed' PROVE Orderly' /\ Frugal'
  <2>1. Orderly /\ Frugal
    BY <1>17, Uncrossed DEF GrantInv
  <2>2. Active' = Active /\ s \in Active
    BY <1>3, <1>6 DEF Active
  <2>3. Active = {s}
    BY <2>1, <2>2 DEF Orderly
  <2>4. \A u \in Starting' : FALSE
    <3> SUFFICES ASSUME NEW u \in Starting' PROVE FALSE
      OBVIOUS
    <3>1. u \in Starting /\ u # t
      BY <1>r DEF Starting
    <3>2. t \in Calling
      BY <1>1 DEF Calling
    <3> QED
      BY <3>1, <3>2, <2>1 DEF Orderly
  <2>5. ASSUME NEW i \in DOMAIN granted
        PROVE  /\ granted[i].at \in Nat /\ granted[i].at < now
               /\ now >= granted[i].at + Cycle - Skew
    <3>1. granted[i] \in GrantRecord
      BY <1>0
    <3>2. granted[i].at \in Nat
      BY <3>1 DEF GrantRecord
    <3>3. sessions[s].due >= granted[i].at + Cycle
      BY <2>1, <2>2 DEF Orderly
    <3> QED
      BY <3>2, <3>3, <1>2, <1>3, <1>c
  <2>6. \A i \in DOMAIN granted' : sessions'[s].due >= granted'[i].at + Cycle
    <3> SUFFICES ASSUME NEW i \in DOMAIN granted' PROVE sessions'[s].due >= granted'[i].at + Cycle
      OBVIOUS
    <3>1. CASE i = n
      BY <3>1, <1>2, <1>5, <1>6, <1>7, <1>c
    <3>2. CASE i # n
      <4>1. i \in DOMAIN granted /\ granted'[i] = granted[i]
        BY <3>2, <1>7
      <4> QED
        BY <4>1, <2>5, <1>2, <1>6, <1>c
    <3> QED
      BY <3>1, <3>2
  <2>7. ASSUME NEW i \in DOMAIN granted', NEW j \in DOMAIN granted', i < j
        PROVE  granted'[j].at >= granted'[i].at + Cycle - Skew
    <3>1. i \in DOMAIN granted /\ granted'[i] = granted[i] /\ (j = n \/ j \in DOMAIN granted)
      BY <2>7, <1>0, <1>7
    <3>2. CASE j = n
      BY <3>1, <3>2, <2>5, <1>5, <1>7
    <3>3. CASE j \in DOMAIN granted
      <4>1. granted'[j] = granted[j] /\ granted[j].at >= granted[i].at + Cycle - Skew
        BY <3>1, <3>3, <2>7, <2>1, <1>7 DEF Orderly
      <4> QED
        BY <3>1, <4>1
    <3> QED
      BY <3>1, <3>2, <3>3
  <2>8. Orderly'
    BY <2>2, <2>3, <2>4, <2>6, <2>7 DEF Orderly
  <2>9. \A u \in Taps : ~Paying(u)'
    <3> SUFFICES ASSUME NEW u \in Taps, Paying(u)' PROVE FALSE
      OBVIOUS
    <3>1. /\ tap[u].pc = "claim" /\ tap[u].session # s /\ sessions[tap[u].session].active /\ u # t
      BY <1>14
    <3>2. tap[u].session \in DOMAIN sessions
      BY <3>1, <1>12
    <3> QED
      BY <3>1, <3>2, <2>3 DEF Active
  <2>10. ASSUME NEW i \in DOMAIN granted'
         PROVE  HashOn(granted', Day(granted'[i].at)) <= DailyLimit
    <3>1. PICK d : d = Day(granted'[i].at)
      OBVIOUS
    <3>2. HashOn(granted', d) = HashOn(granted, d) + (IF Day(now) = d THEN HashPerCycle[mode] ELSE 0)
      BY <1>0, <1>1, <1>5, HashAppend
    <3>3. HashOn(granted, d) \in Int
      BY <1>0, HashOnType
    <3>4. CASE Day(now) = d
      <4>1. HashOn(granted, Day(now)) + HashPerCycle[mode] <= DailyLimit
        BY <1>p, <2>1 DEF Frugal, now, mode
      <4> QED
        BY <3>1, <3>2, <3>4, <4>1
    <3>5. CASE Day(now) # d
      <4>1. i \in DOMAIN granted /\ granted'[i] = granted[i]
        BY <3>1, <3>5, <1>5, <1>7
      <4>2. HashOn(granted, d) <= DailyLimit
        BY <3>1, <4>1, <2>1 DEF Frugal
      <4> QED
        BY <3>1, <3>2, <3>3, <3>5, <4>2
    <3> QED
      BY <3>4, <3>5
  <2>11. Frugal'
    BY <2>9, <2>10 DEF Frugal
  <2> QED
    BY <2>8, <2>11
<1> QED
  BY <1>10, <1>11, <1>13, <1>16, <1>17 DEF GrantInv

LEMMA InitGrants == AInit => GrantInv
<1> SUFFICES ASSUME AInit PROVE GrantInv
  OBVIOUS
<1>1. /\ clock = 0 /\ sessions = <<>> /\ banners = <<>> /\ granted = <<>> /\ kept = {}
      /\ tap = [t \in Taps |-> IdleTap] /\ crossed = FALSE
  BY DEF AInit
<1>2. ATypeOK
  <2>1. tap \in [Taps -> TapRecord]
    BY <1>1, IdleTapRecord
  <2>2. sessions \in Seq(SessionRecord) /\ banners \in Seq(BannerRecord)
    BY <1>1
  <2>3. granted \in Seq(GrantRecord)
    BY <1>1
  <2> QED
    BY <1>1, <2>1, <2>2, <2>3 DEF ATypeOK
<1>3. \A t \in Taps : tap[t].pc = "idle"
  BY <1>1, IdleTapRecord
<1>4. Timed /\ \A t \in Taps : Holds(t)
  BY <1>1, <1>3 DEF Timed, Holds
<1>5. BannersOnce
  BY <1>1, <1>3 DEF BannersOnce, Paying
<1>6. Orderly
  BY <1>1, <1>3 DEF Orderly, Starting, Active
<1>7. Frugal
  BY <1>1, <1>3 DEF Frugal, Paying
<1> QED
  BY <1>2, <1>4, <1>5, <1>6, <1>7 DEF GrantInv

LEMMA TapGrants ==
  ASSUME GrantInv, Noting, NEW t \in Taps, Tap(t)
  PROVE  GrantInv'
<1>0. NoBanner \in Nat /\ "TURBO" \in Modes /\ "NORMAL" \in Modes
  BY DEF NoBanner, Modes
<1>1. CASE \E mode \in Modes : Arrive(t, "start", mode, NoBanner)
  BY <1>0, <1>1, Arriving
<1>2. CASE Arrive(t, "banner", "TURBO", NoBanner)
  BY <1>0, <1>2, Arriving
<1>3. CASE Arrive(t, "look", "NORMAL", NoBanner)
  BY <1>0, <1>3, Arriving
<1>4. CASE \E b \in DOMAIN banners : Arrive(t, "look", "TURBO", b)
  <2>1. \A b \in DOMAIN banners : b \in Nat
    BY DEF GrantInv, ATypeOK
  <2> QED
    BY <1>0, <1>4, <2>1, Arriving
<1> QED
  BY <1>1, <1>2, <1>3, <1>4, Deactivating, CreatingSession, Showing, CreatingBanner, Looking,
     Claiming, Refusing DEF Tap

LEMMA NextGrants ==
  ASSUME GrantInv, [ANext]_aVars
  PROVE  GrantInv'
<1>1. CASE ANext
  <2>1. Noting
    BY <1>1 DEF ANext, Noting
  <2> QED
    BY <1>1, <2>1, Passing, Stopping, CleaningGrants, CleaningBanners, Clicking, TapGrants DEF ANext
<1>2. CASE UNCHANGED aVars
  <2>0. UNCHANGED <<clock, sessions, banners, granted, kept, tap, crossed>>
    BY <1>2 DEF aVars
  <2>1. ATypeOK' /\ Timed' /\ \A t \in Taps : Holds(t)'
    BY <2>0 DEF GrantInv, ATypeOK, Timed, Holds
  <2>2. BannersOnce'
    BY <2>0 DEF GrantInv, BannersOnce, PaidBanner, Paying, SessionUnmoved
  <2>3. ~crossed' => Orderly' /\ Frugal'
    BY <2>0 DEF GrantInv, Orderly, Frugal, Starting, Calling, Active, Paying, SessionUnmoved
  <2> QED
    BY <2>1, <2>2, <2>3 DEF GrantInv
<1> QED
  BY <1>1, <1>2

LEMMA GrantsImplied == GrantInv => GrantsPaced
<1> SUFFICES ASSUME GrantInv PROVE GrantsPaced
  OBVIOUS
<1>1. \A d : DaySum(DOMAIN granted, d) = HashOn(granted, d)
  BY DEF DaySum, GrantedHash, HashOn
<1>2. ~crossed =>
        /\ \A i, j \in DOMAIN granted :
             i < j => granted[j].at >= granted[i].at + Cycle - Skew
        /\ \A i \in DOMAIN granted : DaySum(DOMAIN granted, Day(granted[i].at)) <= DailyLimit
  BY <1>1 DEF GrantInv, Orderly, Frugal
<1> QED
  BY <1>2 DEF GrantInv, BannersOnce, GrantsPaced

\* Grants are a cycle apart and within the limit of their day, however the
\* claims overlap and whatever is cleaned up, unless a start overlapped another
\* call; and no click on a banner is ever paid for twice.
THEOREM GrantsArePaced == ASpec => []GrantsPaced
<1>1. AInit => GrantInv
  BY InitGrants
<1>2. GrantInv /\ [ANext]_aVars => GrantInv'
  BY NextGrants
<1>3. GrantInv => GrantsPaced
  BY GrantsImplied
<1> QED
  BY <1>1, <1>2, <1>3, PTL DEF ASpec

-----------------------------------------------------------------------------
(***************************************************************************)
(* The purchases and Auto Mining beside each other.  A step is one of the  *)
(* part that moves, and leaves the variables of the other alone.           *)
(***************************************************************************)
LEMMA MarketParts == TradeSpec => PSpec /\ ASpec
<1>1. TradeInit => PInit /\ AInit
  BY DEF TradeInit
<1>2. [TradeNext]_<<trade, pVars, aVars>> => [PNext]_pVars /\ [ANext]_aVars
  BY DEF TradeNext
<1> QED
  BY <1>1, <1>2, PTL DEF TradeSpec, PSpec, ASpec

\* The purchases and Auto Mining keep beside each other what each keeps alone:
\* offers sell within their stock, purchases are covered and grants are paced.
THEOREM MarketKept == TradeSpec => ImplementsStock /\ [](PurchasesCovered /\ GrantsPaced)
  BY MarketParts, SoldWithinStock, Covered, GrantsArePaced, PTL

=============================================================================
