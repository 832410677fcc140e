---------------------------- MODULE Goods_proofs ----------------------------
(***************************************************************************)
(* Proofs about Inventory, Catalogue, Storefront and AddressBook, and about *)
(* the module that MCGoods makes of them together with Restock and         *)
(* Receipts.  None of their properties is inductive: a request writes what *)
(* it found right when it read, so that each invariant says what a request *)
(* under way may still rely on (HasRead, Minded, Writable, Remembered).    *)
(* Where that takes one clerk, device or phone, because nothing else stops *)
(* a second one from writing in between, the theorem says so.              *)
(***************************************************************************)
EXTENDS MCGoods, Restock_proofs, Receipts_proofs, Sums
-----------------------------------------------------------------------------
(* Inventory: one product row *)

\* The goods taken back from a customer and not on the shelf yet.
Returners == {c \in ShelfClerks : clerk[c].op = "return" /\ clerk[c].count = 0}

Requests == [op : {"rest", "in", "adjust", "count", "edit", "receipt", "return", "pay"},
             mode : Modes \cup {"none"}, to : Modes \cup {"none"}, shelf : Int,
             count : Int, d : Deliveries \cup {"none"}]

\* A request has read the row that it is about to change.
HasRead(t) == /\ t.op = "pay" => t.mode \in Modes
              /\ t.op = "edit" => t.mode \in Modes /\ t.to \in Modes
              /\ t.op = "return" => t.count \in {0, 1}
              /\ t.op = "receipt" => t.d \in Deliveries

ShelfInv == /\ ShelfTypeOK
            /\ \A c \in ShelfClerks : HasRead(clerk[c])
            /\ IsFiniteSet(Returners)

\* What a request's own step does to the record of what it has read, and to
\* the number of goods on their way back.
Keeps(c, t) == clerk' = [clerk EXCEPT ![c] = t]
Back(t) == IF t.op = "return" /\ t.count = 0 THEN 1 ELSE 0

LEMMA RequestMoves ==
  ASSUME ShelfInv, NEW c \in ShelfClerks, NEW t \in Requests, HasRead(t), Keeps(c, t)
  PROVE  /\ clerk' \in [ShelfClerks -> Requests]
         /\ \A x \in ShelfClerks : HasRead(clerk[x])'
         /\ IsFiniteSet(Returners')
         /\ clerk'[c] = t
         /\ Returning \in Nat
         /\ Returning' = Returning - Back(clerk[c]) + Back(t)
<1>1. clerk' \in [ShelfClerks -> Requests] /\ clerk \in [ShelfClerks -> Requests]
  BY DEF ShelfInv, ShelfTypeOK, Requests, Keeps
<1>2. clerk'[c] = t /\ \A x \in ShelfClerks \ {c} : clerk'[x] = clerk[x]
  BY <1>1 DEF Keeps
<1>3. \A x \in ShelfClerks : HasRead(clerk[x])'
  BY <1>2 DEF HasRead, ShelfInv
<1>4. IsFiniteSet(Returners) /\ Cardinality(Returners) \in Nat
  BY FS_CardinalityType DEF ShelfInv
<1>5. Returning = Cardinality(Returners) /\ Returning' = Cardinality(Returners')
  BY DEF Returning, Returners
<1>6. CASE c \in Returners
  <2>1. Returners' = IF Back(t) = 1 THEN Returners ELSE Returners \ {c}
    BY <1>2, <1>6 DEF Returners, Back
  <2>2. IsFiniteSet(Returners \ {c}) /\ Cardinality(Returners \ {c}) = Cardinality(Returners) - 1
    BY <1>4, <1>6, FS_RemoveElement
  <2>3. Back(clerk[c]) = 1 /\ Back(t) \in {0, 1}
    BY <1>6 DEF Returners, Back
  <2>4. QED
    BY <1>1, <1>2, <1>3, <1>4, <1>5, <2>1, <2>2, <2>3
<1>7. CASE c \notin Returners
  <2>1. Returners' = IF Back(t) = 1 THEN Returners \cup {c} ELSE Returners
    BY <1>2, <1>7 DEF Returners, Back
  <2>2. IsFiniteSet(Returners \cup {c}) /\ Cardinality(Returners \cup {c}) = Cardinality(Returners) + 1
    BY <1>4, <1>7, FS_AddElement
  <2>3. Back(clerk[c]) = 0 /\ Back(t) \in {0, 1}
    BY <1>7 DEF Returners, Back
  <2>4. QED
    BY <1>1, <1>2, <1>3, <1>4, <1>5, <2>1, <2>2, <2>3
<1>8. QED
  BY <1>6, <1>7

LEMMA RestTyped == Resting \in Requests /\ HasRead(Resting) /\ Back(Resting) = 0
BY DEF Resting, Requests, HasRead, Back, Modes

\* Whoever reads the row leaves it as it is.
LEMMA ReadingMoves ==
  ASSUME ShelfInv, NEW c \in ShelfClerks, NEW t \in Requests, HasRead(t), t.op # "return", Reads(c, t)
  PROVE  ShelfInv' /\ UNCHANGED <<Returning, shelf, ledger, sold, mode, sources>>
<1>1. Keeps(c, t) /\ clerk[c] = Resting /\ UNCHANGED <<mode, shelf, ledger, sold, out, delivery, sources>>
  BY DEF Reads, Keeps
<1>2. Back(clerk[c]) = 0 /\ Back(t) = 0
  BY <1>1, RestTyped DEF Back
<1>3. Returning' = Returning
  BY <1>1, <1>2, RequestMoves
<1>4. ShelfInv'
  BY <1>1, RequestMoves DEF ShelfInv, ShelfTypeOK, Requests
<1>5. QED
  BY <1>1, <1>3, <1>4

\* Whoever writes the row is done with it.
LEMMA WritingMoves ==
  ASSUME ShelfInv, NEW c \in ShelfClerks, Over(c),
         mode' \in Modes \cup {"none"}, shelf' \in Int, ledger' \in Int,
         sold' \in [Modes -> Nat], out' \in Modes \cup {"none"},
         delivery' \in [Deliveries -> {"none", "ordered", "shipped", "received"}],
         sources' \subseteq {"HQ", "LOCAL"}
  PROVE  ShelfInv' /\ Returning \in Nat /\ Returning' = Returning - Back(clerk[c])
<1>1. Keeps(c, Resting)
  BY DEF Over, Keeps
<1>2. /\ clerk' \in [ShelfClerks -> Requests] /\ \A x \in ShelfClerks : HasRead(clerk[x])'
      /\ IsFiniteSet(Returners') /\ Returning \in Nat
      /\ Returning' = Returning - Back(clerk[c]) + Back(Resting)
  BY <1>1, RestTyped, RequestMoves
<1>3. Returning' = Returning - Back(clerk[c])
  BY <1>2, RestTyped DEF Back
<1>4. QED
  BY <1>2, <1>3 DEF ShelfInv, ShelfTypeOK, Requests

\* The requests that read the row, goods coming back apart.
Reading(c) == \/ StockInRead(c) \/ AdjustRead(c) \/ CountRead(c) \/ EditRead(c) \/ PayRead(c)
              \/ \E d \in Deliveries : ReceiptAtShelf(c, d)

LEMMA ReadersMove ==
  ASSUME ShelfInv, NEW c \in ShelfClerks, Reading(c)
  PROVE  ShelfInv' /\ UNCHANGED <<Returning, shelf, ledger, sold, mode, sources>>
<1> DEFINE Ready(t) == t \in Requests /\ HasRead(t) /\ t.op # "return"
           Fine(t) == Ready(t) /\ Reads(c, t)
<1>0. mode \in Modes \cup {"none"} /\ shelf \in Int
  BY DEF ShelfInv, ShelfTypeOK
<1>1. SUFFICES \E t : Fine(t)
  BY ReadingMoves
<1>2. CASE StockInRead(c)
  <2>1. Ready([Resting EXCEPT !.op = "in"])
    <3>1. [Resting EXCEPT !.op = "in"] \in Requests
      BY RestTyped DEF Requests, Modes
    <3>2. HasRead([Resting EXCEPT !.op = "in"])
          /\ [Resting EXCEPT !.op = "in"].op # "return"
      BY DEF Resting, HasRead, Modes
    <3>3. QED
      BY <3>1, <3>2
  <2>2. QED
    BY <1>2, <2>1 DEF StockInRead
<1>3. CASE AdjustRead(c)
  <2>1. PICK n \in {-1, 1} : Reads(c, [Resting EXCEPT !.op = "adjust", !.count = n])
    BY <1>3 DEF AdjustRead
  <2>2. Ready([Resting EXCEPT !.op = "adjust", !.count = n])
    <3>0. n \in Int
      OBVIOUS
    <3>1. [Resting EXCEPT !.op = "adjust", !.count = n] \in Requests
      BY <3>0, RestTyped DEF Requests
    <3>2. HasRead([Resting EXCEPT !.op = "adjust", !.count = n])
          /\ [Resting EXCEPT !.op = "adjust", !.count = n].op # "return"
      BY DEF Resting, HasRead, Modes
    <3>3. QED
      BY <3>1, <3>2
  <2>3. QED
    BY <2>1, <2>2
<1>4. CASE CountRead(c)
  <2>1. PICK n \in 0..ShelfLimit : Reads(c, [Resting EXCEPT !.op = "count", !.shelf = shelf, !.count = n])
    BY <1>4 DEF CountRead
  <2>2. Ready([Resting EXCEPT !.op = "count", !.shelf = shelf, !.count = n])
    <3>0. n \in Int
      BY ShelfLimitAssumption
    <3>1. [Resting EXCEPT !.op = "count", !.shelf = shelf, !.count = n] \in Requests
      BY <1>0, <3>0, RestTyped DEF Requests
    <3>2. HasRead([Resting EXCEPT !.op = "count", !.shelf = shelf, !.count = n])
          /\ [Resting EXCEPT !.op = "count", !.shelf = shelf, !.count = n].op # "return"
      BY <1>0, ShelfLimitAssumption DEF Resting, HasRead, Modes
    <3>3. QED
      BY <3>1, <3>2
  <2>3. QED
    BY <2>1, <2>2
<1>5. CASE EditRead(c)
  <2>1. PICK to \in Modes \ {"unset"} :
          Reads(c, [Resting EXCEPT !.op = "edit", !.mode = mode, !.to = to, !.shelf = shelf])
    BY <1>5 DEF EditRead
  <2>2. mode # "none"
    BY <2>1 DEF Reads
  <2>3. Ready([Resting EXCEPT !.op = "edit", !.mode = mode, !.to = to, !.shelf = shelf])
    <3>1. [Resting EXCEPT !.op = "edit", !.mode = mode, !.to = to, !.shelf = shelf] \in Requests
      BY <1>0, <2>2, RestTyped DEF Requests, Modes
    <3>2. HasRead([Resting EXCEPT !.op = "edit", !.mode = mode, !.to = to, !.shelf = shelf])
          /\ [Resting EXCEPT !.op = "edit", !.mode = mode, !.to = to, !.shelf = shelf].op # "return"
      BY <1>0, <2>2 DEF Resting, HasRead, Modes
    <3>3. QED
      BY <3>1, <3>2
  <2>4. QED
    BY <2>1, <2>3
<1>6. CASE PayRead(c)
  <2>1. mode # "none"
    BY <1>6 DEF PayRead, Reads
  <2>2. Ready([Resting EXCEPT !.op = "pay", !.mode = mode])
    <3>1. [Resting EXCEPT !.op = "pay", !.mode = mode] \in Requests
      BY <1>0, <2>1, RestTyped DEF Requests, Modes
    <3>2. HasRead([Resting EXCEPT !.op = "pay", !.mode = mode])
          /\ [Resting EXCEPT !.op = "pay", !.mode = mode].op # "return"
      BY <1>0, <2>1 DEF Resting, HasRead, Modes
    <3>3. QED
      BY <3>1, <3>2
  <2>3. QED
    BY <1>6, <2>2 DEF PayRead
<1>7. ASSUME NEW d \in Deliveries, ReceiptAtShelf(c, d) PROVE \E t : Fine(t)
  <2>1. Ready([Resting EXCEPT !.op = "receipt", !.d = d])
    <3>1. [Resting EXCEPT !.op = "receipt", !.d = d] \in Requests
      BY RestTyped DEF Requests, Modes
    <3>2. HasRead([Resting EXCEPT !.op = "receipt", !.d = d])
          /\ [Resting EXCEPT !.op = "receipt", !.d = d].op # "return"
      BY DEF Resting, HasRead, Modes
    <3>3. QED
      BY <3>1, <3>2
  <2>2. QED
    BY <1>7, <2>1 DEF ReceiptAtShelf
<1>8. QED
  BY <1>2, <1>3, <1>4, <1>5, <1>6, <1>7 DEF Reading

\* The steps that write the row: they keep the types, and leave Unexplained as
\* it is but for what LedgerExplainsMoves names.
Excused(c) == \/ clerk[c].op = "count"
              \/ /\ clerk[c].op = "return"
                 /\ clerk[c].count = 1 \/ clerk[c].to \notin {"unset", clerk[c].mode}

Writing(c) == \/ StockIn(c) \/ Adjust(c) \/ Stocktake(c) \/ Edit(c) \/ Receipt(c) \/ Pay(c) \/ Return(c)

LEMMA WritersMove ==
  ASSUME ShelfInv, NEW c \in ShelfClerks, Writing(c)
  PROVE  /\ ShelfInv'
         /\ Over(c)
         /\ "stock" \in Echo \/ Excused(c) \/ Unexplained' = Unexplained
<1> USE DEF Unexplained, UnitsSold
<1> DEFINE t == clerk[c]
           Goal == /\ ShelfInv' /\ Over(c)
                   /\ "stock" \in Echo \/ Excused(c) \/ Unexplained' = Unexplained
<1>0. /\ t \in Requests /\ HasRead(t)
      /\ mode \in Modes \cup {"none"} /\ shelf \in Int /\ ledger \in Int
      /\ sold \in [Modes -> Nat] /\ out \in Modes \cup {"none"}
      /\ delivery \in [Deliveries -> {"none", "ordered", "shipped", "received"}]
      /\ sources \subseteq {"HQ", "LOCAL"}
  BY DEF ShelfInv, ShelfTypeOK, Requests
<1>a. sold["unset"] \in Nat /\ sold["HQ"] \in Nat /\ sold["LOCAL"] \in Nat
  BY <1>0 DEF Modes
<1>1. CASE Gives(c) /\ t.op # "return"
  <2>1. ShelfInv' /\ Returning' = Returning - Back(t) /\ Returning \in Nat
    BY <1>0, <1>1, WritingMoves DEF Gives
  <2>2. Back(t) = 0
    BY <1>1 DEF Back
  <2>3. QED
    BY <1>0, <1>a, <1>1, <2>1, <2>2 DEF Gives
<1>2. CASE StockIn(c) /\ ~Gives(c)
  <2>1. /\ t.op = "in" /\ shelf' = shelf + 1 /\ ledger' = ledger + 1 /\ Over(c)
        /\ sources' = sources \cup {"LOCAL"} /\ UNCHANGED <<mode, sold, out, delivery>>
    BY <1>2 DEF StockIn
  <2>2. ShelfInv' /\ Returning' = Returning - Back(t) /\ Returning \in Nat
    BY <1>0, <2>1, WritingMoves
  <2>3. Back(t) = 0
    BY <2>1 DEF Back
  <2>4. QED
    BY <1>0, <1>a, <2>1, <2>2, <2>3
<1>3. CASE Adjust(c)
  <2>1. /\ t.op = "adjust" /\ shelf' = shelf + t.count /\ ledger' = ledger + t.count /\ Over(c)
        /\ UNCHANGED <<mode, sold, out, delivery, sources>>
    BY <1>3 DEF Adjust, Entry
  <2>2. t.count \in Int
    BY <1>0 DEF Requests
  <2>3. ShelfInv' /\ Returning' = Returning - Back(t) /\ Returning \in Nat
    BY <1>0, <2>1, <2>2, WritingMoves
  <2>4. Back(t) = 0
    BY <2>1 DEF Back
  <2>5. QED
    BY <1>0, <1>a, <2>1, <2>2, <2>3, <2>4
<1>4. CASE Stocktake(c)
  <2>1. /\ t.op = "count" /\ shelf' = t.count /\ ledger' = ledger + t.count - t.shelf /\ Over(c)
        /\ UNCHANGED <<mode, sold, out, delivery, sources>>
    BY <1>4 DEF Stocktake
  <2>2. t.count \in Int /\ t.shelf \in Int
    BY <1>0 DEF Requests
  <2>3. QED
    BY <1>0, <2>1, <2>2, WritingMoves DEF Excused
<1>5. CASE Edit(c) /\ ~Gives(c)
  <2>1. /\ t.op = "edit" /\ Over(c) /\ mode' \in {t.to, mode}
        /\ shelf' = IF "stock" \in Echo THEN t.shelf ELSE shelf
        /\ sources' \in {{}, sources}
        /\ UNCHANGED <<ledger, sold, out, delivery>>
    BY <1>5 DEF Edit
  <2>2. t.to \in Modes /\ t.shelf \in Int
    BY <1>0, <2>1 DEF Requests, HasRead
  <2>3. ShelfInv' /\ Returning' = Returning - Back(t) /\ Returning \in Nat
    BY <1>0, <2>1, <2>2, WritingMoves
  <2>4. Back(t) = 0
    BY <2>1 DEF Back
  <2>5. QED
    BY <1>0, <1>a, <2>1, <2>3, <2>4
<1>6. CASE Receipt(c) /\ ~Gives(c)
  <2>1. /\ t.op = "receipt" /\ Over(c) /\ mode' = "HQ" /\ shelf' = shelf + 1 /\ ledger' = ledger + 1
        /\ sources' = sources \cup {"HQ"}
        /\ delivery' = [delivery EXCEPT ![t.d] = "received"] /\ UNCHANGED <<sold, out>>
    BY <1>6 DEF Receipt
  <2>2. delivery' \in [Deliveries -> {"none", "ordered", "shipped", "received"}]
    BY <1>0, <2>1
  <2>3. mode' \in Modes \cup {"none"} /\ sources' \subseteq {"HQ", "LOCAL"}
    BY <1>0, <2>1 DEF Modes
  <2>4. ShelfInv' /\ Returning' = Returning - Back(t) /\ Returning \in Nat
    BY <1>0, <2>1, <2>2, <2>3, WritingMoves
  <2>5. Back(t) = 0
    BY <2>1 DEF Back
  <2>6. QED
    BY <1>0, <1>a, <2>1, <2>4, <2>5
<1>7. CASE Pay(c) /\ ~Gives(c)
  <2>1. /\ t.op = "pay" /\ Over(c) /\ shelf' = shelf - 1
        /\ sold' = [sold EXCEPT ![t.mode] = @ + 1]
        /\ UNCHANGED <<mode, ledger, out, delivery, sources>>
    BY <1>7 DEF Pay
  <2>2. t.mode \in Modes
    BY <1>0, <2>1 DEF HasRead
  <2>3. sold' \in [Modes -> Nat] /\ UnitsSold' = UnitsSold + 1
    BY <1>0, <1>a, <2>1, <2>2 DEF Modes
  <2>4. ShelfInv' /\ Returning' = Returning - Back(t) /\ Returning \in Nat
    BY <1>0, <2>1, <2>3, WritingMoves
  <2>5. Back(t) = 0
    BY <2>1 DEF Back
  <2>6. QED
    BY <1>0, <1>a, <2>1, <2>3, <2>4, <2>5
<1>8. CASE Return(c)
  <2>1. /\ t.op = "return" /\ Over(c)
        /\ shelf' = IF t.to \in {"unset", t.mode} THEN shelf + 1 ELSE shelf
        /\ UNCHANGED <<mode, sold, ledger, delivery, sources, out>>
    BY <1>8 DEF Return
  <2>2. ShelfInv' /\ Returning' = Returning - Back(t) /\ Returning \in Nat
    BY <1>0, <2>1, WritingMoves
  <2>3. CASE t.count = 1
    BY <2>1, <2>2, <2>3 DEF Excused
  <2>4. CASE t.count = 0 /\ t.to \in {"unset", t.mode}
    <3>1. Back(t) = 1 /\ shelf' = shelf + 1
      BY <2>1, <2>4 DEF Back
    <3>2. QED
      BY <1>0, <1>a, <2>1, <2>2, <3>1
  <2>5. CASE t.to \notin {"unset", t.mode}
    BY <2>1, <2>2, <2>5 DEF Excused
  <2>6. t.count \in {0, 1}
    BY <1>0, <2>1 DEF HasRead
  <2>7. QED
    BY <2>3, <2>4, <2>5, <2>6
<1>9. QED
  BY <1>1, <1>2, <1>3, <1>4, <1>5, <1>6, <1>7, <1>8 DEF Writing, StockIn, Edit, Receipt, Pay

\* Goods come back: out of what was sold, or out of what was booked out.
LEMMA ReturnersMove ==
  ASSUME ShelfInv, NEW c \in ShelfClerks, NEW m \in Modes, ReturnRead(c, m)
  PROVE  ShelfInv' /\ Unexplained' = Unexplained /\ UNCHANGED <<mode, sources>>
<1> DEFINE t == [Resting EXCEPT !.op = "return", !.mode = mode, !.to = m,
                                !.count = IF out' = out THEN 0 ELSE 1]
<1>0. /\ mode \in Modes \cup {"none"} /\ shelf \in Int /\ ledger \in Int
      /\ sold \in [Modes -> Nat] /\ out \in Modes \cup {"none"}
      /\ sold["unset"] \in Nat /\ sold["HQ"] \in Nat /\ sold["LOCAL"] \in Nat
  BY DEF ShelfInv, ShelfTypeOK, Modes
<1>1. clerk[c] = Resting /\ Keeps(c, t) /\ UNCHANGED <<mode, shelf, ledger, delivery, sources>>
  BY DEF ReturnRead, Keeps
<1>2. t \in Requests
  <2> DEFINE n == IF out' = out THEN 0 ELSE 1
  <2>1. n \in Int
    OBVIOUS
  <2> HIDE DEF n
  <2>2. [Resting EXCEPT !.op = "return", !.mode = mode, !.to = m, !.count = n] \in Requests
    BY <1>0, <2>1, RestTyped DEF Requests
  <2>3. QED
    BY <2>2 DEF n
<1>3. HasRead(t) /\ t.op = "return" /\ t.count = IF out' = out THEN 0 ELSE 1
  BY DEF Resting, HasRead
<1> HIDE DEF t
<1>4. /\ clerk' \in [ShelfClerks -> Requests] /\ \A x \in ShelfClerks : HasRead(clerk[x])'
      /\ IsFiniteSet(Returners') /\ Returning \in Nat
      /\ Returning' = Returning - Back(clerk[c]) + Back(t)
  BY <1>1, <1>2, <1>3, RequestMoves
<1>5. Back(clerk[c]) = 0
  BY <1>1, RestTyped
<1>6. CASE sold[m] > 0 /\ sold' = [sold EXCEPT ![m] = @ - 1] /\ UNCHANGED out
  <2>1. Back(t) = 1
    BY <1>3, <1>6 DEF Back
  <2>2. sold' \in [Modes -> Nat] /\ UnitsSold' = UnitsSold - 1 /\ UnitsSold \in Nat
    BY <1>0, <1>6 DEF Modes, UnitsSold
  <2>3. Unexplained' = Unexplained
    BY <1>0, <1>1, <1>4, <1>5, <2>1, <2>2 DEF Unexplained
  <2>4. QED
    BY <1>1, <1>4, <1>6, <2>2, <2>3 DEF ShelfInv, ShelfTypeOK, Requests
<1>7. CASE out = m /\ out' = "none" /\ UNCHANGED sold
  <2>1. Back(t) = 0
    BY <1>3, <1>7 DEF Back, Modes
  <2>2. UnitsSold \in Nat /\ UnitsSold' = UnitsSold
    BY <1>0, <1>7 DEF UnitsSold
  <2>3. Unexplained' = Unexplained
    BY <1>0, <1>1, <1>4, <1>5, <2>1, <2>2 DEF Unexplained
  <2>4. QED
    BY <1>0, <1>1, <1>4, <1>7, <2>3 DEF ShelfInv, ShelfTypeOK, Requests
<1>8. QED
  BY <1>6, <1>7 DEF ReturnRead

\* Every step of the row.
LEMMA ShelfStep ==
  ASSUME ShelfInv, [ShelfNext]_shelfVars
  PROVE  /\ ShelfInv'
         /\ \/ "stock" \in Echo \/ mode = "none"
            \/ \E c \in ShelfClerks : Over(c) /\ Excused(c)
            \/ Unexplained' = Unexplained
<1> DEFINE Goal == /\ ShelfInv'
                   /\ \/ "stock" \in Echo \/ mode = "none"
                      \/ \E c \in ShelfClerks : Over(c) /\ Excused(c)
                      \/ Unexplained' = Unexplained
<1> USE DEF ShelfInv, ShelfTypeOK
<1>1. CASE UNCHANGED shelfVars
  BY <1>1 DEF shelfVars, Returners, HasRead, Unexplained, UnitsSold, Returning
<1>2. CASE CreateProduct \/ ImportProduct
  <2>1. UNCHANGED <<clerk, ledger, sold, out, delivery>> /\ mode = "none" /\ mode' \in Modes
    BY <1>2 DEF CreateProduct, ImportProduct, Modes
  <2>2. shelf' \in Int /\ sources' \subseteq {"HQ", "LOCAL"}
    <3>1. CASE CreateProduct
      <4>1. shelf' \in 0..1 /\ sources' \in {{}, {"LOCAL"}}
        BY <3>1 DEF CreateProduct
      <4>2. QED
        BY <4>1
    <3>2. CASE ImportProduct
      BY <3>2 DEF ImportProduct
    <3>3. QED
      BY <1>2, <3>1, <3>2
  <2>3. QED
    BY <2>1, <2>2 DEF Returners, HasRead
<1>3. ASSUME NEW d \in Deliveries, Order(d) \/ Ship(d) PROVE Goal
  <2>1. UNCHANGED <<mode, shelf, ledger, sold, out, sources, clerk>>
    BY <1>3 DEF Order, Ship
  <2>2. delivery' \in [Deliveries -> {"none", "ordered", "shipped", "received"}]
    BY <1>3 DEF Order, Ship
  <2>3. QED
    BY <2>1, <2>2 DEF Returners, HasRead, Unexplained, UnitsSold, Returning
<1>4. ASSUME NEW m \in Modes, BookOut(m) PROVE Goal
  <2>1. sold[m] > 0 /\ sold' = [sold EXCEPT ![m] = @ - 1] /\ ledger' = ledger - 1
    BY <1>4 DEF BookOut, Bookable
  <2>2. sold["unset"] \in Nat /\ sold["HQ"] \in Nat /\ sold["LOCAL"] \in Nat
    BY DEF Modes
  <2>3. sold' \in [Modes -> Nat] /\ UnitsSold' = UnitsSold - 1 /\ UnitsSold \in Nat
    BY <2>1, <2>2 DEF Modes, UnitsSold
  <2>4. Returning' = Returning /\ Returning \in Nat
    BY <1>4, FS_CardinalityType DEF BookOut, Returning, Returners
  <2>5. Unexplained' = Unexplained
    BY <1>4, <2>1, <2>3, <2>4 DEF Unexplained, BookOut
  <2>6. ShelfInv'
    BY <1>4, <2>1, <2>3 DEF BookOut, Returners, HasRead
  <2>7. QED
    BY <2>5, <2>6
<1> HIDE DEF ShelfInv, ShelfTypeOK
<1>5. ASSUME NEW c \in ShelfClerks, ShelfDesk(c) PROVE Goal
  <2>1. CASE Reading(c)
    BY <2>1, ReadersMove DEF Unexplained, UnitsSold
  <2>2. CASE Writing(c)
    BY <2>2, WritersMove
  <2>3. ASSUME NEW m \in Modes, ReturnRead(c, m) PROVE Goal
    BY <2>3, ReturnersMove
  <2>4. QED
    BY <1>5, <2>1, <2>2, <2>3 DEF ShelfDesk, Reading, Writing
<1>6. QED
  BY <1>1, <1>2, <1>3, <1>4, <1>5 DEF ShelfNext

LEMMA ShelfBegins == ShelfInit => ShelfInv /\ OneSource
<1> SUFFICES ASSUME ShelfInit PROVE ShelfInv /\ OneSource
  OBVIOUS
<1>1. Returners = {} /\ \A c \in ShelfClerks : HasRead(clerk[c])
  BY DEF ShelfInit, Returners, Resting, HasRead
<1>2. clerk \in [ShelfClerks -> Requests]
  BY RestTyped DEF ShelfInit
<1>3. mode \in Modes \cup {"none"} /\ shelf \in Int
  BY DEF ShelfInit, Modes
<1>4. ShelfTypeOK
  BY <1>2, <1>3 DEF ShelfInit, ShelfTypeOK, Requests
<1>5. QED
  BY <1>1, <1>4, FS_EmptySet DEF ShelfInit, ShelfInv, OneSource

\* A product form that does not send the source back with its other fields.
LEMMA SourceStep ==
  ASSUME ShelfInv, OneSource, "mode" \notin Echo, [ShelfNext]_shelfVars
  PROVE  OneSource'
<1> USE DEF OneSource
<1>1. CASE UNCHANGED <<mode, sources>>
  BY <1>1
<1>2. CASE CreateProduct \/ ImportProduct
  <2>1. CASE CreateProduct
    <3>1. mode' = "LOCAL" /\ sources' \in {{}, {"LOCAL"}}
      BY <2>1 DEF CreateProduct
    <3>2. QED
      BY <3>1
  <2>2. CASE ImportProduct
    <3>1. mode = "none" /\ sources \subseteq {"HQ", "LOCAL"}
      BY <2>2 DEF ImportProduct, ShelfInv, ShelfTypeOK
    <3>2. sources = {} /\ sources' = sources
      BY <2>2, <3>1 DEF ImportProduct
    <3>3. QED
      BY <3>2
  <2>3. QED
    BY <1>2, <2>1, <2>2
<1>3. ASSUME NEW c \in ShelfClerks, Writing(c) PROVE OneSource'
  <2>1. CASE StockIn(c)
    BY <1>1, <2>1 DEF StockIn, TakesLocal, Gives
  <2>2. CASE Edit(c)
    <3>1. CASE clerk[c].to = clerk[c].mode
      BY <1>1, <2>2, <3>1 DEF Edit
    <3>2. CASE clerk[c].to # clerk[c].mode /\ Switchable(clerk[c])
      <4>1. mode' = clerk[c].to /\ sources' = IF mode' # mode /\ shelf <= 0 THEN {} ELSE sources
        BY <2>2, <3>2 DEF Edit
      <4>2. mode' # mode /\ (mode = "unset" \/ shelf = 0)
        BY <3>2, <4>1 DEF Switchable
      <4>3. mode = "unset" => sources = {}
        BY DEF ShelfInv, ShelfTypeOK
      <4>4. QED
        BY <4>1, <4>2, <4>3
    <3>3. QED
      BY <1>1, <2>2, <3>1, <3>2 DEF Edit, Gives
  <2>3. CASE Receipt(c)
    <3>1. CASE TakesHq
      BY <2>3, <3>1 DEF Receipt, TakesHq, ShelfInv, ShelfTypeOK
    <3>2. CASE ~TakesHq
      BY <1>1, <2>3, <3>2 DEF Receipt, Gives
    <3>3. QED
      BY <3>1, <3>2
  <2>4. CASE Adjust(c) \/ Stocktake(c) \/ Pay(c) \/ Return(c)
    BY <1>1, <2>4 DEF Adjust, Stocktake, Pay, Return, Gives
  <2>5. QED
    BY <1>3, <2>1, <2>2, <2>3, <2>4 DEF Writing
<1>4. ASSUME NEW c \in ShelfClerks, ShelfDesk(c), ~Writing(c) PROVE UNCHANGED <<mode, sources>>
  BY <1>4, ReadersMove, ReturnersMove DEF ShelfDesk, Reading, Writing
<1>5. ASSUME \/ \E d \in Deliveries : Order(d) \/ Ship(d)
             \/ \E m \in Modes : BookOut(m)
             \/ UNCHANGED shelfVars
      PROVE  UNCHANGED <<mode, sources>>
  BY <1>5 DEF Order, Ship, BookOut, shelfVars
<1>6. ASSUME NEW c \in ShelfClerks, ShelfDesk(c) PROVE OneSource'
  BY <1>1, <1>3, <1>4, <1>6
<1> HIDE DEF OneSource
<1>7. QED
  BY <1>1, <1>2, <1>5, <1>6 DEF ShelfNext

LEMMA ShelfTyped == ShelfSpec => []ShelfInv
BY ShelfBegins, ShelfStep, PTL DEF ShelfSpec

\* The goods bought for a shelf are all of the source that its row names, for
\* any number of clerks and deliveries, whatever they read before the row was
\* switched, provided that a product form does not send the source it was
\* opened with back with its other fields.
THEOREM GoodsOfOneSource == "mode" \notin Echo /\ ShelfSpec => []OneSource
<1>1. ShelfInit => OneSource
  BY ShelfBegins
<1>2. ASSUME "mode" \notin Echo
      PROVE  ShelfInv /\ OneSource /\ [ShelfNext]_shelfVars => OneSource'
  BY <1>2, SourceStep
<1>3. ASSUME "mode" \notin Echo PROVE ShelfSpec => []OneSource
  BY <1>1, <1>2, <1>3, ShelfTyped, PTL DEF ShelfSpec
<1>4. QED
  BY <1>3

\* Whatever moves the stock is in the ledger, or will be when the goods are
\* booked out, but for the four cases that the property names; provided that a
\* product form does not send the stock back that it was opened with.
THEOREM LedgerExplains == "stock" \notin Echo /\ ShelfSpec => LedgerExplainsMoves
<1>1. ASSUME "stock" \notin Echo, ShelfInv, [ShelfNext]_shelfVars, Unexplained' # Unexplained
      PROVE  \/ mode = "none"
             \/ \E c \in ShelfClerks :
                  /\ clerk'[c] = Resting
                  /\ \/ clerk[c].op = "count"
                     \/ clerk[c].op = "return"
                        /\ (clerk[c].count = 1 \/ clerk[c].to \notin {"unset", clerk[c].mode})
  <2>1. mode = "none" \/ \E c \in ShelfClerks : Over(c) /\ Excused(c)
    BY <1>1, ShelfStep
  <2>2. ASSUME NEW c \in ShelfClerks, Over(c) PROVE clerk'[c] = Resting
    BY <1>1, <2>2 DEF Over, ShelfInv, ShelfTypeOK
  <2>3. QED
    BY <2>1, <2>2 DEF Excused
<1>2. ASSUME "stock" \notin Echo PROVE ShelfSpec => LedgerExplainsMoves
  BY <1>1, <1>2, ShelfTyped, PTL DEF ShelfSpec, LedgerExplainsMoves
<1>3. QED
  BY <1>2
-----------------------------------------------------------------------------
(* Catalogue: categories, copies and promotions of a campus                *)

\* What the clerk's request has looked at is still so when it writes.
Minded(w) ==
  /\ w.pc = "name" => /\ w.row \in Categories /\ w.name \in Names
                      /\ \A k \in Categories : category[k] = w.name => k = w.row
  /\ w.pc = "remove" => w.row \in Categories
  /\ w.pc \in {"remap", "import"} => NotImported
  /\ w.pc = "import" => w.row \in Categories
  /\ w.pc = "promote" => /\ w.row \in Promotions /\ w.promo.status # "absent"
                         /\ w.promo.status = "active" => WindowFree(w.row, w.promo)

SoleCopy == \A p, q \in Copies : copy[p] # "none" /\ copy[q] # "none" => p = q
SoleName == \A j, k \in Categories : category[j] # "none" /\ category[j] = category[k] => j = k
Referred == \A p \in Copies : copy[p] # "none" => category[copy[p]] # "none"
SolePromo == \A m, q \in Promotions :
               promo[m].status = "active" /\ promo[q].status = "active" /\ Overlap(promo[m], promo[q]) => m = q
Unmade == \A m \in Promotions : promo[m].status = "absent" => promo[m] = NoPromo

CatalogueInv == /\ CatalogueTypeOK
                /\ SoleCopy /\ SoleName /\ Referred /\ SolePromo /\ Unmade
                /\ \A e \in Editors : Minded(editor[e])

Desk == [pc : {"idle", "name", "remove", "remap", "import", "promote"},
         row : Categories \cup Promotions \cup {"none"},
         name : Names \cup {"none"}, promo : PromoRows]

LEMMA OffDutyIsADesk == OffDuty \in Desk /\ OffDuty.pc = "idle" /\ NoPromo \in PromoRows /\ NoPromo.status = "absent"
BY CatalogueAssumption DEF OffDuty, Desk, NoPromo, PromoRows

LEMMA CatalogueBegins == CatalogueInit => CatalogueInv
<1> SUFFICES ASSUME CatalogueInit PROVE CatalogueInv
  OBVIOUS
<1>1. /\ category = [k \in Categories |-> "none"] /\ catalogued = "absent"
      /\ copy = [p \in Copies |-> "none"] /\ promo = [m \in Promotions |-> NoPromo]
      /\ now = 0 /\ editor = [e \in Editors |-> OffDuty]
  BY DEF CatalogueInit
<1>2. CatalogueTypeOK
  BY <1>1, OffDutyIsADesk, CatalogueAssumption DEF CatalogueTypeOK, Desk
<1>3. SoleCopy /\ SoleName /\ Referred
  BY <1>1 DEF SoleCopy, SoleName, Referred
<1>4. SolePromo /\ Unmade
  BY <1>1, OffDutyIsADesk DEF SolePromo, Unmade
<1>5. \A e \in Editors : Minded(editor[e])
  BY <1>1, OffDutyIsADesk DEF Minded
<1>6. QED
  BY <1>2, <1>3, <1>4, <1>5 DEF CatalogueInv

\* A request begins or goes on: the only one there is.
LEMMA EditorMoves ==
  ASSUME CatalogueInv, \A d, e \in Editors : d = e, NEW e \in Editors, NEW w \in Desk,
         editor' = [editor EXCEPT ![e] = w], UNCHANGED <<category, catalogued, copy, promo, now>>, Minded(w)
  PROVE  CatalogueInv'
<1>1. editor' \in [Editors -> Desk] /\ \A d \in Editors : editor'[d] = w
  BY DEF CatalogueInv, CatalogueTypeOK, Desk
<1>2. CatalogueTypeOK'
  BY <1>1 DEF CatalogueInv, CatalogueTypeOK, Desk
<1>3. SoleCopy' /\ SoleName' /\ Referred'
  BY DEF CatalogueInv, SoleCopy, SoleName, Referred
<1>4. SolePromo' /\ Unmade'
  BY DEF CatalogueInv, SolePromo, Unmade, Overlap
<1>5. \A d \in Editors : Minded(editor[d])'
  BY <1>1 DEF Minded, NotImported, WindowFree, Overlap
<1>6. QED
  BY <1>2, <1>3, <1>4, <1>5 DEF CatalogueInv

\* A request has written and is over.
LEMMA EditorRises ==
  ASSUME CatalogueInv, \A d, e \in Editors : d = e, NEW e \in Editors, Rise(e)
  PROVE  editor' \in [Editors -> Desk] /\ \A d \in Editors : Minded(editor[d])'
<1>1. editor' \in [Editors -> Desk] /\ \A d \in Editors : editor'[d] = OffDuty
  BY OffDutyIsADesk DEF CatalogueInv, CatalogueTypeOK, Desk, Rise
<1>2. QED
  BY <1>1, OffDutyIsADesk DEF Minded

LEMMA CategoryStep ==
  ASSUME CatalogueInv, \A d, e \in Editors : d = e, NEW e \in Editors,
         \/ NameWrite(e) \/ RemovalWrite(e) \/ ImportRead(e) \/ RemapCategory(e) \/ ImportWrite(e)
         \/ \E k \in Categories : RemovalCheck(e, k) \/ \E n \in Names : NameCheck(e, k, n)
  PROVE  CatalogueInv'
<1> DEFINE w == editor[e]
<1>0. /\ category \in [Categories -> Names \cup {"none"}]
      /\ catalogued \in {"absent", "off-sale", "on-sale"}
      /\ copy \in [Copies -> Categories \cup {"none"}]
      /\ promo \in [Promotions -> PromoRows] /\ now \in Instants
      /\ editor \in [Editors -> Desk] /\ w \in Desk /\ Minded(w)
      /\ SoleCopy /\ SoleName /\ Referred /\ SolePromo /\ Unmade
  BY DEF CatalogueInv, CatalogueTypeOK, Desk
<1>a. "none" \notin Categories /\ "none" \notin Names /\ "none" \notin Copies /\ Template \in Names
  BY CatalogueAssumption
<1>1. ASSUME NEW k \in Categories, NEW n \in Names, NameCheck(e, k, n) PROVE CatalogueInv'
  <2> DEFINE v == [OffDuty EXCEPT !.pc = "name", !.row = k, !.name = n]
  <2>1. v \in Desk /\ v.pc = "name" /\ v.row = k /\ v.name = n
    BY OffDutyIsADesk DEF Desk
  <2> HIDE DEF v
  <2>2. editor' = [editor EXCEPT ![e] = v] /\ UNCHANGED <<category, catalogued, copy, promo, now>>
        /\ Named(n) \ {k} = {}
    BY <1>1 DEF NameCheck, Sit, v
  <2>3. Minded(v)
    BY <2>1, <2>2 DEF Minded, Named
  <2>4. QED
    BY <2>1, <2>2, <2>3, EditorMoves
<1>2. ASSUME NEW k \in Categories, RemovalCheck(e, k) PROVE CatalogueInv'
  <2> DEFINE v == [OffDuty EXCEPT !.pc = "remove", !.row = k]
  <2>1. v \in Desk /\ v.pc = "remove" /\ v.row = k
    BY OffDutyIsADesk DEF Desk
  <2> HIDE DEF v
  <2>2. editor' = [editor EXCEPT ![e] = v] /\ UNCHANGED <<category, catalogued, copy, promo, now>>
    BY <1>2 DEF RemovalCheck, Sit, v
  <2>3. Minded(v)
    BY <2>1 DEF Minded
  <2>4. QED
    BY <2>1, <2>2, <2>3, EditorMoves
<1>3. CASE ImportRead(e)
  <2> DEFINE v == [OffDuty EXCEPT !.pc = "remap"]
  <2>1. v \in Desk /\ v.pc = "remap"
    BY OffDutyIsADesk DEF Desk
  <2> HIDE DEF v
  <2>2. editor' = [editor EXCEPT ![e] = v] /\ UNCHANGED <<category, catalogued, copy, promo, now>> /\ NotImported
    BY <1>3 DEF ImportRead, Sit, v
  <2>3. Minded(v)
    BY <2>1, <2>2 DEF Minded
  <2>4. QED
    BY <2>1, <2>2, <2>3, EditorMoves
\* No other category has the name that is written.
<1>4. CASE NameWrite(e)
  <2>1. /\ w.row \in Categories /\ w.name \in Names /\ \A k \in Categories : category[k] = w.name => k = w.row
        /\ category' = [category EXCEPT ![w.row] = w.name] /\ UNCHANGED <<catalogued, copy, promo, now>>
        /\ Rise(e)
    BY <1>0, <1>4 DEF NameWrite, Minded, Named
  <2>2. category' \in [Categories -> Names \cup {"none"}] /\ SoleName'
    BY <1>0, <2>1 DEF SoleName
  <2>3. Referred'
    BY <1>0, <1>a, <2>1 DEF Referred
  <2>4. SoleCopy' /\ SolePromo' /\ Unmade'
    BY <1>0, <2>1 DEF SoleCopy, SolePromo, Unmade, Overlap
  <2>5. QED
    BY <1>0, <2>1, <2>2, <2>3, <2>4, EditorRises DEF CatalogueInv, CatalogueTypeOK, Desk
<1>5. CASE RemovalWrite(e)
  <2>1. /\ w.row \in Categories /\ UNCHANGED <<catalogued, copy, promo, now>> /\ Rise(e)
        /\ category' = IF Used(w.row) THEN category ELSE [category EXCEPT ![w.row] = "none"]
    BY <1>0, <1>5 DEF RemovalWrite, Minded
  <2>2. category' \in [Categories -> Names \cup {"none"}] /\ SoleName'
    BY <1>0, <2>1 DEF SoleName
  <2>3. Referred'
    BY <1>0, <2>1 DEF Referred, Used
  <2>4. SoleCopy' /\ SolePromo' /\ Unmade'
    BY <1>0, <2>1 DEF SoleCopy, SolePromo, Unmade, Overlap
  <2>5. QED
    BY <1>0, <2>1, <2>2, <2>3, <2>4, EditorRises DEF CatalogueInv, CatalogueTypeOK, Desk
\* The category of the template's name is the one there is, or a new one.
<1>6. CASE RemapCategory(e)
  <2>1. PICK k \in Categories :
          /\ RemapTo(k) /\ category' = [category EXCEPT ![k] = Template]
          /\ editor' = [editor EXCEPT ![e].pc = "import", ![e].row = k]
    BY <1>6 DEF RemapCategory
  <2>2. w.pc = "remap" /\ UNCHANGED <<catalogued, copy, promo, now>> /\ NotImported
    BY <1>0, <1>6 DEF RemapCategory, Minded
  <2> DEFINE v == [w EXCEPT !.pc = "import", !.row = k]
  <2>3. v \in Desk /\ v.pc = "import" /\ v.row = k
    BY <1>0 DEF Desk
  <2>4. editor' = [editor EXCEPT ![e] = v]
    BY <1>0, <2>1
  <2> HIDE DEF v
  <2>5. editor' \in [Editors -> Desk] /\ \A d \in Editors : editor'[d] = v
    BY <1>0, <2>3, <2>4
  <2>6. category' \in [Categories -> Names \cup {"none"}] /\ SoleName'
    BY <1>0, <1>a, <2>1 DEF SoleName, RemapTo, Named
  <2>7. Referred' /\ SoleCopy' /\ SolePromo' /\ Unmade'
    BY <1>0, <1>a, <2>1, <2>2 DEF Referred, NotImported, SoleCopy, SolePromo, Unmade, Overlap
  <2>8. \A d \in Editors : Minded(editor[d])'
    BY <2>2, <2>3, <2>5 DEF Minded, NotImported
  <2>9. QED
    BY <1>0, <2>2, <2>5, <2>6, <2>7, <2>8 DEF CatalogueInv, CatalogueTypeOK, Desk
<1>7. CASE ImportWrite(e)
  <2>1. /\ w.row \in Categories /\ NotImported /\ UNCHANGED <<category, catalogued, promo, now>> /\ Rise(e)
    BY <1>0, <1>7 DEF ImportWrite, Minded
  <2>2. PICK p \in Copies :
          copy' = IF category[w.row] = "none" THEN copy ELSE [copy EXCEPT ![p] = w.row]
    BY <1>7 DEF ImportWrite
  <2>3. copy' \in [Copies -> Categories \cup {"none"}] /\ SoleCopy'
    BY <1>0, <2>1, <2>2 DEF SoleCopy, NotImported
  <2>4. Referred'
    BY <1>0, <2>1, <2>2 DEF Referred, NotImported
  <2>5. SoleName' /\ SolePromo' /\ Unmade'
    BY <1>0, <2>1 DEF SoleName, SolePromo, Unmade, Overlap
  <2>6. QED
    BY <1>0, <2>1, <2>3, <2>4, <2>5, EditorRises DEF CatalogueInv, CatalogueTypeOK, Desk
<1>8. QED
  BY <1>1, <1>2, <1>3, <1>4, <1>5, <1>6, <1>7

LEMMA PromotionStep ==
  ASSUME CatalogueInv, \A d, e \in Editors : d = e, NEW e \in Editors,
         \/ PromotionWrite(e)
         \/ \E m \in Promotions, w \in PromoRows : CreatePromotion(e, m, w) \/ UpdatePromotion(e, m, w)
  PROVE  CatalogueInv'
<1> DEFINE d == editor[e]
<1>0. /\ category \in [Categories -> Names \cup {"none"}]
      /\ catalogued \in {"absent", "off-sale", "on-sale"}
      /\ copy \in [Copies -> Categories \cup {"none"}]
      /\ promo \in [Promotions -> PromoRows] /\ now \in Instants
      /\ editor \in [Editors -> Desk] /\ d \in Desk /\ Minded(d)
      /\ SoleCopy /\ SoleName /\ Referred /\ SolePromo /\ Unmade
  BY DEF CatalogueInv, CatalogueTypeOK, Desk
\* Where the window is not looked at, the promotion is switched off or was
\* active in it already.
<1>1. ASSUME NEW m \in Promotions, NEW w \in PromoRows, CreatePromotion(e, m, w) \/ UpdatePromotion(e, m, w)
      PROVE  CatalogueInv'
  <2> DEFINE v == [OffDuty EXCEPT !.pc = "promote", !.row = m, !.promo = w]
  <2>1. v \in Desk /\ v.pc = "promote" /\ v.row = m /\ v.promo = w
    BY OffDutyIsADesk DEF Desk
  <2> HIDE DEF v
  <2>2. editor' = [editor EXCEPT ![e] = v] /\ UNCHANGED <<category, catalogued, copy, promo, now>>
    BY <1>1 DEF CreatePromotion, UpdatePromotion, Sit, v
  <2>3. w.status # "absent"
    BY <1>1 DEF CreatePromotion, UpdatePromotion
  <2>4. ASSUME w.status = "active" PROVE WindowFree(m, w)
    <3>1. CASE CreatePromotion(e, m, w)
      BY <3>1 DEF CreatePromotion
    <3>2. CASE UpdatePromotion(e, m, w) /\ Checked(promo[m], w)
      BY <3>2 DEF UpdatePromotion
    <3>3. CASE UpdatePromotion(e, m, w) /\ ~Checked(promo[m], w)
      <4>1. promo[m] # NoPromo /\ w # promo[m] /\ promo[m] \in PromoRows
        BY <1>0, <3>3 DEF UpdatePromotion
      <4>2. promo[m].status # "disabled" /\ promo[m].status # "absent"
        BY <1>0, <2>4, <3>3, <4>1 DEF Unmade, Checked
      <4>3. promo[m].status = w.status /\ promo[m].from = w.from /\ promo[m].to = w.to
        BY <2>4, <3>3, <4>1, <4>2 DEF Checked, CheckedOnMove, PromoRows
      <4>4. QED
        BY <4>1, <4>3 DEF PromoRows
    <3>4. QED
      BY <1>1, <3>1, <3>2, <3>3
  <2>5. Minded(v)
    BY <2>1, <2>3, <2>4 DEF Minded
  <2>6. QED
    BY <2>1, <2>2, <2>5, EditorMoves
<1>2. CASE PromotionWrite(e)
  <2>1. /\ d.row \in Promotions /\ d.promo.status # "absent" /\ d.promo \in PromoRows
        /\ d.promo.status = "active" => WindowFree(d.row, d.promo)
        /\ promo' = [promo EXCEPT ![d.row] = d.promo] /\ UNCHANGED <<category, catalogued, copy, now>> /\ Rise(e)
    BY <1>0, <1>2 DEF PromotionWrite, Minded, Desk
  <2>2. /\ promo' \in [Promotions -> PromoRows] /\ promo'[d.row] = d.promo
        /\ \A m \in Promotions \ {d.row} : promo'[m] = promo[m]
    BY <1>0, <2>1
  <2>3. SolePromo'
    BY <1>0, <2>1, <2>2 DEF SolePromo, WindowFree, Overlap
  <2>4. Unmade' /\ SoleCopy' /\ SoleName' /\ Referred'
    BY <1>0, <2>1, <2>2 DEF Unmade, SoleCopy, SoleName, Referred
  <2>5. QED
    BY <1>0, <2>1, <2>2, <2>3, <2>4, EditorRises DEF CatalogueInv, CatalogueTypeOK, Desk
<1>3. QED
  BY <1>1, <1>2

LEMMA CatalogueStep ==
  ASSUME CatalogueInv, \A d, e \in Editors : d = e, [CatalogueNext]_catalogueVars
  PROVE  CatalogueInv'
<1>1. CASE UNCHANGED <<category, copy, promo, editor>> /\ now' \in Instants
           /\ catalogued' \in {"absent", "off-sale", "on-sale"}
  <2>1. SoleCopy' /\ SoleName' /\ Referred'
    BY <1>1 DEF CatalogueInv, SoleCopy, SoleName, Referred
  <2>2. SolePromo' /\ Unmade'
    BY <1>1 DEF CatalogueInv, SolePromo, Unmade, Overlap
  <2>3. \A e \in Editors : Minded(editor[e])'
    BY <1>1 DEF CatalogueInv, Minded, NotImported, WindowFree, Overlap
  <2>4. QED
    BY <1>1, <2>1, <2>2, <2>3 DEF CatalogueInv, CatalogueTypeOK
<1>2. CASE UNCHANGED catalogueVars
  BY <1>1, <1>2 DEF catalogueVars, CatalogueInv, CatalogueTypeOK
<1>3. CASE CreateOrgProduct \/ UpdateOrgProduct
  BY <1>1, <1>3 DEF CreateOrgProduct, UpdateOrgProduct, CatalogueInv, CatalogueTypeOK
<1>4. CASE Tick
  BY <1>1, <1>4 DEF Tick, CatalogueInv, CatalogueTypeOK
<1>5. QED
  BY <1>2, <1>3, <1>4, CategoryStep, PromotionStep DEF CatalogueNext
-----------------------------------------------------------------------------
(* Storefront: the cart of a user and the orders made of it                *)

\* Lines with at most one at the flash price, which is of one piece.
Fit(lines) == /\ \A p, q \in FlashLines(lines) : p = q
              /\ \A p \in FlashLines(lines) : lines[p].qty = 1

\* What the cart becomes when a device writes its line.
Merged(w) == [p \in Goods |-> IF p \in w.on THEN w.lines[p] ELSE cart[p]]

\* What a device has read may be written.
Writable(w) == /\ w.pc = "line" => Fit(Merged(w))
               /\ w.pc \in {"save", "quote", "order"} => Fit(w.lines)

ShopInv == /\ ShopTypeOK /\ Fit(cart) /\ Fit(order.lines)
           /\ \A d \in Devices : Writable(device[d])

Screen == [pc : {"idle", "line", "save", "quote", "order"}, lines : [Goods -> Line], on : SUBSET Goods]

LEMMA NothingInIt == /\ EmptyCart \in [Goods -> Line] /\ Fit(EmptyCart)
                     /\ Asleep \in Screen /\ Asleep.pc = "idle"
<1>1. NoLine \in Line /\ NoLine.qty = 0
  BY StorefrontAssumption DEF NoLine, Line
<1>2. EmptyCart \in [Goods -> Line] /\ \A p \in Goods : EmptyCart[p].qty = 0
  BY <1>1 DEF EmptyCart
<1>3. FlashLines(EmptyCart) = {}
  BY <1>2 DEF FlashLines
<1>4. QED
  BY <1>2, <1>3 DEF Fit, Asleep, Screen

LEMMA ShopBegins == ShopInit => ShopInv
<1> SUFFICES ASSUME ShopInit PROVE ShopInv
  OBVIOUS
<1>1. /\ flash = {} /\ cart = EmptyCart /\ device = [d \in Devices |-> Asleep]
      /\ bought = [p \in Goods |-> 0] /\ order = NoSale
  BY DEF ShopInit
<1>2. ShopTypeOK
  BY <1>1, NothingInIt DEF ShopTypeOK, Screen, NoSale
<1>3. QED
  BY <1>1, <1>2, NothingInIt DEF ShopInv, Writable, NoSale

\* The only device reads, while the cart stays as it is.
LEMMA DeviceMoves ==
  ASSUME ShopInv, \A c, d \in Devices : c = d, NEW d \in Devices, NEW w \in Screen, Writable(w),
         device' = [device EXCEPT ![d] = w], UNCHANGED <<flash, cart, bought, order>>
  PROVE  ShopInv'
<1>1. device' \in [Devices -> Screen] /\ \A c \in Devices : device'[c] = w
  BY DEF ShopInv, ShopTypeOK, Screen
<1>2. \A c \in Devices : Writable(device[c])'
  BY <1>1 DEF Writable, Merged
<1>3. QED
  BY <1>1, <1>2 DEF ShopInv, ShopTypeOK, Screen

LEMMA ReadStep ==
  ASSUME ShopInv, \A c, d \in Devices : c = d, NEW d \in Devices,
         \/ CartData(d) \/ ValidateQuote(d)
         \/ \E p \in Goods, q \in 0..MaxQty, asFlash \in BOOLEAN : SetRead(d, p, q, asFlash)
         \/ \E lines \in [Goods -> Line] : CartSaveRead(d, lines)
  PROVE  ShopInv'
<1>0. /\ cart \in [Goods -> Line] /\ Fit(cart) /\ device \in [Devices -> Screen]
      /\ device[d] \in Screen /\ Writable(device[d])
  BY DEF ShopInv, ShopTypeOK, Screen
\* A flash line comes alone and in one piece.
<1>1. ASSUME NEW p \in Goods, NEW q \in 0..MaxQty, NEW asFlash \in BOOLEAN, SetRead(d, p, q, asFlash)
      PROVE  ShopInv'
  <2> DEFINE line == [qty |-> q, flash |-> asFlash /\ q > 0]
             w == [pc |-> "line", on |-> {p}, lines |-> [EmptyCart EXCEPT ![p] = line]]
  <2>1. line \in Line /\ line.qty = q /\ line.flash = (asFlash /\ q > 0)
    BY DEF Line
  <2> HIDE DEF line
  <2>2. [EmptyCart EXCEPT ![p] = line] \in [Goods -> Line]
    BY <2>1, NothingInIt
  <2>3. w \in Screen /\ w.pc = "line" /\ w.on = {p} /\ w.lines[p] = line
    BY <2>2, NothingInIt DEF Screen
  <2>4. device' = [device EXCEPT ![d] = w] /\ UNCHANGED <<flash, cart, bought, order>>
    BY <1>1 DEF SetRead, line
  <2>5. asFlash /\ q > 0 => q = 1 /\ FlashLines(cart) \subseteq {p}
    BY <1>1 DEF SetRead, FlashMayEnter
  <2> HIDE DEF w
  <2>6. Merged(w)[p] = line /\ \A x \in Goods \ {p} : Merged(w)[x] = cart[x]
    BY <2>3 DEF Merged
  <2>7. CASE asFlash /\ q > 0
    <3>1. FlashLines(Merged(w)) \subseteq {p} /\ Merged(w)[p].qty = 1
      BY <2>1, <2>5, <2>6, <2>7 DEF FlashLines
    <3>2. QED
      BY <2>3, <2>4, <3>1, DeviceMoves DEF Writable, Fit
  <2>8. CASE ~(asFlash /\ q > 0)
    <3>1. p \notin FlashLines(Merged(w))
      BY <2>1, <2>6, <2>8 DEF FlashLines
    <3>2. /\ FlashLines(Merged(w)) \subseteq FlashLines(cart)
          /\ \A x \in FlashLines(Merged(w)) : Merged(w)[x] = cart[x]
      BY <2>6, <3>1 DEF FlashLines
    <3>3. QED
      BY <1>0, <2>3, <2>4, <3>2, DeviceMoves DEF Writable, Fit
  <2>9. QED
    BY <2>7, <2>8
<1>2. ASSUME NEW lines \in [Goods -> Line], CartSaveRead(d, lines) PROVE ShopInv'
  <2> DEFINE w == [pc |-> "save", on |-> Goods, lines |-> lines]
  <2>1. w \in Screen /\ w.pc = "save" /\ w.lines = lines
    BY DEF Screen
  <2>2. device' = [device EXCEPT ![d] = w] /\ UNCHANGED <<flash, cart, bought, order>>
        /\ Cardinality(FlashLines(lines)) <= 1 /\ \A p \in FlashLines(lines) : lines[p].qty = 1
    BY <1>2 DEF CartSaveRead
  <2>3. FlashLines(lines) \subseteq Goods
    BY DEF FlashLines
  <2>4. IsFiniteSet(FlashLines(lines))
    BY <2>3, FS_Subset, StorefrontAssumption
  <2>5. Fit(lines)
    BY <2>2, <2>4, AtMostOne DEF Fit
  <2> HIDE DEF w
  <2>6. QED
    BY <2>1, <2>2, <2>5, DeviceMoves DEF Writable
<1>3. CASE CartData(d)
  <2> DEFINE priced == [p \in Goods |-> [cart[p] EXCEPT !.flash = @ /\ p \in flash]]
             w == [pc |-> "quote", on |-> FlashLines(cart), lines |-> priced]
  <2>1. /\ \A p \in Goods : priced[p] \in Line /\ priced[p].qty = cart[p].qty
        /\ \A p \in Goods : priced[p].flash => cart[p].flash
    BY <1>0 DEF Line
  <2>2. priced \in [Goods -> Line]
    BY <2>1
  <2> HIDE DEF priced
  <2>3. FlashLines(priced) \subseteq FlashLines(cart)
    BY <1>0, <2>1 DEF FlashLines
  <2>4. Fit(priced)
    BY <1>0, <2>1, <2>3 DEF Fit, FlashLines
  <2>5. w \in Screen /\ w.pc = "quote" /\ w.lines = priced
    BY <2>2 DEF Screen, FlashLines
  <2>6. device' = [device EXCEPT ![d] = w] /\ UNCHANGED <<flash, cart, bought, order>>
    BY <1>3 DEF CartData, priced
  <2> HIDE DEF w
  <2>7. QED
    BY <2>4, <2>5, <2>6, DeviceMoves DEF Writable
<1>4. CASE ValidateQuote(d)
  <2> DEFINE w == [device[d] EXCEPT !.pc = "order"]
  <2>1. w \in Screen /\ w.pc = "order" /\ w.lines = device[d].lines
    BY <1>0 DEF Screen
  <2>2. Writable(w) /\ Writable(Asleep)
    BY <1>0, <1>4, <2>1, NothingInIt DEF Writable, ValidateQuote
  <2>3. device' = [device EXCEPT ![d] = w] \/ device' = [device EXCEPT ![d] = Asleep]
    BY <1>0, <1>4 DEF ValidateQuote
  <2>4. UNCHANGED <<flash, cart, bought, order>>
    BY <1>4 DEF ValidateQuote
  <2> HIDE DEF w
  <2>5. QED
    BY <2>1, <2>2, <2>3, <2>4, NothingInIt, DeviceMoves
<1>5. QED
  BY <1>1, <1>2, <1>3, <1>4

LEMMA WriteStep ==
  ASSUME ShopInv, \A c, d \in Devices : c = d, NEW d \in Devices,
         SetWrite(d) \/ CartSaveWrite(d) \/ CreateOrder(d)
  PROVE  ShopInv'
<1> DEFINE w == device[d]
<1>0. /\ cart \in [Goods -> Line] /\ Fit(cart) /\ device \in [Devices -> Screen]
      /\ w \in Screen /\ Writable(w) /\ order \in [paid : BOOLEAN, lines : [Goods -> Line]]
  BY DEF ShopInv, ShopTypeOK, Screen
<1>1. device' \in [Devices -> Screen] /\ \A c \in Devices : device'[c] = Asleep
  BY <1>0, NothingInIt DEF SetWrite, CartSaveWrite, CreateOrder
<1>2. \A c \in Devices : Writable(device[c])'
  BY <1>1, NothingInIt DEF Writable
<1>3. CASE SetWrite(d)
  <2>1. cart' = Merged(w) /\ Fit(Merged(w)) /\ UNCHANGED <<flash, bought, order>>
    BY <1>0, <1>3 DEF SetWrite, Merged, Writable
  <2>2. Merged(w) \in [Goods -> Line]
    BY <1>0 DEF Merged, Screen
  <2>3. QED
    BY <1>1, <1>2, <2>1, <2>2 DEF ShopInv, ShopTypeOK, Screen
<1>4. CASE CartSaveWrite(d)
  <2>1. cart' = w.lines /\ Fit(w.lines) /\ w.lines \in [Goods -> Line] /\ UNCHANGED <<flash, bought, order>>
    BY <1>0, <1>4 DEF CartSaveWrite, Screen, Writable
  <2>2. QED
    BY <1>1, <1>2, <2>1 DEF ShopInv, ShopTypeOK, Screen
<1>5. CASE CreateOrder(d)
  <2>1. order' = [paid |-> FALSE, lines |-> w.lines] /\ Fit(w.lines) /\ w.lines \in [Goods -> Line]
        /\ UNCHANGED <<flash, cart, bought>>
    BY <1>0, <1>5 DEF CreateOrder, Screen, Writable
  <2>2. QED
    BY <1>1, <1>2, <2>1 DEF ShopInv, ShopTypeOK, Screen
<1>6. QED
  BY <1>3, <1>4, <1>5

LEMMA ShopStep ==
  ASSUME ShopInv, \A c, d \in Devices : c = d, [ShopNext]_shopVars
  PROVE  ShopInv'
<1>0. /\ cart \in [Goods -> Line] /\ Fit(cart) /\ device \in [Devices -> Screen] /\ flash \subseteq Goods
      /\ bought \in [Goods -> Nat] /\ order \in [paid : BOOLEAN, lines : [Goods -> Line]] /\ Fit(order.lines)
      /\ \A d \in Devices : Writable(device[d])
  BY DEF ShopInv, ShopTypeOK, Screen
<1>1. CASE UNCHANGED <<cart, device, bought, order>> /\ flash' \subseteq Goods
  BY <1>1 DEF ShopInv, ShopTypeOK, Writable, Merged
<1>2. CASE UNCHANGED shopVars
  BY <1>0, <1>1, <1>2 DEF shopVars
<1>3. ASSUME NEW p \in Goods, FlashSale(p) PROVE ShopInv'
  BY <1>0, <1>1, <1>3 DEF FlashSale
\* The cart is emptied: what a device is about to put in it comes alone.
<1>4. CASE PayOrder
  <2>1. order' = [order EXCEPT !.paid = TRUE] /\ cart' = EmptyCart /\ UNCHANGED <<flash, device>>
        /\ bought' = [p \in Goods |-> bought[p] + order.lines[p].qty]
    BY <1>4 DEF PayOrder
  <2>2. order' \in [paid : BOOLEAN, lines : [Goods -> Line]] /\ order'.lines = order.lines
    BY <1>0, <2>1
  <2>3. \A p \in Goods : order.lines[p].qty \in Nat
    BY <1>0, StorefrontAssumption DEF Line
  <2>4. bought' \in [Goods -> Nat]
    BY <1>0, <2>1, <2>3
  <2>5. ASSUME NEW d \in Devices PROVE Writable(device[d])'
    <3> DEFINE w == device[d]
               after == [p \in Goods |-> IF p \in w.on THEN w.lines[p] ELSE EmptyCart[p]]
    <3>1. Merged(device[d])' = after
      BY <2>1 DEF Merged
    <3>2. \A p \in Goods : EmptyCart[p].qty = 0
      BY DEF EmptyCart, NoLine
    <3>3. /\ FlashLines(after) \subseteq FlashLines(Merged(w))
          /\ \A p \in FlashLines(after) : after[p] = Merged(w)[p]
      BY <3>2 DEF FlashLines, Merged
    <3>4. Fit(Merged(w)) => Fit(after)
      BY <3>3 DEF Fit
    <3>5. QED
      BY <1>0, <2>1, <3>1, <3>4 DEF Writable
  <2>6. QED
    BY <1>0, <2>1, <2>2, <2>4, <2>5, NothingInIt DEF ShopInv, ShopTypeOK, Screen
<1>5. QED
  BY <1>2, <1>3, <1>4, ReadStep, WriteStep DEF ShopNext
-----------------------------------------------------------------------------
(* AddressBook: a customer's addresses                                     *)

Defaults == {c \in Cards : card[c].default}

\* What the customer's request has read is so until it writes: nobody else
\* writes the customer's addresses meanwhile.
Remembered(w) ==
  /\ w.pc = "add" => w.on.name \in DormNames /\ (w.on.default => Defaults = {})
  /\ w.pc = "remove" => w.of \in Cards /\ card[w.of] = w.on

BookInv == BookTypeOK /\ OneDefault /\ \A p \in Phones : Remembered(phone[p])

LEMMA BookStep ==
  ASSUME BookInv, \A p, q \in Phones : p = q, [BookNext]_bookVars
  PROVE  BookInv'
<1> DEFINE PhoneSet == [pc : {"idle", "add", "remove"}, on : Card, of : Cards \cup {"none"}]
<1> USE DEF BookInv, OneDefault, Remembered, Defaults
<1>0. /\ dorm \in [Dorms -> DormNames \cup {"none"}]
      /\ card \in [Cards -> Card] /\ phone \in [Phones -> PhoneSet] /\ copied \in Card
  BY DEF BookTypeOK
<1>a. NoCard \in Card /\ ~NoCard.default /\ OnHook \in PhoneSet /\ OnHook.pc = "idle" /\ Remembered(OnHook)
  BY DEF NoCard, Card, Keys, OnHook
<1>1. CASE UNCHANGED bookVars
  BY <1>1 DEF bookVars, BookTypeOK
\* Buildings come and go without the addresses.
<1>2. ASSUME NEW d \in Dorms,
             DeleteBuilding(d) \/ \E n \in DormNames : CreateBuilding(d, n) \/ UpdateBuilding(d, n)
      PROVE  BookInv'
  <2>1. dorm' \in [Dorms -> DormNames \cup {"none"}] /\ UNCHANGED <<card, phone, copied>>
    BY <1>0, <1>2 DEF DeleteBuilding, CreateBuilding, UpdateBuilding
  <2>2. QED
    BY <1>0, <2>1 DEF BookTypeOK
\* A request begins: it is the only one.
<1>3. ASSUME NEW p \in Phones, NEW n \in DormNames, NEW default \in BOOLEAN, AddClear(p, n, default)
      PROVE  BookInv'
  <2> DEFINE new == [NoCard EXCEPT !.name = n, !.default = default]
             w == [OnHook EXCEPT !.pc = "add", !.on = new]
  <2>1. new \in Card /\ new.name = n /\ new.default = default
    BY <1>a DEF NoCard, Card
  <2> HIDE DEF new
  <2>2. w \in PhoneSet /\ w.pc = "add" /\ w.on = new
    BY <1>a, <2>1 DEF OnHook
  <2> HIDE DEF w
  <2>3. phone' = [phone EXCEPT ![p] = w] /\ card' = Cleared(default) /\ UNCHANGED <<dorm, copied>>
    BY <1>3 DEF AddClear, Hold, w, new
  <2>4. phone' \in [Phones -> PhoneSet] /\ \A q \in Phones : phone'[q] = w
    BY <1>0, <2>2, <2>3
  <2>5. CASE default
    <3>1. /\ card' \in [Cards -> Card]
          /\ \A c \in Cards : ~card'[c].default
      BY <1>0, <2>3, <2>5 DEF Cleared, Card
    <3>2. QED
      BY <1>0, <2>1, <2>2, <2>3, <2>4, <3>1 DEF BookTypeOK
  <2>6. CASE ~default
    <3>1. UNCHANGED card
      BY <2>3, <2>6 DEF Cleared
    <3>2. QED
      BY <1>0, <2>1, <2>2, <2>3, <2>4, <2>6, <3>1 DEF BookTypeOK
  <2>7. QED
    BY <2>5, <2>6
<1>4. ASSUME NEW p \in Phones, NEW c \in Cards, RemoveRead(p, c) PROVE BookInv'
  <2> DEFINE w == [OnHook EXCEPT !.pc = "remove", !.on = card[c], !.of = c]
  <2>1. w \in PhoneSet /\ w.pc = "remove" /\ w.on = card[c] /\ w.of = c
    BY <1>0, <1>a DEF OnHook
  <2> HIDE DEF w
  <2>2. phone' = [phone EXCEPT ![p] = w] /\ UNCHANGED <<dorm, card, copied>>
    BY <1>4 DEF RemoveRead, Hold, w
  <2>3. phone' \in [Phones -> PhoneSet] /\ \A q \in Phones : phone'[q] = w
    BY <1>0, <2>1, <2>2
  <2>4. QED
    BY <1>0, <2>1, <2>2, <2>3 DEF BookTypeOK
\* A request ends.
<1>5. ASSUME NEW p \in Phones, AddWrite(p) PROVE BookInv'
  <2> DEFINE new == phone[p].on
  <2>1. new \in Card /\ new.name \in DormNames /\ (new.default => Defaults = {})
    BY <1>0, <1>5 DEF AddWrite
  <2>2. PICK c \in Cards, k \in KeyOf(new.name) :
          card' = [card EXCEPT ![c] = [new EXCEPT !.id = k]]
    BY <1>5 DEF AddWrite
  <2>3. k \in Keys
    BY <2>1, <2>2 DEF KeyOf, Keys
  <2>4. [new EXCEPT !.id = k] \in Card /\ [new EXCEPT !.id = k].default = new.default
    BY <2>1, <2>3 DEF Card
  <2>5. card' \in [Cards -> Card] /\ card'[c].default = new.default
        /\ \A e \in Cards \ {c} : card'[e] = card[e]
    BY <1>0, <2>2, <2>4
  <2>6. OneDefault'
    BY <2>1, <2>5
  <2>7. phone' \in [Phones -> PhoneSet] /\ \A q \in Phones : phone'[q] = OnHook
    BY <1>0, <1>a, <1>5 DEF AddWrite, HangUp
  <2>8. QED
    BY <1>0, <1>a, <1>5, <2>5, <2>6, <2>7 DEF BookTypeOK, AddWrite
<1>6. ASSUME NEW p \in Phones, RemoveWrite(p) PROVE BookInv'
  <2> DEFINE w == phone[p]
             rest == Written \ {w.of}
  <2>1. w.of \in Cards /\ card[w.of] = w.on
    BY <1>6 DEF RemoveWrite
  <2>2. phone' \in [Phones -> PhoneSet] /\ \A q \in Phones : phone'[q] = OnHook
    BY <1>0, <1>a, <1>6 DEF RemoveWrite, HangUp
  <2>3. card' \in [Cards -> Card] /\ OneDefault'
    <3>1. CASE UNCHANGED card
      BY <1>0, <3>1
    <3>2. CASE card' = [card EXCEPT ![w.of] = NoCard]
      BY <1>0, <1>a, <2>1, <3>2
    <3>3. ASSUME NEW next \in rest, w.on.default,
                 card' = [card EXCEPT ![w.of] = NoCard, ![next].default = TRUE]
          PROVE  card' \in [Cards -> Card] /\ OneDefault'
      <4>1. next \in Cards /\ next # w.of
        BY <3>3 DEF Written
      <4>2. /\ card'[w.of] = NoCard
            /\ card'[next] = [card[next] EXCEPT !.default = TRUE]
            /\ \A e \in Cards \ {w.of, next} : card'[e] = card[e]
            /\ DOMAIN card' = Cards /\ card' = [e \in Cards |-> card'[e]]
        BY <1>0, <2>1, <3>3, <4>1
      <4>3. [card[next] EXCEPT !.default = TRUE] \in Card
        BY <1>0, <4>1 DEF Card
      <4>4. \A e \in Cards : card'[e] \in Card
        BY <1>0, <1>a, <4>2, <4>3
      <4>5. \A e \in Cards \ {w.of} : ~card[e].default
        BY <2>1, <3>3
      <4>6. \A e \in Cards \ {next} : ~card'[e].default
        BY <1>a, <4>2, <4>5
      <4>7. QED
        BY <4>2, <4>4, <4>6
    <3>4. QED
      BY <1>6, <3>1, <3>2, <3>3 DEF RemoveWrite
  <2>4. QED
    BY <1>0, <1>a, <1>6, <2>2, <2>3 DEF BookTypeOK, RemoveWrite
\* Changes in one transaction, while no request of the customer is under way.
<1>7. ASSUME NEW p \in Phones, NEW c \in Cards, SetDefaultAddress(p, c) PROVE BookInv'
  <2>1. \A q \in Phones : phone[q] = OnHook
    BY <1>7 DEF SetDefaultAddress
  <2> DEFINE none == Cleared(TRUE)
  <2>2. none \in [Cards -> Card] /\ \A e \in Cards : ~none[e].default
    BY <1>0 DEF Cleared, Card
  <2>3. card' = [none EXCEPT ![c].default = TRUE]
    BY <1>7 DEF SetDefaultAddress
  <2> HIDE DEF none
  <2>4. card' \in [Cards -> Card] /\ \A e \in Cards \ {c} : ~card'[e].default
    BY <2>2, <2>3 DEF Card
  <2>5. QED
    BY <1>0, <1>a, <1>7, <2>1, <2>4 DEF BookTypeOK, SetDefaultAddress
<1>8. ASSUME NEW p \in Phones, NEW c \in Cards, NEW n \in DormNames, UpdateAddress(p, c, n) PROVE BookInv'
  <2>1. \A q \in Phones : phone[q] = OnHook
    BY <1>8 DEF UpdateAddress
  <2>2. card' \in [Cards -> Card] /\ \A e \in Cards : card'[e].default = card[e].default
    BY <1>0, <1>8 DEF UpdateAddress, Card
  <2>3. QED
    BY <1>0, <1>a, <1>8, <2>1, <2>2 DEF BookTypeOK, UpdateAddress
<1>9. ASSUME NEW p \in Phones, NEW c \in Cards, PlaceOrder(p, c) PROVE BookInv'
  BY <1>0, <1>9 DEF BookTypeOK, PlaceOrder
<1>10. QED
  BY <1>1, <1>2, <1>3, <1>4, <1>5, <1>6, <1>7, <1>8, <1>9 DEF BookNext

LEMMA BookBegins == BookInit => BookInv
<1> SUFFICES ASSUME BookInit PROVE BookInv
  OBVIOUS
<1>1. NoCard \in Card
  BY DEF NoCard, Card, Keys
<1>2. BookTypeOK
  BY <1>1 DEF BookInit, BookTypeOK, OnHook
<1>3. OneDefault /\ \A p \in Phones : Remembered(phone[p])
  BY DEF BookInit, OneDefault, Remembered, NoCard, OnHook
<1>4. QED
  BY <1>2, <1>3 DEF BookInv

\* A customer who sends one request at a time has at most one default address,
\* for any number of addresses and whatever happens to the buildings.
THEOREM DefaultIsOne == (\A p, q \in Phones : p = q) /\ BookSpec => []OneDefault
<1>1. ASSUME \A p, q \in Phones : p = q PROVE BookSpec => []OneDefault
  <2>1. BookInv /\ [BookNext]_bookVars => BookInv'
    BY <1>1, BookStep
  <2>2. BookInv => OneDefault
    BY DEF BookInv
  <2>3. QED
    BY <2>1, <2>2, BookBegins, PTL DEF BookSpec
<1>2. QED
  BY <1>1
-----------------------------------------------------------------------------
(* Types, with any number of clerks, devices and phones                    *)

CatalogueTyped ==
  /\ CatalogueTypeOK
  /\ \A e \in Editors : /\ editor[e].pc \in {"name", "remove", "import"} => editor[e].row \in Categories
                        /\ editor[e].pc = "name" => editor[e].name \in Names
                        /\ editor[e].pc = "promote" => editor[e].row \in Promotions

LEMMA CatalogueTypesStep == CatalogueTyped /\ [CatalogueNext]_catalogueVars => CatalogueTyped'
<1> SUFFICES ASSUME CatalogueTyped, [CatalogueNext]_catalogueVars PROVE CatalogueTyped'
  OBVIOUS
<1> DEFINE Aimed(w) == /\ w.pc \in {"name", "remove", "import"} => w.row \in Categories
                       /\ w.pc = "name" => w.name \in Names
                       /\ w.pc = "promote" => w.row \in Promotions
<1>0. /\ category \in [Categories -> Names \cup {"none"}]
      /\ catalogued \in {"absent", "off-sale", "on-sale"}
      /\ copy \in [Copies -> Categories \cup {"none"}]
      /\ promo \in [Promotions -> PromoRows] /\ now \in Instants
      /\ editor \in [Editors -> Desk] /\ \A e \in Editors : Aimed(editor[e])
  BY DEF CatalogueTyped, CatalogueTypeOK, Desk
<1>a. ASSUME NEW e \in Editors, NEW w \in Desk, Aimed(w), editor' = [editor EXCEPT ![e] = w]
      PROVE  editor' \in [Editors -> Desk] /\ \A d \in Editors : Aimed(editor'[d])
  BY <1>0, <1>a
<1>b. Aimed(OffDuty) /\ OffDuty \in Desk
  BY OffDutyIsADesk
<1>1. CASE UNCHANGED catalogueVars \/ CreateOrgProduct \/ UpdateOrgProduct \/ Tick
  BY <1>0, <1>1 DEF catalogueVars, CreateOrgProduct, UpdateOrgProduct, Tick, CatalogueTyped, CatalogueTypeOK, Desk
\* A request reads.
<1>2. ASSUME NEW e \in Editors, NEW w \in Desk, Aimed(w), Sit(e, w),
             UNCHANGED <<category, catalogued, copy, promo, now>>
      PROVE  CatalogueTyped'
  BY <1>0, <1>2, <1>a DEF Sit, CatalogueTyped, CatalogueTypeOK, Desk
<1>3. ASSUME NEW e \in Editors, ImportRead(e) PROVE CatalogueTyped'
  <2> DEFINE v == [OffDuty EXCEPT !.pc = "remap"]
  <2>1. v \in Desk /\ Aimed(v)
    BY <1>b DEF Desk
  <2>2. QED
    BY <1>2, <1>3, <2>1 DEF ImportRead
<1>4. ASSUME NEW e \in Editors, NEW k \in Categories, RemovalCheck(e, k) PROVE CatalogueTyped'
  <2> DEFINE v == [OffDuty EXCEPT !.pc = "remove", !.row = k]
  <2>1. v \in Desk /\ Aimed(v)
    BY <1>b DEF Desk
  <2>2. QED
    BY <1>2, <1>4, <2>1 DEF RemovalCheck
<1>5. ASSUME NEW e \in Editors, NEW k \in Categories, NEW n \in Names, NameCheck(e, k, n) PROVE CatalogueTyped'
  <2> DEFINE v == [OffDuty EXCEPT !.pc = "name", !.row = k, !.name = n]
  <2>1. v \in Desk /\ Aimed(v)
    BY <1>b DEF Desk
  <2>2. QED
    BY <1>2, <1>5, <2>1 DEF NameCheck
<1>6. ASSUME NEW e \in Editors, NEW m \in Promotions, NEW w \in PromoRows,
             CreatePromotion(e, m, w) \/ UpdatePromotion(e, m, w)
      PROVE  CatalogueTyped'
  <2> DEFINE v == [OffDuty EXCEPT !.pc = "promote", !.row = m, !.promo = w]
  <2>1. v \in Desk /\ Aimed(v)
    BY <1>b DEF Desk
  <2>2. QED
    BY <1>2, <1>6, <2>1 DEF CreatePromotion, UpdatePromotion
\* A request writes.
<1>7. ASSUME NEW e \in Editors, RemapCategory(e) PROVE CatalogueTyped'
  <2>1. PICK k \in Categories :
          /\ category' = [category EXCEPT ![k] = Template]
          /\ editor' = [editor EXCEPT ![e].pc = "import", ![e].row = k]
    BY <1>7 DEF RemapCategory
  <2> DEFINE v == [editor[e] EXCEPT !.pc = "import", !.row = k]
  <2>2. v \in Desk /\ Aimed(v) /\ editor' = [editor EXCEPT ![e] = v]
    BY <1>0, <2>1 DEF Desk
  <2> HIDE DEF v
  <2>3. editor' \in [Editors -> Desk] /\ \A d \in Editors : Aimed(editor'[d])
    BY <1>a, <2>2
  <2>4. category' \in [Categories -> Names \cup {"none"}]
    BY <1>0, <2>1, CatalogueAssumption
  <2>5. UNCHANGED <<catalogued, copy, promo, now>>
    BY <1>7 DEF RemapCategory
  <2>6. QED
    BY <1>0, <2>3, <2>4, <2>5 DEF CatalogueTyped, CatalogueTypeOK, Desk
<1>8. ASSUME NEW e \in Editors, NameWrite(e) \/ RemovalWrite(e) \/ ImportWrite(e) \/ PromotionWrite(e)
      PROVE  CatalogueTyped'
  <2>1. editor' \in [Editors -> Desk] /\ \A d \in Editors : Aimed(editor'[d])
    BY <1>8, <1>a, <1>b DEF NameWrite, RemovalWrite, ImportWrite, PromotionWrite, Rise
  <2>2. Aimed(editor[e]) /\ editor[e].promo \in PromoRows
    BY <1>0 DEF Desk
  <2>3. /\ category' \in [Categories -> Names \cup {"none"}] /\ copy' \in [Copies -> Categories \cup {"none"}]
        /\ promo' \in [Promotions -> PromoRows] /\ UNCHANGED <<catalogued, now>>
    <3>1. CASE NameWrite(e)
      BY <1>0, <2>2, <3>1 DEF NameWrite
    <3>2. CASE RemovalWrite(e)
      BY <1>0, <2>2, <3>2 DEF RemovalWrite
    <3>3. CASE ImportWrite(e)
      BY <1>0, <2>2, <3>3 DEF ImportWrite
    <3>4. CASE PromotionWrite(e)
      BY <1>0, <2>2, <3>4 DEF PromotionWrite
    <3>5. QED
      BY <1>8, <3>1, <3>2, <3>3, <3>4
  <2>4. QED
    BY <1>0, <2>1, <2>3 DEF CatalogueTyped, CatalogueTypeOK, Desk
<1>9. QED
  BY <1>1, <1>3, <1>4, <1>5, <1>6, <1>7, <1>8 DEF CatalogueNext

LEMMA ShopTypesStep == ShopTypeOK /\ [ShopNext]_shopVars => ShopTypeOK'
<1> SUFFICES ASSUME ShopTypeOK, [ShopNext]_shopVars PROVE ShopTypeOK'
  OBVIOUS
<1>0. /\ cart \in [Goods -> Line] /\ device \in [Devices -> Screen] /\ flash \subseteq Goods
      /\ bought \in [Goods -> Nat] /\ order \in [paid : BOOLEAN, lines : [Goods -> Line]]
  BY DEF ShopTypeOK, Screen
<1>a. SUFFICES /\ cart' \in [Goods -> Line] /\ device' \in [Devices -> Screen] /\ flash' \subseteq Goods
               /\ bought' \in [Goods -> Nat] /\ order' \in [paid : BOOLEAN, lines : [Goods -> Line]]
  BY DEF ShopTypeOK, Screen
<1>1. CASE UNCHANGED shopVars
  BY <1>0, <1>1 DEF shopVars
<1>2. ASSUME NEW p \in Goods, FlashSale(p) PROVE ShopTypeOK'
  BY <1>0, <1>2 DEF FlashSale, ShopTypeOK, Screen
<1>3. CASE PayOrder
  <2>1. \A p \in Goods : order.lines[p].qty \in Nat
    BY <1>0, StorefrontAssumption DEF Line
  <2>2. bought' \in [Goods -> Nat]
    BY <1>0, <1>3, <2>1 DEF PayOrder
  <2>3. QED
    BY <1>0, <1>3, <2>2, NothingInIt DEF PayOrder
<1>4. ASSUME NEW d \in Devices, SetWrite(d) \/ CartSaveWrite(d) \/ CreateOrder(d) PROVE ShopTypeOK'
  <2>1. device[d].lines \in [Goods -> Line] /\ device' = [device EXCEPT ![d] = Asleep] /\ UNCHANGED <<flash, bought>>
    BY <1>0, <1>4 DEF Screen, SetWrite, CartSaveWrite, CreateOrder
  <2>2. cart' \in [Goods -> Line] /\ order' \in [paid : BOOLEAN, lines : [Goods -> Line]]
    <3>1. CASE SetWrite(d)
      BY <1>0, <2>1, <3>1 DEF SetWrite
    <3>2. CASE CartSaveWrite(d)
      BY <1>0, <2>1, <3>2 DEF CartSaveWrite
    <3>3. CASE CreateOrder(d)
      BY <1>0, <2>1, <3>3 DEF CreateOrder
    <3>4. QED
      BY <1>4, <3>1, <3>2, <3>3
  <2>3. QED
    BY <1>0, <2>1, <2>2, NothingInIt DEF ShopTypeOK, Screen
<1>5. ASSUME NEW d \in Devices,
             \/ CartData(d) \/ ValidateQuote(d)
             \/ \E p \in Goods, q \in 0..MaxQty, asFlash \in BOOLEAN : SetRead(d, p, q, asFlash)
             \/ \E lines \in [Goods -> Line] : CartSaveRead(d, lines)
      PROVE  ShopTypeOK'
  <2>1. \E w \in Screen : device' = [device EXCEPT ![d] = w]
    <3>1. ASSUME NEW p \in Goods, NEW q \in 0..MaxQty, NEW asFlash \in BOOLEAN, SetRead(d, p, q, asFlash)
          PROVE  \E w \in Screen : device' = [device EXCEPT ![d] = w]
      <4> DEFINE line == [qty |-> q, flash |-> asFlash /\ q > 0]
                 w == [pc |-> "line", on |-> {p}, lines |-> [EmptyCart EXCEPT ![p] = line]]
      <4>1. line \in Line
        BY DEF Line
      <4> HIDE DEF line
      <4>2. w \in Screen
        BY <4>1, NothingInIt DEF Screen
      <4>3. device' = [device EXCEPT ![d] = w]
        BY <3>1 DEF SetRead, line
      <4>4. QED
        BY <4>2, <4>3
    <3>2. ASSUME NEW lines \in [Goods -> Line], CartSaveRead(d, lines)
          PROVE  \E w \in Screen : device' = [device EXCEPT ![d] = w]
      <4>1. [pc |-> "save", on |-> Goods, lines |-> lines] \in Screen
        BY DEF Screen
      <4>2. QED
        BY <3>2, <4>1 DEF CartSaveRead
    <3>3. CASE CartData(d)
      <4> DEFINE priced == [p \in Goods |-> [cart[p] EXCEPT !.flash = @ /\ p \in flash]]
      <4>1. \A p \in Goods : priced[p] \in Line
        BY <1>0 DEF Line
      <4>2. priced \in [Goods -> Line]
        BY <4>1
      <4>3. device' = [device EXCEPT ![d] = [pc |-> "quote", on |-> FlashLines(cart), lines |-> priced]]
        BY <3>3 DEF CartData
      <4> HIDE DEF priced
      <4>4. [pc |-> "quote", on |-> FlashLines(cart), lines |-> priced] \in Screen
        BY <4>2 DEF Screen, FlashLines
      <4>5. QED
        BY <4>3, <4>4
    <3>4. CASE ValidateQuote(d)
      <4>1. [device[d] EXCEPT !.pc = "order"] \in Screen
        BY <1>0 DEF Screen
      <4>2. \/ device' = [device EXCEPT ![d] = [device[d] EXCEPT !.pc = "order"]]
            \/ device' = [device EXCEPT ![d] = Asleep]
        BY <1>0, <3>4 DEF ValidateQuote
      <4>3. QED
        BY <4>1, <4>2, NothingInIt
    <3>5. QED
      BY <1>5, <3>1, <3>2, <3>3, <3>4
  <2>2. UNCHANGED <<flash, cart, bought, order>>
    BY <1>5 DEF CartData, ValidateQuote, SetRead, CartSaveRead
  <2>3. QED
    BY <1>0, <2>1, <2>2 DEF ShopTypeOK, Screen
<1>6. QED
  BY <1>0, <1>1, <1>2, <1>3, <1>4, <1>5 DEF ShopNext, ShopTypeOK, Screen

PhoneCall == [pc : {"idle", "add", "remove"}, on : Card, of : Cards \cup {"none"}]
BookTyped ==
  /\ BookTypeOK
  /\ \A p \in Phones : /\ phone[p].pc = "add" => phone[p].on.name \in DormNames
                       /\ phone[p].pc = "remove" => phone[p].of \in Cards

LEMMA BookTypesStep == BookTyped /\ [BookNext]_bookVars => BookTyped'
<1> SUFFICES ASSUME BookTyped, [BookNext]_bookVars PROVE BookTyped'
  OBVIOUS
<1> DEFINE Aimed(w) == /\ w.pc = "add" => w.on.name \in DormNames
                       /\ w.pc = "remove" => w.of \in Cards
<1>0. /\ dorm \in [Dorms -> DormNames \cup {"none"}] /\ card \in [Cards -> Card]
      /\ phone \in [Phones -> PhoneCall] /\ copied \in Card /\ \A p \in Phones : Aimed(phone[p])
  BY DEF BookTyped, BookTypeOK, PhoneCall
<1>a. NoCard \in Card /\ OnHook \in PhoneCall /\ Aimed(OnHook)
  BY DEF NoCard, Card, Keys, OnHook, PhoneCall
<1>b. ASSUME NEW p \in Phones, NEW w \in PhoneCall, Aimed(w), phone' = [phone EXCEPT ![p] = w],
             dorm' \in [Dorms -> DormNames \cup {"none"}], card' \in [Cards -> Card], copied' \in Card
      PROVE  BookTyped'
  BY <1>0, <1>b DEF BookTyped, BookTypeOK, PhoneCall
<1>c. ASSUME NEW default \in BOOLEAN PROVE Cleared(default) \in [Cards -> Card]
  BY <1>0 DEF Cleared, Card
<1>1. CASE UNCHANGED phone /\ dorm' \in [Dorms -> DormNames \cup {"none"}] /\ card' \in [Cards -> Card] /\ copied' \in Card
  BY <1>0, <1>1 DEF BookTyped, BookTypeOK, PhoneCall
<1>2. CASE UNCHANGED bookVars
  BY <1>0, <1>1, <1>2 DEF bookVars
<1>3. ASSUME NEW d \in Dorms, DeleteBuilding(d) \/ \E n \in DormNames : CreateBuilding(d, n) \/ UpdateBuilding(d, n)
      PROVE  BookTyped'
  <2>1. dorm' \in [Dorms -> DormNames \cup {"none"}] /\ UNCHANGED <<card, phone, copied>>
    BY <1>0, <1>3 DEF DeleteBuilding, CreateBuilding, UpdateBuilding
  <2>2. QED
    BY <1>0, <1>1, <2>1
<1>4. ASSUME NEW p \in Phones, NEW n \in DormNames, NEW default \in BOOLEAN, AddClear(p, n, default)
      PROVE  BookTyped'
  <2> DEFINE new == [NoCard EXCEPT !.name = n, !.default = default]
             w == [OnHook EXCEPT !.pc = "add", !.on = new]
  <2>1. new \in Card /\ new.name = n
    BY <1>a DEF NoCard, Card
  <2> HIDE DEF new
  <2>2. w \in PhoneCall /\ w.pc = "add" /\ w.on = new
    BY <1>a, <2>1 DEF OnHook, PhoneCall
  <2> HIDE DEF w
  <2>3. phone' = [phone EXCEPT ![p] = w] /\ card' = Cleared(default) /\ UNCHANGED <<dorm, copied>>
    BY <1>4 DEF AddClear, Hold, w, new
  <2>4. QED
    BY <1>0, <1>b, <1>c, <2>1, <2>2, <2>3
<1>5. ASSUME NEW p \in Phones, NEW c \in Cards, RemoveRead(p, c) PROVE BookTyped'
  <2> DEFINE w == [OnHook EXCEPT !.pc = "remove", !.on = card[c], !.of = c]
  <2>1. w \in PhoneCall /\ w.pc = "remove" /\ w.of = c
    BY <1>0, <1>a DEF OnHook, PhoneCall
  <2> HIDE DEF w
  <2>2. phone' = [phone EXCEPT ![p] = w] /\ UNCHANGED <<dorm, card, copied>>
    BY <1>5 DEF RemoveRead, Hold, w
  <2>3. QED
    BY <1>0, <1>b, <2>1, <2>2
<1>6. ASSUME NEW p \in Phones, AddWrite(p) PROVE BookTyped'
  <2> DEFINE new == phone[p].on
  <2>1. new \in Card /\ new.name \in DormNames
    BY <1>0, <1>6 DEF AddWrite, PhoneCall
  <2>2. PICK c \in Cards, k \in KeyOf(new.name) : card' = [card EXCEPT ![c] = [new EXCEPT !.id = k]]
    BY <1>6 DEF AddWrite
  <2>3. [new EXCEPT !.id = k] \in Card
    <3>1. k \in Keys
      BY <2>1, <2>2 DEF KeyOf, Keys
    <3>2. QED
      BY <2>1, <3>1 DEF Card
  <2>4. card' \in [Cards -> Card]
    BY <1>0, <2>2, <2>3
  <2>5. QED
    BY <1>0, <1>a, <1>b, <1>6, <2>4 DEF AddWrite, HangUp
<1>7. ASSUME NEW p \in Phones, RemoveWrite(p) PROVE BookTyped'
  <2> DEFINE w == phone[p]
  <2>1. w.of \in Cards
    BY <1>0, <1>7 DEF RemoveWrite
  <2>2. card' \in [Cards -> Card]
    <3>1. CASE UNCHANGED card \/ card' = [card EXCEPT ![w.of] = NoCard]
      BY <1>0, <1>a, <3>1
    <3>2. ASSUME NEW next \in Cards, card' = [card EXCEPT ![w.of] = NoCard, ![next].default = TRUE]
          PROVE  card' \in [Cards -> Card]
      <4> DEFINE gone == [card EXCEPT ![w.of] = NoCard]
      <4>1. gone \in [Cards -> Card]
        BY <1>0, <1>a
      <4>2. card' = [gone EXCEPT ![next].default = TRUE]
        BY <3>2
      <4> HIDE DEF gone
      <4>3. [gone[next] EXCEPT !.default = TRUE] \in Card
        BY <4>1 DEF Card
      <4>4. QED
        BY <4>1, <4>2, <4>3
    <3>3. QED
      BY <1>7, <3>1, <3>2 DEF RemoveWrite, Written
  <2>3. QED
    BY <1>0, <1>a, <1>b, <1>7, <2>2 DEF RemoveWrite, HangUp
<1>8. ASSUME NEW p \in Phones, NEW c \in Cards,
             \/ SetDefaultAddress(p, c) \/ PlaceOrder(p, c) \/ \E n \in DormNames : UpdateAddress(p, c, n)
      PROVE  BookTyped'
  <2>1. CASE SetDefaultAddress(p, c)
    <3> DEFINE none == Cleared(TRUE)
    <3>1. none \in [Cards -> Card] /\ card' = [none EXCEPT ![c].default = TRUE]
      BY <1>c, <2>1 DEF SetDefaultAddress
    <3> HIDE DEF none
    <3>2. [none[c] EXCEPT !.default = TRUE] \in Card
      BY <3>1 DEF Card
    <3>3. card' \in [Cards -> Card]
      BY <3>1, <3>2
    <3>4. QED
      BY <1>0, <1>1, <2>1, <3>3 DEF SetDefaultAddress
  <2>2. CASE PlaceOrder(p, c)
    BY <1>0, <1>1, <2>2 DEF PlaceOrder
  <2>3. ASSUME NEW n \in DormNames, UpdateAddress(p, c, n) PROVE BookTyped'
    <3>1. [card[c] EXCEPT !.name = n] \in Card
      BY <1>0 DEF Card
    <3>2. QED
      BY <1>0, <1>1, <2>3, <3>1 DEF UpdateAddress
  <2>4. QED
    BY <1>8, <2>1, <2>2, <2>3
<1>9. QED
  BY <1>2, <1>3, <1>4, <1>5, <1>6, <1>7, <1>8 DEF BookNext

-----------------------------------------------------------------------------
(* Theorems about one module each                                          *)

LEMMA CatalogueInOrder == CatalogueInv => Catalogued
<1> SUFFICES ASSUME CatalogueInv PROVE Catalogued
  OBVIOUS
<1>1. SoleCopy /\ SoleName /\ Referred /\ SolePromo
      /\ promo \in [Promotions -> PromoRows] /\ Instants \subseteq Nat
  BY CatalogueAssumption DEF CatalogueInv, CatalogueTypeOK
<1>2. ASSUME NEW t \in Instants
      PROVE  Cardinality({m \in Promotions : promo[m].status = "active" /\ promo[m].from <= t /\ t < promo[m].to}) <= 1
  <2> DEFINE S == {m \in Promotions : promo[m].status = "active" /\ promo[m].from <= t /\ t < promo[m].to}
  <2>1. ASSUME NEW m \in S, NEW q \in S PROVE m = q
    <3>1. /\ promo[m].from \in Nat /\ promo[m].to \in Nat /\ promo[q].from \in Nat /\ promo[q].to \in Nat
          /\ t \in Nat
      BY <1>1 DEF PromoRows
    <3>2. Overlap(promo[m], promo[q])
      BY <3>1 DEF Overlap
    <3>3. QED
      BY <1>1, <3>2 DEF SolePromo
  <2>2. QED
    BY <2>1, AtMostOne
<1>3. Cardinality({p \in Copies : copy[p] # "none"}) <= 1
  BY <1>1, AtMostOne DEF SoleCopy
<1>4. ASSUME NEW n \in Names PROVE Cardinality(Named(n)) <= 1
  <2>1. \A j, k \in Named(n) : j = k
    BY <1>1, CatalogueAssumption DEF Named, SoleName
  <2>2. QED
    BY <2>1, AtMostOne
<1>5. QED
  BY <1>1, <1>2, <1>3, <1>4 DEF Catalogued, OnePromo, OneOfEach, Referred

\* Through the requests of one clerk, for any number of categories, copies and
\* promotions: one copy of a catalogue row, one category of a name, no copy
\* without a category, one promotion of a product at a time.
THEOREM CatalogueInOrderAlways ==
  (\A d, e \in Editors : d = e) /\ CatalogueSpec => []Catalogued
<1>1. ASSUME \A d, e \in Editors : d = e PROVE CatalogueSpec => []Catalogued
  <2>1. CatalogueInv /\ [CatalogueNext]_catalogueVars => CatalogueInv'
    BY <1>1, CatalogueStep
  <2>2. QED
    BY <2>1, CatalogueBegins, CatalogueInOrder, PTL DEF CatalogueSpec
<1>2. QED
  BY <1>1

\* A user with one device gets the flash price for one piece of one product in
\* an order, whatever sales do while the cart is filled, priced and ordered.
THEOREM FlashPriceOnce == (\A c, d \in Devices : c = d) /\ ShopSpec => []OneFlashPiece
<1>1. ASSUME \A c, d \in Devices : c = d PROVE ShopSpec => []OneFlashPiece
  <2>1. ShopInv /\ [ShopNext]_shopVars => ShopInv'
    BY <1>1, ShopStep
  <2>2. ShopInv => OneFlashPiece
    BY AtMostOne DEF ShopInv, Fit, OneFlashPiece
  <2>3. QED
    BY <2>1, <2>2, ShopBegins, PTL DEF ShopSpec
<1>2. QED
  BY <1>1

-----------------------------------------------------------------------------
(* The six modules together                                                *)

\* Each of them goes its own way, or stands still.
LEMMA EachOnItsOwn ==
  GoodsSpec => RestockSpec /\ ShelfSpec /\ CatalogueSpec /\ ShopSpec /\ BookSpec /\ ReceiptsSpec
<1>1. GoodsInit => RestockInit /\ ShelfInit /\ CatalogueInit /\ ShopInit /\ BookInit /\ ReceiptsInit
  BY DEF GoodsInit
<1>2. [GoodsNext]_goodsVars =>
        /\ [RestockNext]_restockVars /\ [ShelfNext]_shelfVars /\ [CatalogueNext]_catalogueVars
        /\ [ShopNext]_shopVars /\ [BookNext]_bookVars /\ [ReceiptsNext]_receiptVars
  <2>1. CASE UNCHANGED goodsVars
    BY <2>1 DEF goodsVars
  <2>2. CASE GoodsNext
    BY <2>2 DEF GoodsNext
  <2>3. QED
    BY <2>1, <2>2
<1>3. QED
  BY <1>1, <1>2, PTL DEF GoodsSpec, RestockSpec, ShelfSpec, CatalogueSpec, ShopSpec, BookSpec, ReceiptsSpec

\* Types, with any number of clerks, devices and phones.
THEOREM GoodsTypesHold == GoodsSpec => []GoodsTypeOK
<1>1. CatalogueSpec => []CatalogueTypeOK
  <2>1. CatalogueInit => CatalogueTyped
    <3>1. ASSUME CatalogueInit PROVE CatalogueTyped
      <4>1. CatalogueTypeOK /\ \A e \in Editors : editor[e] = OffDuty
        BY <3>1, CatalogueBegins DEF CatalogueInv, CatalogueInit
      <4>2. QED
        BY <4>1, OffDutyIsADesk DEF CatalogueTyped
    <3>2. QED
      BY <3>1
  <2>2. CatalogueTyped => CatalogueTypeOK
    BY DEF CatalogueTyped
  <2>3. QED
    BY <2>1, <2>2, CatalogueTypesStep, PTL DEF CatalogueSpec
<1>2. ShopSpec => []ShopTypeOK
  <2>1. ShopInit => ShopTypeOK
    BY ShopBegins DEF ShopInv
  <2>2. QED
    BY <2>1, ShopTypesStep, PTL DEF ShopSpec
<1>3. BookSpec => []BookTypeOK
  <2>1. BookInit => BookTyped
    <3>1. ASSUME BookInit PROVE BookTyped
      <4>1. BookTypeOK /\ \A p \in Phones : phone[p] = OnHook
        BY <3>1, BookBegins DEF BookInv, BookInit
      <4>2. QED
        BY <4>1 DEF BookTyped, OnHook
    <3>2. QED
      BY <3>1
  <2>2. BookTyped => BookTypeOK
    BY DEF BookTyped
  <2>3. QED
    BY <2>1, <2>2, BookTypesStep, PTL DEF BookSpec
<1>4. ShelfSpec => []ShelfTypeOK
  <2>1. ShelfInv => ShelfTypeOK
    BY DEF ShelfInv
  <2>2. QED
    BY <2>1, ShelfTyped, PTL
<1>5. RestockTypeOK /\ ShelfTypeOK /\ CatalogueTypeOK /\ ShopTypeOK /\ BookTypeOK /\ ReceiptsTypeOK => GoodsTypeOK
  BY DEF GoodsTypeOK
<1>6. QED
  BY <1>1, <1>2, <1>3, <1>4, <1>5, EachOnItsOwn, RestockTypesHold, ReceiptTypesHold, PTL

\* What a campus offers is in order, with one clerk at the catalogue and one
\* device in the shop.
THEOREM OfferedAlways ==
  (\A d, e \in Editors : d = e) /\ (\A c, d \in Devices : c = d) /\ GoodsSpec => []Offered
<1>1. ASSUME \A d, e \in Editors : d = e, \A c, d \in Devices : c = d PROVE GoodsSpec => []Offered
  <2>1. CatalogueSpec => []Catalogued
    BY <1>1, CatalogueInOrderAlways
  <2>2. ShopSpec => []OneFlashPiece
    BY <1>1, FlashPriceOnce
  <2>3. Catalogued /\ OneFlashPiece => Offered
    BY DEF Offered
  <2>4. QED
    BY <2>1, <2>2, <2>3, EachOnItsOwn, PTL
<1>2. QED
  BY <1>1
=============================================================================
