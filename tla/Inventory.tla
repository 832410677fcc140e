------------------------------ MODULE Inventory ------------------------------
(***************************************************************************)
(* One product row of a campus: its stock, its source of supply and its    *)
(* ledger (InventoryTxn).  Goods come in by hand (LOCAL) or as a restock   *)
(* delivery (HQ), customers buy and are refunded, and clerks correct the   *)
(* count and edit the row, each having read it a while ago.                *)
(***************************************************************************)
EXTENDS Integers, FiniteSets

CONSTANTS
  ShelfClerks,   \* requests on the row, of clerks and of payments
  Deliveries,    \* restock orders of the campus for the product
  Echo,          \* what the product form sends back unchanged: "stock", "mode" or neither
  ShelfLimit     \* bound on stock, counts and ledger (checking only)

ASSUME ShelfLimitAssumption == ShelfLimit \in Nat \ {0}
ASSUME EchoAssumption == Echo \subseteq {"stock", "mode"}

VARIABLES
  mode,       \* Product.procurementMode; "none" before the row exists
  shelf,      \* Product.stock
  ledger,     \* sum of InventoryTxn.delta
  sold,       \* units sold and not booked out yet, by the source they were sold as
  delivery,   \* status of the restock orders
  out,        \* the source of the last unit booked out, while it may be refunded
  sources,    \* where the goods bought for the shelf came from since it was last empty at a switch
  clerk       \* what each request has read

shelfVars == <<mode, shelf, ledger, sold, out, delivery, sources, clerk>>

Modes == {"unset", "HQ", "LOCAL"}
Resting == [op |-> "rest", mode |-> "none", to |-> "none", shelf |-> 0, count |-> 0, d |-> "none"]

ShelfTypeOK ==
  /\ mode \in Modes \cup {"none"}
  /\ shelf \in Int /\ ledger \in Int
  /\ sold \in [Modes -> Nat] /\ out \in Modes \cup {"none"}
  /\ delivery \in [Deliveries -> {"none", "ordered", "shipped", "received"}]
  /\ sources \subseteq {"HQ", "LOCAL"}
  /\ clerk \in [ShelfClerks -> [op : {"rest", "in", "adjust", "count", "edit", "receipt", "return", "pay"},
                                mode : Modes \cup {"none"}, to : Modes \cup {"none"}, shelf : Int,
                                count : Int, d : Deliveries \cup {"none"}]]

\* Rows from before the sources were recorded have none, and may have stock.
ShelfInit ==
  /\ mode \in {"none", "unset"}
  /\ shelf \in IF mode = "unset" THEN 0..1 ELSE {0}
  /\ ledger = 0
  /\ sold = [m \in Modes |-> 0] /\ out = "none"
  /\ delivery = [d \in Deliveries |-> "none"]
  /\ sources = {}
  /\ clerk = [c \in ShelfClerks |-> Resting]

Reads(c, request) == /\ clerk[c] = Resting
                     /\ mode # "none"
                     /\ clerk' = [clerk EXCEPT ![c] = request]
                     /\ UNCHANGED <<mode, shelf, ledger, sold, out, delivery, sources>>
Over(c) == clerk' = [clerk EXCEPT ![c] = Resting]
Gives(c) == Over(c) /\ UNCHANGED <<mode, shelf, ledger, sold, out, delivery, sources>>
Room(n) == shelf + n <= ShelfLimit /\ ledger + n \in -ShelfLimit..ShelfLimit

-----------------------------------------------------------------------------
(* The row appears *)

\* A campus makes rows of its own goods only; opening stock has no ledger entry.
CreateProduct ==
  /\ mode = "none"
  /\ mode' = "LOCAL" /\ shelf' \in 0..1
  /\ sources' = IF shelf' = 0 THEN {} ELSE {"LOCAL"}
  /\ UNCHANGED <<ledger, sold, out, delivery, clerk>>

ImportProduct ==
  /\ mode = "none"
  /\ mode' = "HQ"
  /\ UNCHANGED <<shelf, ledger, sold, out, delivery, sources, clerk>>

-----------------------------------------------------------------------------
(* Stock comes in and is corrected *)

StockInRead(c) ==
  mode = "LOCAL" /\ Room(1) /\ Reads(c, [Resting EXCEPT !.op = "in"])

\* The update matches a LOCAL row only, or the transaction is rolled back.
TakesLocalUnchecked == TRUE
TakesLocal == mode = "LOCAL"

StockIn(c) ==
  /\ clerk[c].op = "in" /\ Room(1)
  /\ IF TakesLocal
       THEN /\ shelf' = shelf + 1 /\ ledger' = ledger + 1
            /\ sources' = sources \cup {"LOCAL"}
            /\ Over(c) /\ UNCHANGED <<mode, sold, out, delivery>>
       ELSE Gives(c)

\* adjustStock looks at the stock in its transaction, without a lock.
AdjustRead(c) ==
  \E n \in {-1, 1} : /\ Room(n) /\ shelf + n >= 0
                     /\ Reads(c, [Resting EXCEPT !.op = "adjust", !.count = n])

\* The entry in the ledger and the change of the stock are one transaction.
EntryOfCount(n) == 0
Entry(n) == n

Adjust(c) ==
  LET n == clerk[c].count IN
  /\ clerk[c].op = "adjust" /\ Room(n)
  /\ shelf' = shelf + n /\ ledger' = ledger + Entry(n)
  /\ Over(c) /\ UNCHANGED <<mode, sold, out, delivery, sources>>

\* stocktake computes the entry from the stock it read and then sets the count.
CountRead(c) ==
  \E n \in 0..ShelfLimit :
    n # shelf /\ Reads(c, [Resting EXCEPT !.op = "count", !.shelf = shelf, !.count = n])

Stocktake(c) ==
  LET t == clerk[c] IN
  /\ clerk[c].op = "count"
  /\ ledger + t.count - t.shelf \in -ShelfLimit..ShelfLimit
  /\ shelf' = t.count /\ ledger' = ledger + t.count - t.shelf
  /\ Over(c) /\ UNCHANGED <<mode, sold, out, delivery, sources>>

-----------------------------------------------------------------------------
(* updateProduct *)

Undelivered == \E d \in Deliveries : delivery[d] \in {"ordered", "shipped"}

\* Another source only over an empty shelf and with nothing on order; a first
\* source at any time.
EditRead(c) ==
  \E to \in Modes \ {"unset"} :
    /\ to # mode => (mode = "unset" \/ shelf <= 0) /\ ~Undelivered
    /\ Reads(c, [Resting EXCEPT !.op = "edit", !.mode = mode, !.to = to, !.shelf = shelf])

\* The condition of the update that changes the source.
SwitchableByMode(t) == mode = t.mode
Switchable(t) == mode = t.mode /\ (t.mode = "unset" \/ shelf = 0)

\* A value that equals the one read passes every check, and is written again.
Edit(c) ==
  LET t == clerk[c]
      saved == t.to # t.mode \/ "mode" \in Echo
  IN /\ t.op = "edit"
     /\ IF t.to = t.mode \/ Switchable(t)
          THEN /\ mode' = IF saved THEN t.to ELSE mode
               /\ shelf' = IF "stock" \in Echo THEN t.shelf ELSE shelf
               /\ sources' = IF mode' # mode /\ shelf <= 0 THEN {} ELSE sources
               /\ Over(c) /\ UNCHANGED <<ledger, sold, out, delivery>>
          ELSE Gives(c)

-----------------------------------------------------------------------------
(* Restock deliveries *)

\* Headquarters' side of an order: Restock has it in full.
Order(d) == /\ mode # "none" /\ delivery[d] = "none"
            /\ delivery' = [delivery EXCEPT ![d] = "ordered"]
            /\ UNCHANGED <<mode, shelf, ledger, sold, out, sources, clerk>>
Ship(d) == /\ delivery[d] = "ordered"
           /\ delivery' = [delivery EXCEPT ![d] = "shipped"]
           /\ UNCHANGED <<mode, shelf, ledger, sold, out, sources, clerk>>

ReceiptAtShelf(c, d) ==
  /\ delivery[d] = "shipped" /\ mode # "LOCAL" /\ Room(1)
  /\ Reads(c, [Resting EXCEPT !.op = "receipt", !.d = d])

\* The update matches a row without a source or an HQ row, and makes it HQ.
TakesHqUnchecked == TRUE
TakesHq == mode \in {"unset", "HQ"}

Receipt(c) ==
  /\ clerk[c].op = "receipt" /\ Room(1)
  /\ IF TakesHq
       THEN /\ mode' = "HQ" /\ shelf' = shelf + 1 /\ ledger' = ledger + 1
            /\ sources' = sources \cup {"HQ"}
            /\ delivery' = [delivery EXCEPT ![clerk[c].d] = "received"]
            /\ Over(c) /\ UNCHANGED <<sold, out>>
       ELSE Gives(c)

-----------------------------------------------------------------------------
(* Orders of customers, as far as the row sees them *)

UnitsSold == sold["unset"] + sold["HQ"] + sold["LOCAL"]
\* Taken back from a customer and not on the shelf yet.
Returning == Cardinality({c \in ShelfClerks : clerk[c].op = "return" /\ clerk[c].count = 0})

\* pay keeps the source it read with the order, and takes what is left of the
\* stock later.
PayRead(c) ==
  /\ shelf > 0 /\ UnitsSold + Returning < ShelfLimit
  /\ Reads(c, [Resting EXCEPT !.op = "pay", !.mode = mode])

Pay(c) ==
  /\ clerk[c].op = "pay" /\ UnitsSold + Returning < ShelfLimit
  /\ IF shelf > 0
       THEN /\ shelf' = shelf - 1
            /\ sold' = [sold EXCEPT ![clerk[c].mode] = @ + 1]
            /\ Over(c) /\ UNCHANGED <<mode, ledger, out, delivery, sources>>
       ELSE Gives(c)

\* Outbound writes the ledger for an order that is paid and not booked out.
BookableUnread(m) == TRUE
Bookable(m) == sold[m] > 0

BookOut(m) ==
  /\ Bookable(m) /\ ledger > -ShelfLimit
  /\ sold' = [sold EXCEPT ![m] = @ - 1]
  /\ ledger' = ledger - 1
  /\ out' = m
  /\ UNCHANGED <<mode, shelf, delivery, sources, clerk>>

\* finishRefund takes the order, reads the row's source, and then puts the
\* goods back if they were sold under it, or without one: also those of an
\* order that was booked out meanwhile.
ReturnRead(c, m) ==
  /\ clerk[c] = Resting
  /\ \/ sold[m] > 0 /\ sold' = [sold EXCEPT ![m] = @ - 1] /\ UNCHANGED out
     \/ out = m /\ out' = "none" /\ UNCHANGED sold
  /\ clerk' = [clerk EXCEPT ![c] = [Resting EXCEPT !.op = "return", !.mode = mode, !.to = m,
                                                   !.count = IF out' = out THEN 0 ELSE 1]]
  /\ UNCHANGED <<mode, shelf, ledger, delivery, sources>>

Return(c) ==
  LET t == clerk[c] IN
  /\ clerk[c].op = "return"
  /\ shelf' = IF t.to \in {"unset", t.mode} THEN shelf + 1 ELSE shelf
  /\ Over(c) /\ UNCHANGED <<mode, sold, ledger, delivery, sources, out>>

ShelfDesk(c) ==
  \/ StockInRead(c) \/ StockIn(c) \/ AdjustRead(c) \/ Adjust(c) \/ CountRead(c) \/ Stocktake(c)
  \/ EditRead(c) \/ Edit(c) \/ Receipt(c) \/ PayRead(c) \/ Pay(c) \/ Return(c)
  \/ \E d \in Deliveries : ReceiptAtShelf(c, d)
  \/ \E m \in Modes : ReturnRead(c, m)

ShelfNext ==
  \/ CreateProduct \/ ImportProduct
  \/ \E d \in Deliveries : Order(d) \/ Ship(d)
  \/ \E m \in Modes : BookOut(m)
  \/ \E c \in ShelfClerks : ShelfDesk(c)

ShelfSpec == ShelfInit /\ [][ShelfNext]_shelfVars

-----------------------------------------------------------------------------
(* Properties *)

\* The goods bought for a shelf are all of the source its row names: neither a
\* delivery nor a purchase by hand lands on a row that was switched while it
\* was on its way, and no switch happens over goods that arrived meanwhile
\* (stockIn, confirmRestockReceipt, updateProduct).
OneSource == sources \subseteq {mode}

Unexplained == shelf + UnitsSold + Returning - ledger

\* Whatever moves the stock is in the ledger or will be at outbound, apart from
\* a stocktake, a row's opening stock, goods refunded after a change of source
\* and goods refunded after they were booked out (updateProduct, stockIn,
\* adjustStock, confirmRestockReceipt, pay, outbound, finishRefund).
LedgerExplainsMoves ==
  [][Unexplained' # Unexplained =>
       \/ mode = "none"
       \/ \E c \in ShelfClerks :
            /\ clerk'[c] = Resting
            /\ \/ clerk[c].op = "count"
               \/ clerk[c].op = "return"
                  /\ (clerk[c].count = 1 \/ clerk[c].to \notin {"unset", clerk[c].mode})]_shelfVars

\* Saving a product form leaves the stock alone: stock moves by stocktake and
\* stock-in, which write the ledger (updateProduct).  With "stock" in Echo,
\* which sends the form's old number along, it undoes sales; no run checks it.
EditKeepsStock ==
  [][(\E c \in ShelfClerks : clerk[c].op = "edit" /\ clerk'[c] = Resting) => shelf' = shelf]_shelfVars
=============================================================================
