------------------------------- MODULE MCGoods -------------------------------
(***************************************************************************)
(* Instances of the six modules about goods for TLC.  They share no state, *)
(* so that interleaving them would only multiply their state spaces:       *)
(* "aisle" names the one that moves in a behaviour, while the others stay  *)
(* as they begin.                                                          *)
(***************************************************************************)
EXTENDS Restock, Inventory, Catalogue, Storefront, AddressBook, Receipts

VARIABLE aisle

aisles == {"restock", "shelf", "catalogue", "shop", "address", "receipts"}

GoodsInit ==
  /\ aisle \in aisles
  /\ RestockInit /\ ShelfInit /\ CatalogueInit /\ ShopInit /\ BookInit /\ ReceiptsInit
  /\ RestockTypeOK /\ ShelfTypeOK /\ CatalogueTypeOK /\ ShopTypeOK /\ BookTypeOK /\ ReceiptsTypeOK

GoodsNext ==
  \/ aisle = "restock" /\ UNCHANGED <<aisle, shelfVars, catalogueVars, shopVars, bookVars, receiptVars>>
     /\ RestockNext
  \/ aisle = "shelf" /\ UNCHANGED <<aisle, restockVars, catalogueVars, shopVars, bookVars, receiptVars>>
     /\ ShelfNext
  \/ aisle = "catalogue" /\ UNCHANGED <<aisle, restockVars, shelfVars, shopVars, bookVars, receiptVars>>
     /\ CatalogueNext
  \/ aisle = "shop" /\ UNCHANGED <<aisle, restockVars, shelfVars, catalogueVars, bookVars, receiptVars>>
     /\ ShopNext
  \/ aisle = "address" /\ UNCHANGED <<aisle, restockVars, shelfVars, catalogueVars, shopVars, receiptVars>>
     /\ BookNext
  \/ aisle = "receipts" /\ UNCHANGED <<aisle, restockVars, shelfVars, catalogueVars, shopVars, bookVars>>
     /\ ReceiptsNext

goodsVars == <<aisle, restockVars, shelfVars, catalogueVars, shopVars, bookVars, receiptVars>>

GoodsSpec == GoodsInit /\ [][GoodsNext]_goodsVars

\* What can differ between two states in which the same one moves.
GoodsView ==
  <<aisle,
    CASE aisle = "restock" -> restockVars
      [] aisle = "shelf" -> shelfVars
      [] aisle = "catalogue" -> catalogueVars
      [] aisle = "shop" -> shopVars
      [] aisle = "address" -> bookVars
      [] aisle = "receipts" -> receiptVars>>

\* The type invariants of the modules, each where its own state moves.
GoodsTypeOK ==
  /\ aisle = "restock" => RestockTypeOK
  /\ aisle = "shelf" => ShelfTypeOK
  /\ aisle = "catalogue" => CatalogueTypeOK
  /\ aisle = "shop" => ShopTypeOK
  /\ aisle = "address" => BookTypeOK
  /\ aisle = "receipts" => ReceiptsTypeOK

\* A shop offers each thing once, at one price at a time, and a flash price
\* for one piece (Catalogue, Storefront).
Offered == Catalogued /\ OneFlashPiece
=============================================================================
