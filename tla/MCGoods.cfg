\* One shelf, one shop, one campus; two requests at a time where they race.
SPECIFICATION GoodsSpec
CONSTANTS
  RestockOrders = {ro1}
  Purchases = {po1, po2}
  Buyers = {b1}
  Shippers = {sh1, sh2}
  Receivers = {rc1}
  Cases = 1
  ShelfClerks = {k1, k2}
  Deliveries = {d1}
  Echo = {}
  ShelfLimit = 1
  Categories = {cat1, cat2}
  Names = {drinks, snacks}
  Template = drinks
  Copies = {copy1, copy2}
  Promotions = {promo1, promo2}
  Instants = {0, 1, 2}
  Editors = {ed1}
  Goods = {g1, g2}
  Devices = {dev1}
  MaxQty = 2
  LimitQty = 2
  Dorms = {dorm1, dorm2}
  DormNames = {north, south}
  Cards = {card1, card2}
  Phones = {phone1}
  PrintSites = {ps1}
  Terminals = {tm1}
  Slips = {slip1, slip2}
  Prints = {print1, print2}
  LastDay = 1
  MaxCopies = 2
INVARIANTS GoodsTypeOK ShippedOnce PurchasesInOrder OneSource Offered OneDefault NumbersDiffer
PROPERTY LedgerExplainsMoves
VIEW GoodsView
CHECK_DEADLOCK FALSE
