------------------------------ MODULE AddressBook ------------------------------
(***************************************************************************)
(* The buildings of a campus and a customer's addresses in them            *)
(* (AdminService's buildings, BusinessService's addresses).  The customer  *)
(* writes the name of a building; the address keeps the name and, if there *)
(* is a building of that name, its id, which decides later whose round an  *)
(* order is on.  Rooms, floors and contacts are left out.                  *)
(***************************************************************************)
EXTENDS Naturals

CONSTANTS
  Dorms,         \* rows of Building
  DormNames,
  Cards,         \* rows of Address, of one customer at one campus
  Phones         \* requests of the customer at once

ASSUME DormAssumption == "none" \notin Dorms \cup DormNames /\ Dorms \cap DormNames = {}

VARIABLES
  dorm,          \* the name of a building, "none" while there is no such row
  card,          \* Address: buildingId, buildingName, isDefault
  phone,         \* what a request of the customer has read
  copied          \* the address of the latest order, as it was copied

bookVars == <<dorm, card, phone, copied>>

Keys == Dorms \cup DormNames \cup {"none"}
NoCard == [id |-> "none", name |-> "none", default |-> FALSE]
Card == [id : Keys, name : DormNames \cup {"none"}, default : BOOLEAN]
OnHook == [pc |-> "idle", on |-> NoCard, of |-> "none"]

BookTypeOK ==
  /\ dorm \in [Dorms -> DormNames \cup {"none"}]
  /\ card \in [Cards -> Card]
  /\ phone \in [Phones -> [pc : {"idle", "add", "remove"}, on : Card, of : Cards \cup {"none"}]]
  /\ copied \in Card

BookInit ==
  /\ dorm = [d \in Dorms |-> "none"]
  /\ card = [c \in Cards |-> NoCard]
  /\ phone = [p \in Phones |-> OnHook]
  /\ copied = NoCard

Written == {c \in Cards : card[c] # NoCard}
Hold(p, w) == phone[p] = OnHook /\ phone' = [phone EXCEPT ![p] = w]
HangUp(p) == phone' = [phone EXCEPT ![p] = OnHook]

-----------------------------------------------------------------------------
(* Buildings *)

\* createBuilding refuses a name that is taken, updateBuilding does not.
CreateBuilding(d, n) ==
  /\ dorm[d] = "none" /\ \A e \in Dorms : dorm[e] # n
  /\ dorm' = [dorm EXCEPT ![d] = n]
  /\ UNCHANGED <<card, phone, copied>>

UpdateBuilding(d, n) ==
  /\ dorm[d] # "none"
  /\ dorm' = [dorm EXCEPT ![d] = n]
  /\ UNCHANGED <<card, phone, copied>>

\* deleteBuilding asks for rooms and staff, and not for addresses.
DeleteBuilding(d) ==
  /\ dorm[d] # "none"
  /\ dorm' = [dorm EXCEPT ![d] = "none"]
  /\ UNCHANGED <<card, phone, copied>>

-----------------------------------------------------------------------------
(* Addresses *)

\* The building that has the name, or the name itself in place of an id.
KeyOf(n) == IF \E d \in Dorms : dorm[d] = n THEN {d \in Dorms : dorm[d] = n} ELSE {n}

\* A new default clears the others.
ClearedNever(default) == card
Cleared(default) ==
  IF default THEN [c \in Cards |-> [card[c] EXCEPT !.default = FALSE]] ELSE card

\* addAddress clears the others first, and then creates the row.
AddClear(p, n, default) ==
  /\ Hold(p, [OnHook EXCEPT !.pc = "add", !.on = [NoCard EXCEPT !.name = n, !.default = default]])
  /\ card' = Cleared(default)
  /\ UNCHANGED <<dorm, copied>>

AddWrite(p) ==
  LET new == phone[p].on IN
  /\ phone[p].pc = "add" /\ HangUp(p)
  /\ \E c \in Cards \ Written, k \in KeyOf(new.name) : card' = [card EXCEPT ![c] = [new EXCEPT !.id = k]]
  /\ UNCHANGED <<dorm, copied>>

\* updateAddress writes the name that the customer gives and leaves the id.
UpdateAddress(p, c, n) ==
  /\ phone[p] = OnHook /\ c \in Written
  /\ card' = [card EXCEPT ![c].name = n]
  /\ UNCHANGED <<dorm, phone, copied>>

\* deleteAddress passes the default on, if the address was it when it was read.
RemoveRead(p, c) ==
  /\ c \in Written
  /\ Hold(p, [OnHook EXCEPT !.pc = "remove", !.on = card[c], !.of = c])
  /\ UNCHANGED <<dorm, card, copied>>

RemoveWrite(p) ==
  LET w == phone[p]
      rest == Written \ {w.of}
  IN /\ w.pc = "remove" /\ HangUp(p)
     /\ IF w.of \notin Written THEN UNCHANGED card
        ELSE IF w.on.default /\ rest # {}
        THEN \E next \in rest : card' = [card EXCEPT ![w.of] = NoCard, ![next].default = TRUE]
        ELSE card' = [card EXCEPT ![w.of] = NoCard]
     /\ UNCHANGED <<dorm, copied>>

\* setDefaultAddress: one transaction.
SetDefaultAddress(p, c) ==
  /\ phone[p] = OnHook /\ c \in Written
  /\ card' = [Cleared(TRUE) EXCEPT ![c].default = TRUE]
  /\ UNCHANGED <<dorm, phone, copied>>

\* createOrder copies the address; the copy is what the order goes by.
PlaceOrder(p, c) ==
  /\ phone[p] = OnHook /\ c \in Written
  /\ copied' = card[c]
  /\ UNCHANGED <<dorm, card, phone>>

-----------------------------------------------------------------------------

BookNext ==
  \/ \E d \in Dorms : DeleteBuilding(d) \/ \E n \in DormNames : CreateBuilding(d, n) \/ UpdateBuilding(d, n)
  \/ \E p \in Phones :
       \/ AddWrite(p) \/ RemoveWrite(p)
       \/ \E n \in DormNames, default \in BOOLEAN : AddClear(p, n, default)
       \/ \E c \in Cards : \/ RemoveRead(p, c) \/ SetDefaultAddress(p, c) \/ PlaceOrder(p, c)
                           \/ \E n \in DormNames : UpdateAddress(p, c, n)

BookSpec == BookInit /\ [][BookNext]_bookVars

-----------------------------------------------------------------------------
(* Properties *)

\* The checkout opens with the default address, of which there is at most one
\* in whatever order a customer adds, removes and chooses addresses
\* (addAddress, deleteAddress, setDefaultAddress).  It takes one request at a
\* time: addAddress is not a transaction, and deleteAddress reads before its own.
OneDefault ==
  \A c, e \in Cards : card[c].default /\ card[e].default => c = e

\* An order is on the round of the building whose name its address bears
\* (FulfillmentService 300-301: the snapshot holds the real id).  After an
\* updateAddress it is not, nor when two buildings have swapped their names;
\* no run checks it.
GoesWhereItSays ==
  \A d \in Dorms : copied.id = d /\ dorm[d] # "none" => copied.name = dorm[d]
=============================================================================
