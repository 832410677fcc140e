------------------------------- MODULE Catalogue -------------------------------
(***************************************************************************)
(* What a campus offers: its categories, the copies it takes from the      *)
(* catalogue of its organisation, and the promotions of one of its         *)
(* products.  A clerk's request reads first and writes in a later step.    *)
(* Behind these checks the database has two constraints: a category's name *)
(* is unique in its campus, and so is a barcode, which the catalogue's row *)
(* does not have here.  Prices, texts and images are left out, and time is *)
(* a small number of instants.                                             *)
(***************************************************************************)
EXTENDS Naturals, FiniteSets

CONSTANTS
  Categories,      \* rows of Category of the campus
  Names, Template, \* names of categories, and the one of the catalogue's row
  Copies,          \* rows of Product that copy the catalogue's row
  Promotions,      \* rows of Promotion of one product
  Instants,        \* 0..n
  Editors          \* clerks at work at once

ASSUME CatalogueAssumption ==
  /\ Template \in Names /\ "none" \notin Categories \cup Copies \cup Promotions \cup Names
  /\ Instants \subseteq Nat /\ 0 \in Instants /\ Instants # {0}

VARIABLES
  category,        \* Category: its name, "none" while there is no row
  catalogued,      \* the catalogue's row is absent, off or on sale
  copy,            \* the category of a copy, "none" while there is no row
  promo,           \* Promotion: status and window
  now,
  editor           \* what a clerk's request has read

catalogueVars == <<category, catalogued, copy, promo, now, editor>>

NoPromo == [status |-> "absent", from |-> 0, to |-> 0]
OffDuty == [pc |-> "idle", row |-> "none", name |-> "none", promo |-> NoPromo]
PromoRows == [status : {"absent", "active", "disabled"}, from : Instants, to : Instants]

CatalogueTypeOK ==
  /\ category \in [Categories -> Names \cup {"none"}]
  /\ catalogued \in {"absent", "off-sale", "on-sale"}
  /\ copy \in [Copies -> Categories \cup {"none"}]
  /\ promo \in [Promotions -> PromoRows]
  /\ now \in Instants
  /\ editor \in [Editors -> [pc : {"idle", "name", "remove", "remap", "import", "promote"},
                             row : Categories \cup Promotions \cup {"none"},
                             name : Names \cup {"none"}, promo : PromoRows]]

CatalogueInit ==
  /\ category = [k \in Categories |-> "none"]
  /\ catalogued = "absent"
  /\ copy = [p \in Copies |-> "none"]
  /\ promo = [m \in Promotions |-> NoPromo]
  /\ now = 0
  /\ editor = [e \in Editors |-> OffDuty]

Sit(e, w) == editor[e] = OffDuty /\ editor' = [editor EXCEPT ![e] = w]
Rise(e) == editor' = [editor EXCEPT ![e] = OffDuty]

Named(n) == {k \in Categories : category[k] = n}
Used(k) == \E p \in Copies : copy[p] = k

-----------------------------------------------------------------------------
(* Categories *)

\* createCategory and updateCategory: no other category of the campus has
\* the name.
NameCheck(e, k, n) ==
  /\ Named(n) \ {k} = {} /\ category[k] # n
  /\ Sit(e, [OffDuty EXCEPT !.pc = "name", !.row = k, !.name = n])
  /\ UNCHANGED <<category, catalogued, copy, promo, now>>

\* A name that another category was given meanwhile breaks the unique key, and
\* nothing is written.
NameWrite(e) ==
  /\ editor[e].pc = "name" /\ Rise(e)
  /\ category' = IF Named(editor[e].name) \ {editor[e].row} # {} THEN category
                 ELSE [category EXCEPT ![editor[e].row] = editor[e].name]
  /\ UNCHANGED <<catalogued, copy, promo, now>>

\* deleteCategory: only one that no product of the campus is in; the database
\* refuses a row that is still referred to.
RemovalCheck(e, k) ==
  /\ category[k] # "none" /\ ~Used(k)
  /\ Sit(e, [OffDuty EXCEPT !.pc = "remove", !.row = k])
  /\ UNCHANGED <<category, catalogued, copy, promo, now>>

RemovalWrite(e) ==
  /\ editor[e].pc = "remove" /\ Rise(e)
  /\ category' = IF Used(editor[e].row) THEN category ELSE [category EXCEPT ![editor[e].row] = "none"]
  /\ UNCHANGED <<catalogued, copy, promo, now>>

-----------------------------------------------------------------------------
(* The catalogue of the organisation *)

\* createOrgProduct makes a row that is not for sale, updateOrgProduct
\* releases it and calls it back.
CreateOrgProduct ==
  /\ catalogued = "absent" /\ catalogued' = "off-sale"
  /\ UNCHANGED <<category, copy, promo, now, editor>>

UpdateOrgProduct ==
  /\ catalogued # "absent"
  /\ catalogued' = IF catalogued = "on-sale" THEN "off-sale" ELSE "on-sale"
  /\ UNCHANGED <<category, copy, promo, now, editor>>

\* importOrgProduct: a row on sale that the campus does not have yet.
NotImportedThere == \A p \in Copies : copy[p] \notin Named(Template)
NotImported == \A p \in Copies : copy[p] = "none"
ImportRead(e) ==
  /\ catalogued = "on-sale" /\ NotImported
  /\ Sit(e, [OffDuty EXCEPT !.pc = "remap"])
  /\ UNCHANGED <<category, catalogued, copy, promo, now>>

\* remapCategoryToCampus: the campus's category of that name, made if missing.
\* The two statements are one step: the unique key fails the import when
\* another clerk makes the category in between.
RemapTo(k) == IF Named(Template) = {} THEN category[k] = "none" ELSE k \in Named(Template)
RemapCategory(e) ==
  /\ editor[e].pc = "remap"
  /\ \E k \in Categories :
       /\ RemapTo(k)
       /\ category' = [category EXCEPT ![k] = Template]
       /\ editor' = [editor EXCEPT ![e].pc = "import", ![e].row = k]
  /\ UNCHANGED <<catalogued, copy, promo, now>>

\* A category that was deleted in between fails the import.
ImportWrite(e) ==
  /\ editor[e].pc = "import" /\ Rise(e)
  /\ \E p \in Copies :
       /\ copy[p] = "none"
       /\ copy' = IF category[editor[e].row] = "none" THEN copy ELSE [copy EXCEPT ![p] = editor[e].row]
  /\ UNCHANGED <<category, catalogued, promo, now>>

-----------------------------------------------------------------------------
(* Promotions *)

\* assertPromotionWindowFree: windows are half open.
Overlap(w, v) == w.from < v.to /\ v.from < w.to
WindowFree(m, w) == \A q \in Promotions \ {m} : promo[q].status = "active" => ~Overlap(w, promo[q])

CreatePromotion(e, m, w) ==
  /\ promo[m] = NoPromo /\ w.status = "active"
  /\ w.from < w.to /\ now < w.to /\ WindowFree(m, w)
  /\ Sit(e, [OffDuty EXCEPT !.pc = "promote", !.row = m, !.promo = w])
  /\ UNCHANGED <<category, catalogued, copy, promo, now>>

\* updatePromotion: switched on or off, moved, or both; the window is looked
\* at whenever it is moved and whenever the promotion is switched on.
CheckedOnMove(before, w) == <<w.from, w.to>> # <<before.from, before.to>>
Checked(before, w) == CheckedOnMove(before, w) \/ (w.status = "active" /\ before.status = "disabled")

UpdatePromotion(e, m, w) ==
  /\ promo[m] # NoPromo /\ now < promo[m].to
  /\ w # promo[m] /\ w.status # "absent"
  /\ w.from < w.to /\ now < w.to
  /\ Checked(promo[m], w) => WindowFree(m, w)
  /\ Sit(e, [OffDuty EXCEPT !.pc = "promote", !.row = m, !.promo = w])
  /\ UNCHANGED <<category, catalogued, copy, promo, now>>

PromotionWrite(e) ==
  /\ editor[e].pc = "promote" /\ Rise(e)
  /\ promo' = [promo EXCEPT ![editor[e].row] = editor[e].promo]
  /\ UNCHANGED <<category, catalogued, copy, now>>

Tick ==
  /\ now + 1 \in Instants /\ now' = now + 1
  /\ UNCHANGED <<category, catalogued, copy, promo, editor>>

-----------------------------------------------------------------------------

CatalogueNext ==
  \/ CreateOrgProduct \/ UpdateOrgProduct \/ Tick
  \/ \E e \in Editors :
       \/ NameWrite(e) \/ RemovalWrite(e) \/ ImportRead(e) \/ RemapCategory(e) \/ ImportWrite(e) \/ PromotionWrite(e)
       \/ \E k \in Categories : RemovalCheck(e, k) \/ \E n \in Names : NameCheck(e, k, n)
       \/ \E m \in Promotions, w \in PromoRows : CreatePromotion(e, m, w) \/ UpdatePromotion(e, m, w)

CatalogueSpec == CatalogueInit /\ [][CatalogueNext]_catalogueVars

-----------------------------------------------------------------------------
(* Properties *)

\* A product has one promotion at a time, through any order of creating,
\* moving, switching off and switching on again (assertPromotionWindowFree).
\* Two clerks break it: the check and the write are apart.
OnePromo ==
  \A t \in Instants : Cardinality({m \in Promotions : promo[m].status = "active"
                                                     /\ promo[m].from <= t /\ t < promo[m].to}) <= 1

\* Importing again, after the copy's category was renamed or the row was called
\* back, neither copies the row twice nor makes a second category of a name
\* (importOrgProduct, remapCategoryToCampus, createCategory, updateCategory).
OneOfEach ==
  /\ Cardinality({p \in Copies : copy[p] # "none"}) <= 1
  /\ \A n \in Names : Cardinality(Named(n)) <= 1
  /\ \A p \in Copies : copy[p] # "none" => category[copy[p]] # "none"

\* What a campus offers stays in order through the requests of one clerk.
Catalogued == OnePromo /\ OneOfEach
=============================================================================
