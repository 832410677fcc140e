-------------------------------- MODULE Tenancy --------------------------------
(***************************************************************************)
(* Organisations, the mini programs they register, their campuses, and the *)
(* users who log in through a mini program.  The organisation of a request *)
(* is found by the AppID of the mini program, that of a user by its        *)
(* campus; nothing in the database ties the two together.                  *)
(*                                                                         *)
(* An operator's check and its write are two steps, as are the reads of a  *)
(* login or a switch of campus and their writes.  Secrets, merchant keys,  *)
(* names and the campus's settings are left out; every AppID has a secret. *)
(***************************************************************************)
EXTENDS Naturals, FiniteSets

CONSTANTS
  Orgs, FirstOrg,     \* organisations, and the one that is there from the start
  Apps,               \* AppIDs of mini programs
  Sites,              \* campuses
  Users,
  Operators           \* operators at work at once

ASSUME TenancyAssumption == FirstOrg \in Orgs /\ "none" \notin Orgs \cup Apps \cup Sites

VARIABLES
  org,                \* Organization: status, wxAppId, deliveryWxAppId
  site,               \* Campus: status, organizationId, and the organisation
                      \* whose bootstrap opened it, while it is there
  chief,              \* organisation administrators created by bootstrap
  user,               \* User: the AppID of its openid, its campus
  op,                 \* what an operator's request has read
  visitor,            \* what a user's request has read
  disturbed           \* a campus or an AppID has changed hands under a user

tenancyVars == <<org, site, chief, user, op, visitor, disturbed>>

NoOrg == [status |-> "absent", app |-> "none", delivery |-> "none"]
NoSite == [status |-> "absent", org |-> "none", kit |-> "none"]
NoUser == [app |-> "none", site |-> "none"]
Unoccupied == [pc |-> "idle", org |-> "none", app |-> "none", delivery |-> "none", hasSite |-> FALSE,
           hasChief |-> FALSE]
Away == [pc |-> "idle", app |-> "none", org |-> "none", site |-> "none"]

TenancyTypeOK ==
  /\ org \in [Orgs -> [status : {"absent", "active", "disabled"}, app : Apps \cup {"none"},
                       delivery : Apps \cup {"none"}]]
  /\ site \in [Sites -> [status : {"absent", "active", "closed"}, org : Orgs \cup {"none"},
                         kit : Orgs \cup {"none"}]]
  /\ chief \in [Orgs -> Nat]
  /\ user \in [Users -> [app : Apps \cup {"none"}, site : Sites \cup {"none"}]]
  /\ op \in [Operators -> [pc : {"idle", "create", "update", "site", "chief"}, org : Orgs \cup {"none"},
                           app : Apps \cup {"none"}, delivery : Apps \cup {"none"},
                           hasSite : BOOLEAN, hasChief : BOOLEAN]]
  /\ visitor \in [Users -> [pc : {"idle", "login", "switch"}, app : Apps \cup {"none"},
                            org : Orgs \cup {"none"}, site : Sites \cup {"none"}]]
  /\ disturbed \in BOOLEAN

TenancyInit ==
  /\ org = [o \in Orgs |-> IF o = FirstOrg THEN [NoOrg EXCEPT !.status = "active"] ELSE NoOrg]
  /\ site = [s \in Sites |-> NoSite]
  /\ chief = [o \in Orgs |-> 0]
  /\ user = [u \in Users |-> NoUser]
  /\ op = [x \in Operators |-> Unoccupied]
  /\ visitor = [u \in Users |-> Away]
  /\ disturbed = FALSE

Take(x, w) == op[x] = Unoccupied /\ op' = [op EXCEPT ![x] = w]
AtHand == \E x \in Operators : op[x] = Unoccupied
Release(x) == op' = [op EXCEPT ![x] = Unoccupied]

-----------------------------------------------------------------------------
(* Operators *)

\* assertOrganizationUnique: another organisation has the AppID in a column.
TakenInColumn(o, a, column) == a # "none" /\ \E other \in Orgs \ {o} : org[other][column] = a
TakenElsewhere(o, a, column) ==
  a # "none" /\ \E other \in Orgs \ {o} : org[other].app = a \/ org[other].delivery = a

Registrable(o, a, d) ==
  /\ a = "none" \/ a # d
  /\ ~TakenElsewhere(o, a, "app") /\ ~TakenElsewhere(o, d, "delivery")

\* createOrganization needs an AppID for its users; the one for couriers may follow.
OrgCheck(x, o, a, d) ==
  /\ Registrable(o, a, d)
  /\ \/ org[o].status = "absent" /\ a # "none" /\ Take(x, [Unoccupied EXCEPT !.pc = "create", !.org = o,
                                                             !.app = a, !.delivery = d])
     \/ org[o].status # "absent" /\ Take(x, [Unoccupied EXCEPT !.pc = "update", !.org = o,
                                               !.app = a, !.delivery = d])
  /\ UNCHANGED <<org, site, chief, user, visitor, disturbed>>

\* Only deliveryWxAppId is unique in the database.  A user is disturbed when
\* the AppID of its mini program changes hands.
UniqueDelivery(o, d) == d = "none" \/ \A other \in Orgs \ {o} : org[other].delivery # d
Started(u) == user[u] # NoUser \/ visitor[u] # Away

NewOrg(w) == [status |-> "active", app |-> w.app, delivery |-> w.delivery]

OrgWrite(x) ==
  LET w == op[x] IN
  /\ w.pc \in {"create", "update"} /\ Release(x)
  /\ IF UniqueDelivery(w.org, w.delivery)
     THEN /\ org' = [org EXCEPT ![w.org] = IF w.pc = "create" THEN NewOrg(w) ELSE
                                           [@ EXCEPT !.app = w.app, !.delivery = w.delivery]]
          /\ disturbed' = (disturbed \/ (w.app # org[w.org].app /\ \E u \in Users : Started(u)))
     ELSE UNCHANGED <<org, disturbed>>
  /\ UNCHANGED <<site, chief, user, visitor>>

\* setOrganizationStatus: nothing is done to campuses, accounts or logins.
SetOrganizationStatus(o, status) ==
  /\ AtHand /\ org[o].status # "absent"
  /\ org' = [org EXCEPT ![o].status = status]
  /\ UNCHANGED <<site, chief, user, op, visitor, disturbed>>

\* createCampus and the campus of a bootstrap (createCampusWithTemplates).
Opened(o, kit) ==
  \E s \in Sites : site[s] = NoSite /\ site' = [site EXCEPT ![s] = [status |-> "active", org |-> o, kit |-> kit]]

CreateCampus(o) ==
  /\ AtHand /\ org[o].status = "active" /\ Opened(o, "none")
  /\ UNCHANGED <<org, chief, user, op, visitor, disturbed>>

\* bootstrapOrganization: reads what is there, of any status; then the campus
\* and the administrator are created one after the other, each if it was
\* missing.  The administrator may fail (the user name is taken, the role is
\* missing), which leaves the campus for the next attempt.
SiteOfOpen(o) == \E s \in Sites : site[s].org = o /\ site[s].status = "active"
SiteOf(o) == \E s \in Sites : site[s].org = o /\ site[s].status # "absent"

BootstrapRead(x, o) ==
  /\ org[o].status = "active"
  /\ Take(x, [Unoccupied EXCEPT !.pc = "site", !.org = o, !.hasSite = SiteOf(o), !.hasChief = chief[o] > 0])
  /\ UNCHANGED <<org, site, chief, user, visitor, disturbed>>

BootstrapSite(x) ==
  LET w == op[x] IN
  /\ w.pc = "site"
  /\ IF w.hasSite THEN UNCHANGED site ELSE Opened(w.org, w.org)
  /\ op' = [op EXCEPT ![x] = IF w.hasChief THEN Unoccupied ELSE [w EXCEPT !.pc = "chief"]]
  /\ UNCHANGED <<org, chief, user, visitor, disturbed>>

BootstrapChief(x) ==
  LET w == op[x] IN
  /\ w.pc = "chief" /\ Release(x)
  /\ \E created \in BOOLEAN : chief' = IF created THEN [chief EXCEPT ![w.org] = @ + 1] ELSE chief
  /\ UNCHANGED <<org, site, user, visitor, disturbed>>

\* updateCampus: closed or opened, or moved to another active organisation
\* with the users it has.
UpdateCampus(s, status, o) ==
  /\ AtHand /\ site[s] # NoSite
  /\ o = site[s].org \/ org[o].status = "active"
  /\ site' = [site EXCEPT ![s] = [status |-> status, org |-> o, kit |-> IF o = @.org THEN @.kit ELSE "none"]]
  /\ disturbed' = (disturbed \/ (o # site[s].org /\ \E u \in Users : Started(u)))
  /\ UNCHANGED <<org, chief, user, op, visitor>>

-----------------------------------------------------------------------------
(* Users *)

\* resolveOrganizationByAppId: an organisation with the AppID, of any status;
\* none for a mini program that is configured in the environment only.
Resolved(a) == {o \in Orgs : org[o].app = a}
OrgOfApp(a) == IF Resolved(a) = {} THEN {"none"} ELSE Resolved(a)

\* wechatLogin finds the organisation, and refuses a known user whose campus
\* belongs to another one.
LoginRead(u, a) ==
  /\ visitor[u] = Away
  /\ user[u] = NoUser
  /\ \E o \in OrgOfApp(a) : visitor' = [visitor EXCEPT ![u] = [Away EXCEPT !.pc = "login", !.app = a, !.org = o]]
  /\ UNCHANGED <<org, site, chief, user, op, disturbed>>

\* The user is created at the campus it was sent to by another user, which
\* must be one of the organisation, or at the first one there is.
SharedWelcome(s, o) == site[s].status = "active"
Welcome(s, o) == site[s].status = "active" /\ (o = "none" \/ site[s].org = o)

LoginWrite(u) ==
  LET w == visitor[u] IN
  /\ w.pc = "login"
  /\ visitor' = [visitor EXCEPT ![u] = Away]
  /\ IF \E s \in Sites : Welcome(s, w.org)
     THEN \E s \in Sites : Welcome(s, w.org) /\ user' = [user EXCEPT ![u] = [app |-> w.app, site |-> s]]
     ELSE UNCHANGED user
  /\ UNCHANGED <<org, site, chief, op, disturbed>>

\* switchUserCampus derives the organisation from the campus the user is at.
AnywhereOpen(from, s) == site[s].status = "active"
SameOrg(from, s) == site[s].status = "active" /\ site[s].org = site[from].org

SwitchRead(u, s) ==
  /\ visitor[u] = Away /\ user[u] # NoUser
  /\ s # user[u].site /\ SameOrg(user[u].site, s)
  /\ visitor' = [visitor EXCEPT ![u] = [Away EXCEPT !.pc = "switch", !.site = s]]
  /\ UNCHANGED <<org, site, chief, user, op, disturbed>>

SwitchWrite(u) ==
  /\ visitor[u].pc = "switch"
  /\ user' = [user EXCEPT ![u].site = visitor[u].site]
  /\ visitor' = [visitor EXCEPT ![u] = Away]
  /\ UNCHANGED <<org, site, chief, op, disturbed>>

-----------------------------------------------------------------------------

TenancyNext ==
  \/ \E x \in Operators :
       \/ OrgWrite(x) \/ BootstrapSite(x) \/ BootstrapChief(x)
       \/ \E o \in Orgs : BootstrapRead(x, o)
       \/ \E o \in Orgs, a, d \in Apps \cup {"none"} : OrgCheck(x, o, a, d)
  \/ \E o \in Orgs : CreateCampus(o) \/ \E st \in {"active", "disabled"} : SetOrganizationStatus(o, st)
  \/ \E s \in Sites, st \in {"active", "closed"}, o \in Orgs : UpdateCampus(s, st, o)
  \/ \E u \in Users :
       \/ LoginWrite(u) \/ SwitchWrite(u)
       \/ \E a \in Apps : LoginRead(u, a)
       \/ \E s \in Sites : SwitchRead(u, s)

TenancySpec == TenancyInit /\ [][TenancyNext]_tenancyVars

-----------------------------------------------------------------------------
(* Properties *)

\* A mini program belongs to one organisation, as a user's or as a courier's,
\* whatever order organisations are created and re-registered in
\* (assertOrganizationUnique: otherwise the one found first wins).
AppOfOneOrg ==
  \A a \in Apps : Cardinality({o \in Orgs : a \in {org[o].app, org[o].delivery}}) <= 1

\* A bootstrap that failed half way and is submitted again, in between other
\* work on the campus it made, opens no second campus and no second
\* administrator (bootstrapOrganization).  Two operators who submit it at once
\* open two.
KitOnce ==
  \A o \in Orgs : chief[o] <= 1 /\ Cardinality({s \in Sites : site[s].kit = o}) <= 1

\* As long as no operator moves a campus or an AppID under a user, every user
\* is at a campus of its mini program's organisation, so that the check of the
\* next login lets it in (wechatLogin, switchUserCampus).
UserAtHome ==
  ~disturbed => \A u \in Users : user[u] = NoUser \/ Resolved(user[u].app) \subseteq {site[user[u].site].org}

Tenanted == AppOfOneOrg /\ KitOnce /\ UserAtHome
=============================================================================
