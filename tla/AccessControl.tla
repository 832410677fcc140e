---------------------------- MODULE AccessControl ----------------------------
(***************************************************************************)
(* The back office's accounts, roles and menus (RbacService), and the      *)
(* permission cache that every guarded request goes through.  Whoever      *)
(* changes what an account may do increments the global version in the     *)
(* same transaction; a request reads the version, then the grants, then    *)
(* the menus, in statements of their own, and caches the result under the  *)
(* version it read.  Several increments of one transaction count as one.   *)
(* How far an account reaches, its level and organisation, comes from its  *)
(* own row, which the session version guards, or else from its campus's,   *)
(* which nothing guards.                                                   *)
(***************************************************************************)
EXTENDS Integers, FiniteSets

CONSTANTS
  Accounts, Roles, Menus, Perms, Campuses,
  Requests,      \* requests that run at once
  Builtin,       \* the account with the username 'admin', if there is one
  Retired,       \* roles of the old role templates
  Super,         \* the built-in role, which is granted all permissions
  NoRole,
  Hq,            \* campuses that are the headquarters' warehouse
  Companies,     \* organisations
  NoCompany,
  Levels,        \* levels that clerks set: some of "platform", "org", "campus"
  MaxVersion,    \* bound on the changes of permissions (checking only)
  MaxSession     \* bound on logins and new passwords (checking only)

ASSUME BoundsAssumption == MaxVersion \in Nat /\ MaxSession \in Nat
ASSUME RolesAssumption == Super \notin Roles /\ NoRole \notin Roles /\ Super # NoRole /\ Retired \subseteq Roles
ASSUME MarksAssumption == /\ "platform" \notin Campuses
                          /\ {"root", "gone"} \cap Menus = {}
ASSUME MenusAssumption == IsFiniteSet(Menus)
ASSUME ReachAssumption == NoCompany \notin Companies /\ Levels \subseteq {"platform", "org", "campus"}

VARIABLES
  rbacVersion,   \* RbacState.version
  account,       \* AdminAccount: status, sessionVersion, campusId, orgLevel and organizationId
  grant,         \* AdminAccountRole: the one role of each account and where it holds
  role,          \* AdminRole with its AdminRoleMenu rows
  menu,          \* AdminMenu: parent and perms
  company,       \* Campus.organizationId
  cache,         \* RbacService.cache
  request        \* what each request has read

rbacVars == <<rbacVersion, account, grant, role, menu, company, cache, request>>
stored == <<rbacVersion, account, grant, role, menu, company>>

Scopes == {{"platform"}} \cup ((SUBSET Campuses) \ {{}})
NoGrant == [role |-> NoRole, at |-> {}]
TheSuper == [role |-> Super, at |-> {"platform"}]
Grants == {NoGrant} \cup [role : Roles \cup {Super}, at : Scopes]
Context(super, platform, perms, campuses) ==
  [super |-> super, platform |-> platform, perms |-> perms, campuses |-> campuses]
Contexts == [super : BOOLEAN, platform : BOOLEAN, perms : SUBSET Perms, campuses : SUBSET Campuses]
NoContext == Context(FALSE, FALSE, {}, {})

\* Level and organisation: only accounts of level "org" have one of their own.
Reach(level, org) == [level |-> level, org |-> org]
NoReach == Reach("none", NoCompany)
Reaches == [level : {"none", "platform", "org", "campus"}, org : Companies \cup {NoCompany}]
GivenReaches == {x \in Reaches : x.level \in Levels \cup {"none"} /\ (x.level = "org" <=> x.org # NoCompany)}
NoRequest == [pc |-> "idle", by |-> "none", sv |-> 0, campus |-> "none", version |-> 0,
              grant |-> NoGrant, active |-> FALSE, ctx |-> NoContext, reach |-> NoReach, tree |-> {}]

AccessTypeOK ==
  /\ rbacVersion \in 0..MaxVersion
  /\ account \in [Accounts -> [status : {"active", "disabled", "absent"}, sv : Nat,
                               campus : Campuses \cup {"none"}, reach : Reaches]]
  /\ grant \in [Accounts -> Grants]
  /\ role \in [Roles -> [status : {"active", "disabled", "absent"}, menus : SUBSET Menus]]
  /\ menu \in [Menus -> [parent : Menus \cup {"root", "gone"}, perm : Perms]]
  /\ company \in [Campuses -> Companies \cup {NoCompany}]
  /\ cache \subseteq [by : Accounts, sv : Nat, version : 0..MaxVersion,
                      campus : Campuses \cup {"none"}, ctx : Contexts, reach : Reaches]
  /\ request \in [Requests -> [pc : {"idle", "loaded", "grants", "menus", "decided", "select", "delete"},
                               by : Accounts \cup {"none"}, sv : Nat,
                               campus : Campuses \cup {"none"}, version : 0..MaxVersion,
                               grant : Grants, active : BOOLEAN, ctx : Contexts,
                               reach : Reaches, tree : SUBSET Menus]]

AccessInit ==
  /\ rbacVersion = 0
  /\ account \in [Accounts -> {[status |-> "active", sv |-> 0, campus |-> c, reach |-> NoReach] :
                              c \in Campuses}]
  /\ grant \in [Accounts -> [role : Roles \cup {Super}, at : {{"platform"}, Campuses}]]
  /\ \A a \in Accounts : a \in Builtin \/ grant[a].role = Super => grant[a] = TheSuper
  /\ \E a \in Accounts : grant[a] = TheSuper
  /\ role = [r \in Roles |-> [status |-> "active", menus |-> Menus]]
  /\ \E p \in Perms : menu = [m \in Menus |-> [parent |-> "root", perm |-> p]]
  /\ company \in [Campuses -> Companies \cup {NoCompany}]
  /\ cache = {}
  /\ request = [q \in Requests |-> NoRequest]

Standing(m) == menu[m].parent # "gone"
Live == {a \in Accounts : account[a].status # "absent"}

\* What a grant is worth at a campus, by the roles and menus of now.  Only a
\* platform grant of the built-in role counts.  As an account has one role,
\* platformPatterns are all perms or none, by the platform flag.
ContextOf(g, active, campus) ==
  IF g.role = Super
    THEN IF "platform" \in g.at THEN Context(TRUE, TRUE, {}, {}) ELSE NoContext
    ELSE IF ~active THEN NoContext
    ELSE Context(FALSE, "platform" \in g.at,
                 IF g.at \cap {"platform", campus} = {} THEN {}
                 ELSE {menu[m].perm : m \in {x \in role[g.role].menus : Standing(x)}},
                 g.at \ {"platform"})

Active(r) == r \in Roles /\ role[r].status = "active"
Effective(a, campus) == ContextOf(grant[a], Active(grant[a].role), campus)

\* The level and organisation of an account of that row at a campus: its own,
\* or what the campus says (normalizeOrgLevel, getEffective).
LevelOf(own, campus) ==
  IF own.level # "none" THEN own.level ELSE IF campus \in {"none"} \cup Hq THEN "platform" ELSE "campus"
ReachOf(own, platform, campus) ==
  Reach(LevelOf(own, campus),
        IF own.org # NoCompany \/ platform \/ campus = "none" THEN own.org ELSE company[campus])

-----------------------------------------------------------------------------
(* A guarded request *)

Step(q, next) == request' = [request EXCEPT ![q] = next] /\ UNCHANGED stored

\* The account is loaded, and the token's session version compared with it.
LoadAccount(q, a) ==
  /\ request[q].pc = "idle"
  /\ account[a].status = "active"
  /\ Step(q, [NoRequest EXCEPT !.pc = "loaded", !.by = a, !.sv = account[a].sv,
                               !.campus = account[a].campus, !.reach = account[a].reach])
  /\ UNCHANGED cache

Decided(q, ctx, reach) == [NoRequest EXCEPT !.pc = "decided", !.by = request[q].by,
                                            !.campus = request[q].campus, !.ctx = ctx, !.reach = reach]
Hit(q) == {e \in cache : /\ e.by = request[q].by /\ e.sv = request[q].sv
                         /\ e.campus = request[q].campus /\ e.version = rbacVersion}

ReadVersion(q) ==
  /\ request[q].pc = "loaded"
  /\ \/ \E e \in Hit(q) : Step(q, Decided(q, e.ctx, e.reach))
     \/ Hit(q) = {} /\ Step(q, [request[q] EXCEPT !.pc = "grants", !.version = rbacVersion])
  /\ UNCHANGED cache

ReadGrants(q) ==
  LET g == grant[request[q].by] IN
  /\ request[q].pc = "grants"
  /\ Step(q, [request[q] EXCEPT !.pc = "menus", !.grant = g, !.active = Active(g.role)])
  /\ UNCHANGED cache

\* The version under which the result is cached.
KeyVersionLate(r) == rbacVersion
KeyVersion(r) == r.version

\* Nothing reads the entries of older versions any more: they are dropped here.
\* The campus is read last; what it says may be out of date in any case.
ReadMenus(q) ==
  LET r == request[q]
      ctx == ContextOf(r.grant, r.active, r.campus)
      reach == ReachOf(r.reach, ctx.platform, r.campus)
  IN /\ r.pc = "menus"
     /\ cache' = {e \in cache : e.version = rbacVersion} \cup
                 {[by |-> r.by, sv |-> r.sv, version |-> KeyVersion(r),
                   campus |-> r.campus, ctx |-> ctx, reach |-> reach]}
     /\ request' = [request EXCEPT ![q] = Decided(q, ctx, reach)]
     /\ UNCHANGED stored

EndRequest(q) == request[q].pc = "decided" /\ Step(q, NoRequest) /\ UNCHANGED cache

\* Entries expire after 15 seconds, and a process clears them after a change
\* of its own or loses them when it restarts.
Forget == cache # {} /\ cache' = {} /\ UNCHANGED <<stored, request>>

-----------------------------------------------------------------------------
(* selectAdminCampus goes through the same reads, and then writes; login *)

SelectCampus(q, c) ==
  /\ request[q].pc = "decided" /\ c # request[q].campus
  /\ \/ request[q].ctx.super \/ request[q].reach.level = "platform"
     \/ c \in request[q].ctx.campuses
     \/ request[q].reach.level = "org" /\ request[q].reach.org = company[c] /\ company[c] # NoCompany
  /\ Step(q, [NoRequest EXCEPT !.pc = "select", !.by = request[q].by, !.campus = c])
  /\ UNCHANGED cache

SelectWrite(q) ==
  LET r == request[q] IN
  /\ r.pc = "select"
  /\ account' = IF r.by \in Live THEN [account EXCEPT ![r.by].campus = r.campus] ELSE account
  /\ request' = [request EXCEPT ![q] = NoRequest]
  /\ UNCHANGED <<rbacVersion, grant, role, menu, company, cache>>

\* A login may end the older sessions, and moves an account whose campus is
\* not among its grants to one that is.
CampusFor(a, g) ==
  LET at == g.at \ {"platform"} IN IF at = {} \/ account[a].campus \in at THEN {account[a].campus} ELSE at

FewSessions == \A a \in Accounts : account[a].sv < MaxSession

Login(a) ==
  /\ account[a].status = "active"
  /\ \E c \in CampusFor(a, grant[a]), n \in IF FewSessions THEN 0..1 ELSE {0} :
       account' = [account EXCEPT ![a].campus = c, ![a].sv = @ + n]
  /\ UNCHANGED <<rbacVersion, grant, role, menu, company, cache, request>>

-----------------------------------------------------------------------------
(* Changes.  Those of accounts and roles hold one advisory lock. *)

NoBump == rbacVersion' = rbacVersion
Bump == rbacVersion < MaxVersion /\ rbacVersion' = rbacVersion + 1

ActiveSupersAnyStatus == {a \in Accounts : grant[a] = TheSuper}
ActiveSupers == {a \in Accounts : grant[a] = TheSuper /\ account[a].status = "active"}
LastSuper(a) == grant[a] = TheSuper /\ Cardinality(ActiveSupers) <= 1

\* changeAccountStatus: the grants are then the new ones.
MayDisable(a, g) ==
  account[a].status = "active" => ~(g = TheSuper /\ Cardinality(ActiveSupers) <= 1)

\* A role that exists and is not the built-in one.
Grantable == {g \in Grants : g = NoGrant \/ (g.role \in Roles /\ role[g.role].status # "absent")}

\* Whoever is regranted, disabled or given another reach has to log in again.
EndSessionsButOfReach(a, status, c, reach) ==
  account' = [account EXCEPT ![a] = [status |-> status, campus |-> c, reach |-> reach,
                                     sv |-> IF reach = @.reach THEN @.sv + 1 ELSE @.sv]]
EndSessions(a, status, c, reach) ==
  account' = [account EXCEPT ![a] = [status |-> status, sv |-> @.sv + 1, campus |-> c, reach |-> reach]]

\* updateAccount: grants, then status, then level and organisation, in one
\* transaction.
UpdateAccount(a) ==
  /\ Bump /\ a \in Live \ Builtin
  /\ \E g \in {grant[a]} \cup Grantable, status \in {"active", "disabled"}, reach \in GivenReaches :
     LET regrant == g # grant[a] IN
     /\ regrant /\ account[a].status = "active" => ~LastSuper(a)
     /\ status = "disabled" => MayDisable(a, g)
     /\ grant' = [grant EXCEPT ![a] = g]
     /\ \E c \in IF regrant THEN CampusFor(a, g) ELSE {account[a].campus} :
          EndSessions(a, status, c, reach)
     /\ UNCHANGED <<role, menu, company, cache, request>>

CreateAccount(a) ==
  /\ Bump
  /\ account[a].status = "absent"
  /\ \E g \in Grantable, reach \in GivenReaches : \E c \in IF g.at \cap Campuses = {} THEN {"none"} ELSE g.at \cap Campuses :
       /\ grant' = [grant EXCEPT ![a] = g]
       /\ EndSessions(a, "active", c, reach)
  /\ UNCHANGED <<role, menu, company, cache, request>>

DeleteAccount(a) ==
  /\ Bump
  /\ a \in Live \ Builtin
  /\ account[a].status = "active" => ~LastSuper(a)
  /\ account' = [account EXCEPT ![a].status = "absent"]
  /\ grant' = [grant EXCEPT ![a] = NoGrant]
  /\ UNCHANGED <<role, menu, company, cache, request>>

\* resetAccountPassword, changePassword: the sessions end, permissions stay.
NewPassword(a) ==
  /\ a \in Live /\ FewSessions
  /\ account' = [account EXCEPT ![a].sv = @ + 1]
  /\ NoBump
  /\ UNCHANGED <<grant, role, menu, company, cache, request>>

CreateRole(r) ==
  /\ Bump
  /\ role[r].status = "absent" /\ r \notin Retired
  /\ \E ms \in SUBSET {m \in Menus : Standing(m)} :
       role' = [role EXCEPT ![r] = [status |-> "active", menus |-> ms]]
  /\ UNCHANGED <<account, grant, menu, company, cache, request>>

\* Status and menus of a role; every account that has it is affected.
RoleBumpForgotten == NoBump
RoleBump == Bump
UpdateRole(r) ==
  /\ RoleBump
  /\ role[r].status # "absent"
  /\ \E status \in {"active", "disabled"}, ms \in SUBSET {m \in Menus : Standing(m)} :
       role' = [role EXCEPT ![r] = [status |-> status, menus |-> ms]]
  /\ UNCHANGED <<account, grant, menu, company, cache, request>>

DeleteRole(r) ==
  /\ Bump
  /\ role[r].status # "absent"
  /\ \A a \in Accounts : grant[a].role # r
  /\ role' = [role EXCEPT ![r] = [status |-> "absent", menus |-> {}]]
  /\ UNCHANGED <<account, grant, menu, company, cache, request>>

\* The id of a new node is new: no orphan and no request refers to it.
NewId(m) == /\ ~Standing(m) /\ \A x \in Menus : menu[x].parent # m
            /\ \A q \in Requests : m \notin request[q].tree

\* A new node hangs under the root or under a standing node.
CreateMenu(m) ==
  /\ Bump
  /\ NewId(m)
  /\ \E p \in Perms, up \in {"root"} \cup {x \in Menus : Standing(x)} :
       menu' = [menu EXCEPT ![m] = [parent |-> up, perm |-> p]]
  /\ UNCHANGED <<account, grant, role, company, cache, request>>

\* The nodes below some nodes; a node, and those whose parents lead up to it.
Children(ms) == {x \in Menus : menu[x].parent \in ms}
Below(m) == LET grow[n \in Nat] == IF n = 0 THEN {m} ELSE grow[n - 1] \cup Children(grow[n - 1])
            IN grow[Cardinality(Menus)]

MayHangSelfOnly(m, up) == up # m
MayHang(m, up) == up \notin Below(m)

UpdateMenu(m) ==
  /\ Bump
  /\ Standing(m)
  /\ \E p \in Perms, up \in {menu[m].parent, "root"} \cup {x \in Menus : Standing(x) /\ MayHang(m, x)} :
       menu' = [menu EXCEPT ![m] = [parent |-> up, perm |-> p]]
  /\ UNCHANGED <<account, grant, role, company, cache, request>>

\* The subtree is collected without the lock, and deleted from what was read.
DeleteMenuRead(q, m) ==
  /\ request[q].pc = "idle" /\ Standing(m)
  /\ Step(q, [NoRequest EXCEPT !.pc = "delete", !.tree = Below(m)])
  /\ UNCHANGED cache

DeleteMenu(q) ==
  LET tree == request[q].tree IN
  /\ request[q].pc = "delete" /\ Bump
  /\ menu' = [m \in Menus |-> IF m \in tree THEN [menu[m] EXCEPT !.parent = "gone"] ELSE menu[m]]
  /\ role' = [r \in Roles |-> [role[r] EXCEPT !.menus = @ \ tree]]
  /\ request' = [request EXCEPT ![q] = NoRequest]
  /\ UNCHANGED <<account, grant, company, cache>>

\* updateCampus: a campus moves to another organisation, and no version moves.
TransferCampus(c, o) ==
  /\ company[c] # o
  /\ company' = [company EXCEPT ![c] = o]
  /\ UNCHANGED <<rbacVersion, account, grant, role, menu, cache, request>>

\* syncRegistry: the retired roles go, with their grants.
SyncRegistry ==
  /\ Bump
  /\ \E r \in Retired : role[r].status # "absent"
  /\ role' = [r \in Roles |-> IF r \in Retired THEN [status |-> "absent", menus |-> {}] ELSE role[r]]
  /\ grant' = [a \in Accounts |-> IF grant[a].role \in Retired THEN NoGrant ELSE grant[a]]
  /\ UNCHANGED <<account, menu, company, cache, request>>

Change ==
  \/ \E a \in Accounts : UpdateAccount(a) \/ CreateAccount(a) \/ DeleteAccount(a) \/ NewPassword(a)
  \/ \E r \in Roles : CreateRole(r) \/ UpdateRole(r) \/ DeleteRole(r)
  \/ \E m \in Menus : CreateMenu(m) \/ UpdateMenu(m)
  \/ SyncRegistry

Guarded(q) ==
  \/ \E a \in Accounts : LoadAccount(q, a)
  \/ ReadVersion(q) \/ ReadGrants(q) \/ ReadMenus(q) \/ EndRequest(q)
  \/ \E c \in Campuses : SelectCampus(q, c)
  \/ SelectWrite(q)
  \/ \E m \in Menus : DeleteMenuRead(q, m)
  \/ DeleteMenu(q)

AccessNext == \/ Change \/ Forget
              \/ \E c \in Campuses, o \in Companies : TransferCampus(c, o)
              \/ \E a \in Accounts : Login(a)
              \/ \E q \in Requests : Guarded(q)

AccessSpec == AccessInit /\ [][AccessNext]_rbacVars

-----------------------------------------------------------------------------
(* Properties *)

\* What is cached under the current version is what the account may do now,
\* although the version, the grants and the menus were read at different times
\* (getEffective, and every change that increments the version).  What it finds
\* there for the session of now is within the account's level and organisation
\* of now (updateAccount).  An organisation that the account has by its campus
\* only is not covered: updateCampus leaves it in the cache for up to 15 s.
RightsTrue == \A e \in cache : e.version = rbacVersion => e.ctx = Effective(e.by, e.campus)
InReach(reach, own, campus) == /\ reach.level = LevelOf(own, campus)
                               /\ own.org # NoCompany => reach.org = own.org
CacheTrue ==
  /\ RightsTrue
  /\ \A e \in cache : e.sv = account[e.by].sv => InReach(e.reach, account[e.by].reach, e.campus)

\* Whatever is regranted, disabled and deleted in whatever order, somebody who
\* can give permissions remains (replaceAccountGrants, changeAccountStatus,
\* deleteAccount).
SuperRemains == \E a \in Accounts : grant[a] = TheSuper /\ account[a].status = "active"

\* No node hangs below itself (updateMenu); the sidebar walks up the parents.
MenuForest == \A m \in Menus : Standing(m) => menu[m].parent \notin Below(m)

\* The back office stays usable: somebody administers it, and its menus draw.
AccessKept == SuperRemains /\ MenuForest
=============================================================================
