----------------------------- MODULE StaffMessages -----------------------------
(***************************************************************************)
(* Messages to riders and building managers.  A rider who follows the      *)
(* service account of his organisation gets template messages; the others, *)
(* and those whom a template message fails, get subscription messages, of  *)
(* which WeChat lets through as many as he has consented to.               *)
(*                                                                         *)
(* A member of staff and a person on WeChat are brought together twice: by *)
(* the open id of the delivery program, which the person binds with staff  *)
(* number and name, and by the union id, over which a follower of the      *)
(* service account is matched: when he follows it, or in the              *)
(* reconciliation that a login starts.  A person may bind another member,  *)
(* and a member be bound by another person.                                *)
(*                                                                         *)
(* WeChat is outside: who follows, the consents left (credit), and the     *)
(* events, of which a follower's next is sent when the last was answered.  *)
(* Of a member's reconciliations one is under way at a time.  Texts,       *)
(* access tokens and the messages to customers are left out.               *)
(***************************************************************************)
EXTENDS Integers

CONSTANTS
  People,          \* riders and building managers: rows of Staff
  Persons,         \* people on WeChat
  Firms,           \* organisations
  PlatformFirm,    \* org-a, which has the service account of the environment
  Registered,      \* organisations with a service account of their own
  Delivering,      \* organisations with a delivery program of their own
  StaffDelivery,   \* organisations whose clerks deliver
  Notices,         \* calls of notifyRidersOnFirstMile and notifyBuildingManagers
  MaxCredit        \* bound on the consents of a member of staff

ASSUME MessagesAssumption ==
  /\ PlatformFirm \in Firms /\ Registered \cup Delivering \cup StaffDelivery \subseteq Firms \ {PlatformFirm}
  /\ MaxCredit \in Nat
  /\ "none" \notin Firms \cup Persons \cup People

ServiceAccounts == Registered \cup {PlatformFirm}

VARIABLES
  home,            \* the organisation of a member's campus
  wardens,         \* who is a building manager and not a rider
  circle,          \* service accounts that a person will ever follow
  bound,           \* who has ever bound whom: the tokens that staff-bind gave out
  follows,         \* service accounts he follows
  event,           \* callback under way for him
  openid,          \* Staff.openid: the person, in the program of the member's organisation
  unionId,         \* Staff.unionId: the person
  learned,         \* whether a login, and not staff-bind, wrote the union id
  gzhOpenid,       \* Staff.gzhOpenid: the person as follower of a service account
  sync,            \* reconciliation that a login of the member started
  missed,          \* whether a callback or a reconciliation failed at WeChat
  credit,          \* consents that WeChat has left, for a person in a program
  consented,       \* consents his program has still to report
  notifyQuota,     \* the books of them
  failedAt,        \* notifyQuotaFailedAt is set
  touch,           \* what a notice is doing about a member
  got              \* messages of a notice sent to him

fixedVars == <<home, wardens, circle>>
bindVars == <<bound, openid, unionId, learned, gzhOpenid>>
weixinVars == <<follows, event, sync, missed>>
quotaVars == <<credit, consented, notifyQuota, failedAt>>
noticeVars == <<touch, got>>
messageVars == <<fixedVars, bindVars, weixinVars, quotaVars, noticeVars>>

Nobody == "none"
Follower(w, a) == [who |-> w, at |-> a]
NoFollower == Follower(Nobody, "none")
NoEvent == [pc |-> "none", at |-> "none", to |-> "none"]
NoSync == [pc |-> "off", todo |-> {}, who |-> Nobody, to |-> "none"]
Untouched == [pc |-> "none", firm |-> PlatformFirm, openid |-> Nobody, via |-> NoFollower, late |-> FALSE]

FollowerSet == {NoFollower} \cup [who : Persons, at : ServiceAccounts]
EventSet == [pc : {"none", "subscribe", "bind", "unsubscribe"}, at : ServiceAccounts \cup {"none"},
             to : People \cup {"none"}]
SyncSet == [pc : {"off", "list", "walk", "bind"}, todo : SUBSET Persons, who : Persons \cup {Nobody},
            to : People \cup {"none"}]
TouchSet == [pc : {"none", "template", "subscribe", "ok", "no-quota", "ended", "failed"}, firm : Firms,
             openid : Persons \cup {Nobody}, via : FollowerSet, late : BOOLEAN]

MessagesTypeOK ==
  /\ home \in [People -> Firms] /\ wardens \subseteq People
  /\ circle \in [Persons -> SUBSET ServiceAccounts]
  /\ bound \subseteq Persons \X People
  /\ follows \in [Persons -> SUBSET ServiceAccounts]
  /\ event \in [Persons -> EventSet]
  /\ openid \in [People -> Persons \cup {Nobody}] /\ unionId \in [People -> Persons \cup {Nobody}]
  /\ learned \in [People -> BOOLEAN]
  /\ gzhOpenid \in [People -> FollowerSet]
  /\ sync \in [People -> SyncSet]
  /\ missed \in BOOLEAN
  /\ credit \in [Persons -> [Firms -> 0..MaxCredit]] /\ consented \in [People -> 0..MaxCredit]
  /\ notifyQuota \in [People -> Nat] /\ failedAt \in [People -> BOOLEAN]
  /\ touch \in [Notices -> [People -> TouchSet]]
  /\ got \in [Notices -> [People -> 0..2]]

MessagesInit ==
  /\ home \in [People -> Firms] /\ wardens \in SUBSET People
  /\ circle \in [Persons -> SUBSET ServiceAccounts] /\ bound = {}
  /\ follows = [w \in Persons |-> {}] /\ event = [w \in Persons |-> NoEvent]
  /\ openid = [s \in People |-> Nobody] /\ unionId = openid
  /\ learned = [s \in People |-> FALSE]
  /\ gzhOpenid = [s \in People |-> NoFollower]
  /\ sync = [s \in People |-> NoSync] /\ missed = FALSE
  /\ credit = [w \in Persons |-> [f \in Firms |-> 0]]
  /\ consented = [s \in People |-> 0] /\ notifyQuota = consented
  /\ failedAt = [s \in People |-> FALSE]
  /\ touch = [n \in Notices |-> [s \in People |-> Untouched]]
  /\ got = [n \in Notices |-> [s \in People |-> 0]]

-----------------------------------------------------------------------------
(* Routing by organisation *)

\* gzhConfig: another organisation's message never goes through the account
\* of the platform.
NoAccount == "none"
GzhConfig(f) == IF f \in ServiceAccounts THEN f ELSE NoAccount

\* deliveryWechatConfig: null for an organisation that has not registered.
HasDeliveryConfig(f) == f \in Delivering \cup {PlatformFirm}

-----------------------------------------------------------------------------
(* Binding *)

\* The unique keys of the three ids.
UnionFree(w, s) == \A t \in People \ {s} : unionId[t] # w
FollowerFree(g, s) == \A t \in People \ {s} : gzhOpenid[t] # g

\* staffBind, by staff number and name: the open id is taken from the member
\* whom the person bound before in that program, and the union id, when WeChat
\* gives it, replaces another person's, unless the key refuses it.  What the
\* service account has is left to the follower it names.
StaffBind(s, w, withUnion) ==
  /\ HasDeliveryConfig(home[s])
  /\ openid' = [t \in People |-> IF t = s THEN w
                                 ELSE IF openid[t] = w /\ home[t] = home[s] THEN Nobody ELSE openid[t]]
  /\ bound' = bound \cup {<<w, s>>}
  /\ IF withUnion /\ UnionFree(w, s)
     THEN /\ unionId' = [unionId EXCEPT ![s] = w]
          /\ learned' = [learned EXCEPT ![s] = @ /\ unionId[s] = w]
     ELSE UNCHANGED <<unionId, learned>>
  /\ UNCHANGED <<fixedVars, gzhOpenid, weixinVars, quotaVars, noticeVars>>

\* wechatUnbind.
WechatUnbind(s) ==
  /\ openid[s] # Nobody
  /\ openid' = [openid EXCEPT ![s] = Nobody]
  /\ UNCHANGED <<fixedVars, bound, unionId, learned, gzhOpenid, weixinVars, quotaVars, noticeVars>>

\* The login of a member whose union id is not the one WeChat gives writes it,
\* silently failing if another member has it, and starts a reconciliation.
LearnUnion(s) ==
  IF UnionFree(openid[s], s)
  THEN /\ unionId' = [unionId EXCEPT ![s] = openid[s]]
       /\ learned' = [learned EXCEPT ![s] = TRUE]
  ELSE UNCHANGED <<unionId, learned>>

LoginOnly(s) ==
  /\ openid[s] \notin {Nobody, unionId[s]}
  /\ LearnUnion(s)
  /\ UNCHANGED <<fixedVars, bound, openid, gzhOpenid, weixinVars, quotaVars, noticeVars>>

DeliveryLogin(s) ==
  /\ openid[s] \notin {Nobody, unionId[s]}
  /\ LearnUnion(s)
  /\ sync[s] = NoSync
  /\ sync' = [sync EXCEPT ![s].pc = "list"]
  /\ UNCHANGED <<fixedVars, bound, openid, gzhOpenid, follows, event, missed, quotaVars, noticeVars>>

\* A person follows a service account, or leaves it; WeChat calls back.
FollowOrLeave(w, a) ==
  /\ event[w] = NoEvent
  /\ a \in circle[w]
  /\ follows' = [follows EXCEPT ![w] = IF a \in @ THEN @ \ {a} ELSE @ \cup {a}]
  /\ event' = [event EXCEPT ![w] = [NoEvent EXCEPT !.pc = IF a \in follows[w] THEN "unsubscribe" ELSE "subscribe",
                                                   !.at = a]]
  /\ UNCHANGED <<fixedVars, bindVars, sync, missed, quotaVars, noticeVars>>

\* The member with the follower's union id, if there is one.
MatchedUnguarded(w) == People
Matched(w) == {s \in People : unionId[s] = w}

\* handleGzhCallback: the union id is asked for and looked up; the call to
\* WeChat may fail, and then nothing is bound.
OnSubscribe(w) ==
  /\ event[w].pc = "subscribe"
  /\ \/ /\ \/ Matched(w) = {} /\ event' = [event EXCEPT ![w] = NoEvent]
           \/ \E s \in Matched(w) : event' = [event EXCEPT ![w].pc = "bind", ![w].to = s]
        /\ UNCHANGED missed
     \/ /\ event' = [event EXCEPT ![w] = NoEvent]
        /\ missed' = TRUE
  /\ UNCHANGED <<fixedVars, bindVars, follows, sync, quotaVars, noticeVars>>

\* A follower's open id that another member has is not written, silently.
WriteGzh(s, g) ==
  gzhOpenid' = IF FollowerFree(g, s) THEN [gzhOpenid EXCEPT ![s] = g] ELSE gzhOpenid

BindGzh(w) ==
  /\ event[w].pc = "bind"
  /\ WriteGzh(event[w].to, Follower(w, event[w].at))
  /\ event' = [event EXCEPT ![w] = NoEvent]
  /\ UNCHANGED <<fixedVars, bound, openid, unionId, learned, follows, sync, missed, quotaVars, noticeVars>>

OnUnsubscribe(w) ==
  /\ event[w].pc = "unsubscribe"
  /\ gzhOpenid' = [s \in People |-> IF gzhOpenid[s] = Follower(w, event[w].at) THEN NoFollower ELSE gzhOpenid[s]]
  /\ event' = [event EXCEPT ![w] = NoEvent]
  /\ UNCHANGED <<fixedVars, bound, openid, unionId, learned, follows, sync, missed, quotaVars, noticeVars>>

\* syncGzhBindings: the followers of the platform's account are listed, and
\* each whose open id no member has is bound to the member with his union id.
SyncList(x) ==
  /\ sync[x].pc = "list"
  /\ sync' = [sync EXCEPT ![x].pc = "walk", ![x].todo = {w \in Persons : PlatformFirm \in follows[w]}]
  /\ UNCHANGED <<fixedVars, bindVars, follows, event, missed, quotaVars, noticeVars>>

MayBind(w) == PlatformFirm \in follows[w] /\ \A s \in People : gzhOpenid[s] # Follower(w, PlatformFirm)

SyncLook(x) ==
  /\ sync[x].pc = "walk"
  /\ \/ /\ sync[x].todo = {}
        /\ sync' = [sync EXCEPT ![x] = NoSync]
     \/ \E w \in sync[x].todo :
          \/ /\ ~MayBind(w) \/ Matched(w) = {}
             /\ sync' = [sync EXCEPT ![x].todo = @ \ {w}]
          \/ /\ MayBind(w)
             /\ \E s \in Matched(w) :
                  sync' = [sync EXCEPT ![x] = [pc |-> "bind", todo |-> @.todo \ {w}, who |-> w, to |-> s]]
  /\ UNCHANGED <<fixedVars, bindVars, follows, event, missed, quotaVars, noticeVars>>

SyncBind(x) ==
  /\ sync[x].pc = "bind"
  /\ WriteGzh(sync[x].to, Follower(sync[x].who, PlatformFirm))
  /\ sync' = [sync EXCEPT ![x] = [NoSync EXCEPT !.pc = "walk", !.todo = sync[x].todo]]
  /\ UNCHANGED <<fixedVars, bound, openid, unionId, learned, follows, event, missed, quotaVars, noticeVars>>

\* WeChat fails, and the rest of the reconciliation is given up.
SyncFails(x) ==
  /\ sync[x].pc \in {"list", "walk"}
  /\ sync' = [sync EXCEPT ![x] = NoSync]
  /\ missed' = TRUE
  /\ UNCHANGED <<fixedVars, bindVars, follows, event, quotaVars, noticeVars>>

-----------------------------------------------------------------------------
(* Consents *)

\* A person consents in the program, which has the token of a member.
Consent(s, w) ==
  /\ <<w, s>> \in bound
  /\ credit[w][home[s]] < MaxCredit /\ consented[s] < MaxCredit
  /\ credit' = [credit EXCEPT ![w][home[s]] = @ + 1]
  /\ consented' = [consented EXCEPT ![s] = @ + 1]
  /\ UNCHANGED <<fixedVars, bindVars, weixinVars, notifyQuota, failedAt, noticeVars>>

\* grantNotifyQuota: at most 10 are counted.
Counted(k) == IF k > 10 THEN 10 ELSE k
GrantNotifyQuota(s) ==
  /\ consented[s] > 0 /\ notifyQuota[s] <= MaxCredit
  /\ notifyQuota' = [notifyQuota EXCEPT ![s] = @ + Counted(consented[s])]
  /\ consented' = [consented EXCEPT ![s] = 0]
  /\ UNCHANGED <<fixedVars, bindVars, weixinVars, credit, failedAt, noticeVars>>

-----------------------------------------------------------------------------
(* Notices *)

\* Those of the order's organisation that have bound the delivery program.
Recipients(f, who) == IF HasDeliveryConfig(f) THEN {s \in who : home[s] = f /\ openid[s] # Nobody} ELSE {}

\* notifyRidersOnFirstMile: the bindings are read at once for all riders.
NotifyRiders(n, f) ==
  /\ f \notin StaffDelivery
  /\ \A s \in People : touch[n][s] = Untouched
  /\ touch' = [touch EXCEPT ![n] = [s \in People |->
       IF s \in Recipients(f, People \ wardens)
       THEN [pc |-> IF GzhConfig(f) # NoAccount /\ gzhOpenid[s] # NoFollower THEN "template" ELSE "subscribe",
             firm |-> f, openid |-> openid[s], via |-> gzhOpenid[s], late |-> FALSE]
       ELSE Untouched]]
  /\ UNCHANGED <<fixedVars, bindVars, weixinVars, quotaVars, got>>

\* notifyBuildingManagers has no service account.
NotifyBuildingManagers(n, f) ==
  /\ \A s \in People : touch[n][s] = Untouched
  /\ touch' = [touch EXCEPT ![n] = [s \in People |->
       IF s \in Recipients(f, wardens)
       THEN [Untouched EXCEPT !.pc = "subscribe", !.firm = f, !.openid = openid[s]]
       ELSE Untouched]]
  /\ UNCHANGED <<fixedVars, bindVars, weixinVars, quotaVars, got>>

Move(n, s, pc) == touch' = [touch EXCEPT ![n][s].pc = pc]
Arrives(n, s) == got' = [got EXCEPT ![n][s] = @ + 1]

\* sendGzhTemplate: WeChat refuses the open id of another account and one
\* that has left; whatever fails, be it that the answer is late, is sent as
\* a subscription message.
TemplateArrives(n, s) ==
  LET t == touch[n][s] IN t.via.at = GzhConfig(t.firm) /\ t.via.at \in follows[t.via.who]

AfterTemplateBoth(n, s) == "subscribe"
AfterTemplate(n, s) == "ended"

SendTemplate(n, s) ==
  /\ touch[n][s].pc = "template"
  /\ \/ TemplateArrives(n, s) /\ Arrives(n, s) /\ Move(n, s, AfterTemplate(n, s))
     \/ /\ TemplateArrives(n, s) /\ Arrives(n, s)
        /\ touch' = [touch EXCEPT ![n][s].pc = "subscribe", ![n][s].late = TRUE]
     \/ UNCHANGED got /\ Move(n, s, "subscribe")
  /\ UNCHANGED <<fixedVars, bindVars, weixinVars, quotaVars>>

\* sendStaffSubscribe: WeChat takes a consent, or refuses with 43101; other
\* failures are logged.
SendStaffSubscribe(n, s) ==
  LET t == touch[n][s] IN
  /\ t.pc = "subscribe"
  /\ \/ /\ credit[t.openid][t.firm] > 0
        /\ credit' = [credit EXCEPT ![t.openid][t.firm] = @ - 1]
        /\ Arrives(n, s) /\ Move(n, s, "ok")
     \/ credit[t.openid][t.firm] = 0 /\ Move(n, s, "no-quota") /\ UNCHANGED <<credit, got>>
     \/ Move(n, s, "failed") /\ UNCHANGED <<credit, got>>
  /\ UNCHANGED <<fixedVars, bindVars, weixinVars, consented, notifyQuota, failedAt>>

\* The consents on the books after one was used; not below zero.
OneLessOfAny(k) == k - 1
OneLess(k) == IF k > 0 THEN k - 1 ELSE k

\* Its books: one less, and none after a refusal, of which the rider is told.
BookSubscribe(n, s) ==
  /\ touch[n][s].pc \in {"ok", "no-quota"}
  /\ IF touch[n][s].pc = "ok"
     THEN /\ notifyQuota' = [notifyQuota EXCEPT ![s] = OneLess(@)]
          /\ UNCHANGED failedAt
     ELSE /\ notifyQuota' = [notifyQuota EXCEPT ![s] = 0]
          /\ failedAt' = [failedAt EXCEPT ![s] = TRUE]
  /\ Move(n, s, "ended")
  /\ UNCHANGED <<fixedVars, bindVars, weixinVars, credit, consented, got>>

-----------------------------------------------------------------------------

MessagesNext ==
  \/ \E s \in People :
       \/ WechatUnbind(s) \/ DeliveryLogin(s) \/ GrantNotifyQuota(s)
       \/ SyncList(s) \/ SyncLook(s) \/ SyncBind(s) \/ SyncFails(s)
       \/ \E w \in Persons : Consent(s, w) \/ \E withUnion \in BOOLEAN : StaffBind(s, w, withUnion)
  \/ \E w \in Persons :
       \/ OnSubscribe(w) \/ BindGzh(w) \/ OnUnsubscribe(w)
       \/ \E a \in ServiceAccounts : FollowOrLeave(w, a)
  \/ \E n \in Notices, f \in Firms : NotifyRiders(n, f) \/ NotifyBuildingManagers(n, f)
  \/ \E n \in Notices, s \in People : SendTemplate(n, s) \/ SendStaffSubscribe(n, s) \/ BookSubscribe(n, s)

MessagesSpec == MessagesInit /\ [][MessagesNext]_messageVars

-----------------------------------------------------------------------------
(* Properties *)

\* The messages of a member go to no follower who has not bound that member
\* himself with staff number and name at some time, whoever took over whose
\* program since, and in whichever order callbacks and reconciliations write
\* (handleGzhCallback, syncGzhBindings).  It need not be the last who did:
\* staffBind leaves gzhOpenid as it is.
OwnFollower == \A s \in People : gzhOpenid[s] # NoFollower => <<gzhOpenid[s].who, s>> \in bound

\* The two have never bound anyone else.
OnlyEachOther(w, s) == \A b \in bound : b[1] = w <=> b[2] = s

\* When no callback and no reconciliation is under way and none has failed, a
\* rider of the platform who follows its account, and no other, and whose union
\* id came with a login is bound to it: whether he followed before the login,
\* after it or in the middle of it (handleGzhCallback and syncGzhBindings cover
\* for each other).  It does not hold for a union id that staff-bind has
\* written, since that starts no reconciliation and the next login finds
\* nothing new; nor for a person or a member who was ever bound otherwise, since
\* the reconciliation takes an open id that any row still has for bound.
Quiet == /\ \A w \in Persons : event[w] = NoEvent
         /\ \A s \in People : sync[s] = NoSync
         /\ ~missed
Entitled(s, w) ==
  /\ home[s] = PlatformFirm /\ unionId[s] = w /\ learned[s] /\ OnlyEachOther(w, s)
  /\ circle[w] = {PlatformFirm} /\ PlatformFirm \in follows[w]

FollowersBound ==
  Quiet => \A s \in People, w \in Persons : Entitled(s, w) => gzhOpenid[s] = Follower(w, PlatformFirm)

\* A notice reaches nobody twice, over the two channels together, and who got
\* none for want of consents is told of it ("each rider once, not repeated",
\* notifyRidersOnFirstMile).  Only a template message that arrived although
\* its answer was late is repeated.
NotifiedOnce ==
  \A n \in Notices, s \in People :
    /\ got[n][s] <= 1 \/ touch[n][s].late
    /\ touch[n][s].pc = "ended" /\ got[n][s] = 0 => failedAt[s]

\* Staff are reached as they should be.
StaffReached == OwnFollower /\ FollowersBound /\ NotifiedOnce
=============================================================================
