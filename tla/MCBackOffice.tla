---------------------------- MODULE MCBackOffice ----------------------------
(***************************************************************************)
(* Instances of the seven modules about people for TLC, of which "office"  *)
(* names the one that moves in a behaviour (see MCGoods).  Two of them are *)
(* seen from two sides, each with what is at rest on the other:            *)
(*   access: grants, roles and menus; reach: levels and organisations;     *)
(*   messages: notices to one rider and his messenger; binding: who binds  *)
(*     whom, with two people for a rider or two riders for a person.       *)
(***************************************************************************)
EXTENDS AccessControl, Benefits, Payroll, Workforce, StaffCover, Tenancy, StaffMessages

CONSTANTS ann, bob, r1, r2, rider1, person1

VARIABLE office

offices == {"access", "benefits", "pay", "staff", "cover", "tenancy", "messages", "reach", "binding"}

\* A coupon for new users, and a partner's coupon that clerks hand out.
SignupAndPartner == {<<"platform", "signup">>, <<"partner", "manual">>}

NoneOfACompany == company = [c \in Campuses |-> NoCompany]
OnePerm == \A m \in Menus : menu[m].perm = CHOOSE p \in Perms : TRUE

\* How access control begins: ann administers, and bob does as well or has a
\* role of the old templates; other grants are given later.
AccessBegins == grant[bob] \in {TheSuper, [role |-> r2, at |-> {"platform"}]} /\ NoneOfACompany

\* How it begins for its reach: bob's role, at every campus, makes no difference.
ReachBegins == grant[bob] = [role |-> r1, at |-> Campuses] /\ OnePerm

\* The requests are bob's.  As nobody is made an administrator later, ann is one
\* for good unless bob begins as one, and then either may be called bob.
BobAsks == \A q \in Requests : request'[q].by # ann

\* What stays as it is while the other side is looked at.
NoReaches == BobAsks /\ company' = company /\ \A a \in Accounts : account'[a].reach = NoReach
OnlyReaches == BobAsks /\ UNCHANGED <<role, menu>> /\ grant'[ann] = TheSuper /\ grant'[bob].role # r2
OneOfEach == bound' \subseteq {<<person1, rider1>>} /\ \A w \in Persons \ {person1} : follows'[w] = {}
OneWithTwo == /\ UNCHANGED <<touch, credit>>
              /\ bound' \subseteq Persons \X {rider1} \/ bound' \subseteq {person1} \X People

\* One initial state of each, for the behaviours of the others.
AccessAtRest == grant[bob] = TheSuper /\ OnePerm /\ NoneOfACompany
OthersAtRest == /\ wardens \subseteq {rider1} /\ \A s \in People \ {rider1} : home[s] = PlatformFirm
                /\ \A w \in Persons \ {person1} : circle[w] = {PlatformFirm}
MessagesAtRest == /\ OthersAtRest /\ wardens = {} /\ home[rider1] = PlatformFirm
                  /\ circle[person1] = {PlatformFirm}

BackOfficeInit ==
  /\ office \in offices
  /\ AccessInit /\ BenefitInit /\ PayInit /\ StaffInit /\ CoverInit /\ TenancyInit /\ MessagesInit
  /\ grant[ann] = TheSuper
  /\ CASE office = "access" -> AccessBegins [] office = "reach" -> ReachBegins [] OTHER -> AccessAtRest
  /\ IF office = "messages" THEN OthersAtRest ELSE MessagesAtRest
  /\ AccessTypeOK /\ BenefitTypeOK /\ PayTypeOK /\ StaffTypeOK /\ CoverTypeOK /\ TenancyTypeOK /\ MessagesTypeOK

BackOfficeNext ==
  \/ office \in {"access", "reach"} /\ UNCHANGED <<office, benefitVars, payVars, staffVars, coverVars,
          tenancyVars, messageVars>>
     /\ AccessNext /\ IF office = "access" THEN NoReaches ELSE OnlyReaches
  \/ office = "benefits" /\ UNCHANGED <<office, rbacVars, payVars, staffVars, coverVars, tenancyVars,
          messageVars>>
     /\ BenefitNext
  \/ office = "pay" /\ UNCHANGED <<office, rbacVars, benefitVars, staffVars, coverVars, tenancyVars,
          messageVars>>
     /\ PayNext
  \/ office = "staff" /\ UNCHANGED <<office, rbacVars, benefitVars, payVars, coverVars, tenancyVars,
          messageVars>>
     /\ StaffNext
  \/ office = "cover" /\ UNCHANGED <<office, rbacVars, benefitVars, payVars, staffVars, tenancyVars,
          messageVars>>
     /\ CoverNext
  \/ office = "tenancy" /\ UNCHANGED <<office, rbacVars, benefitVars, payVars, staffVars, coverVars,
          messageVars>>
     /\ TenancyNext
  \/ office \in {"messages", "binding"} /\ UNCHANGED <<office, rbacVars, benefitVars, payVars, staffVars,
          coverVars, tenancyVars>>
     /\ MessagesNext /\ IF office = "messages" THEN OneOfEach ELSE OneWithTwo

backOfficeVars == <<office, rbacVars, benefitVars, payVars, staffVars, coverVars, tenancyVars, messageVars>>

BackOfficeSpec == BackOfficeInit /\ [][BackOfficeNext]_backOfficeVars

\* What can differ between two states in which the same one moves.
BackOfficeView ==
  <<office,
    CASE office \in {"access", "reach"} -> rbacVars
      [] office = "benefits" -> benefitVars
      [] office = "pay" -> payVars
      [] office = "staff" -> staffVars
      [] office = "cover" -> coverVars
      [] office = "tenancy" -> tenancyVars
      [] office \in {"messages", "binding"} -> messageVars>>

\* The type invariants of the modules, each where its office moves.
BackOfficeTypeOK ==
  /\ office \in {"access", "reach"} => AccessTypeOK
  /\ office = "benefits" => BenefitTypeOK
  /\ office = "pay" => PayTypeOK
  /\ office = "staff" => StaffTypeOK
  /\ office = "cover" => CoverTypeOK
  /\ office = "tenancy" => TenancyTypeOK
  /\ office \in {"messages", "binding"} => MessagesTypeOK

\* Buildings, posts and the care of buildings are given out as people were
\* told (Workforce, StaffCover).
Staffed == OneAppointed /\ HiredOnce /\ AnswersStand
=============================================================================
