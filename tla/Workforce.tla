------------------------------- MODULE Workforce -------------------------------
(***************************************************************************)
(* Members of staff and the recruitment of interns.  Clerks create, edit   *)
(* and delete staff and decide on the applications of one candidate; a     *)
(* member of staff sets its own status in the courier's app.  What a       *)
(* request writes rests on reads of an earlier step.                       *)
(*                                                                         *)
(* A number IBM-n is the number n; numbers are ordered as texts of at      *)
(* least three digits.  Names, phones, campuses and remarks are left out.  *)
(***************************************************************************)
EXTENDS Integers, FiniteSets

CONSTANTS
  Staffs,         \* rows of Staff
  Buildings,
  StaffClerks,    \* clerks at work at once
  Forms,          \* forms the candidate has open at once
  MaxApplied,     \* bound on the candidate's applications
  HandNos         \* numbers that clerks give by hand

ASSUME StaffAssumption ==
  /\ IsFiniteSet(Staffs) /\ MaxApplied \in Nat /\ HandNos \subseteq 1..9999
  /\ "none" \notin Staffs \cup Buildings /\ "keep" \notin Buildings

VARIABLES
  staff,          \* Staff: status, role, building and number; and, for the
                  \* properties, whether a clerk has deleted the row
  application,    \* RecruitingApplication, by the order of its creation
  seat,           \* what a clerk's request has read
  form            \* what the candidate's request has read

staffVars == <<staff, application, seat, form>>

Duties == {"manager", "intern", "rider"}
Places == Buildings \cup {"none"}
Applied == 1..MaxApplied
NoStaff == [status |-> "absent", role |-> "rider", building |-> "none", no |-> 0,
            dismissed |-> FALSE]
NoApplication == [status |-> "none", building |-> "none", staff |-> "none"]
NoTask == [pc |-> "idle", on |-> "none", app |-> 0, role |-> "keep", building |-> "keep", no |-> 0]
Blank == [pc |-> "idle", app |-> 0]

StaffTypeOK ==
  /\ staff \in [Staffs -> [status : {"absent", "online", "paused", "deleted"}, role : Duties,
                           building : Places, no : Nat, dismissed : BOOLEAN]]
  /\ application \in [Applied -> [status : {"none", "pending", "interviewing", "approved", "rejected"},
                                  building : Places, staff : Staffs \cup {"none"}]]
  /\ seat \in [StaffClerks -> [pc : {"idle", "create", "edit", "delete", "interview", "reject", "approve"},
                                on : Staffs \cup {"none"}, app : Applied \cup {0},
                                role : Duties \cup {"keep"}, building : Places \cup {"keep"}, no : Nat]]
  /\ form \in [Forms -> [pc : {"idle", "apply", "amend"}, app : Applied \cup {0}]]

StaffInit ==
  /\ staff = [s \in Staffs |-> NoStaff]
  /\ application = [a \in Applied |-> NoApplication]
  /\ seat = [c \in StaffClerks |-> NoTask]
  /\ form = [f \in Forms |-> Blank]

Employed(s) == staff[s].status \notin {"absent", "deleted"}
Numbered == {staff[s].no : s \in Staffs} \ {0}

\* Another full manager of the building who is not deleted.
ManagerElse(s, b) ==
  \E t \in Staffs \ {s} : Employed(t) /\ staff[t].role = "manager" /\ staff[t].building = b

Begin(c, w) == seat[c] = NoTask /\ seat' = [seat EXCEPT ![c] = w]
Finish(c) == seat' = [seat EXCEPT ![c] = NoTask]

-----------------------------------------------------------------------------
(* Staff *)

\* createStaff: a manager or intern needs a building, a courier must have none.
CreateCheck(c, role, b, n) ==
  /\ n \notin Numbered
  /\ (role = "rider") <=> (b = "none")
  /\ role = "manager" => ~ManagerElse("none", b)
  /\ Begin(c, [NoTask EXCEPT !.pc = "create", !.role = role, !.building = b, !.no = n])
  /\ UNCHANGED <<staff, application, form>>

\* The number is unique in the database.
CreateWrite(c) ==
  /\ seat[c].pc = "create" /\ Finish(c)
  /\ \E s \in Staffs :
       /\ staff[s].status = "absent"
       /\ staff' = IF seat[c].no \in Numbered THEN staff
                   ELSE [staff EXCEPT ![s] = [status |-> "online", role |-> seat[c].role,
                                              building |-> seat[c].building, no |-> seat[c].no,
                                              dismissed |-> FALSE]]
  /\ UNCHANGED <<application, form>>

\* updateStaff: whoever becomes the manager of a building, by a new building
\* or by a new role, must be its only one.
NeedsCheckOnMove(s, role, b) == role = "manager" /\ b # "none" /\ b # staff[s].building
NeedsCheck(s, role, b) ==
  role = "manager" /\ b # "none" /\ (b # staff[s].building \/ role # staff[s].role)

EditCheck(c, s, role, b) ==
  LET newRole == IF role = "keep" THEN staff[s].role ELSE role
      newBuilding == IF b = "keep" THEN staff[s].building ELSE b
  IN /\ Employed(s)
     /\ <<role, b>> # <<"keep", "keep">>
     /\ NeedsCheck(s, newRole, newBuilding) => ~ManagerElse(s, newBuilding)
     /\ Begin(c, [NoTask EXCEPT !.pc = "edit", !.on = s, !.role = role,
                    !.building = IF newRole = "rider" /\ b = "keep" THEN "none" ELSE b])
     /\ UNCHANGED <<staff, application, form>>

\* Only the fields of the request are written.
EditWrite(c) ==
  LET w == seat[c] IN
  /\ w.pc = "edit" /\ Finish(c)
  /\ staff' = [staff EXCEPT ![w.on].role = IF w.role = "keep" THEN @ ELSE w.role,
                            ![w.on].building = IF w.building = "keep" THEN @ ELSE w.building]
  /\ UNCHANGED <<application, form>>

DeleteCheck(c, s) ==
  /\ Employed(s)
  /\ Begin(c, [NoTask EXCEPT !.pc = "delete", !.on = s])
  /\ UNCHANGED <<staff, application, form>>

DeleteWrite(c) ==
  /\ seat[c].pc = "delete" /\ Finish(c)
  /\ staff' = [staff EXCEPT ![seat[c].on].status = "deleted", ![seat[c].on].dismissed = TRUE]
  /\ UNCHANGED <<application, form>>

\* updateStatus: the app's token is good for seven days and the row's status
\* is not looked at, so that a deleted member comes back into service.
SetOwnStatus(s) ==
  /\ staff[s].status # "absent"
  /\ \E status \in {"online", "paused"} : staff' = [staff EXCEPT ![s].status = status]
  /\ UNCHANGED <<application, seat, form>>

-----------------------------------------------------------------------------
(* Recruitment *)

\* recruitApply: no application of the candidate is open or approved.
OpenOnly == {"pending", "interviewing"}
InTheWay == {"pending", "interviewing", "approved"}
ApplyRead(f) ==
  /\ form[f] = Blank
  /\ \A a \in Applied : application[a].status \notin InTheWay
  /\ form' = [form EXCEPT ![f].pc = "apply"]
  /\ UNCHANGED <<staff, application, seat>>

ApplyWrite(f, b) ==
  /\ form[f].pc = "apply"
  /\ \E a \in Applied :
       /\ application[a].status = "none" /\ \A p \in 1..a - 1 : application[p].status # "none"
       /\ application' = [application EXCEPT ![a] = [status |-> "pending", building |-> b, staff |-> "none"]]
  /\ form' = [form EXCEPT ![f] = Blank]
  /\ UNCHANGED <<staff, seat>>

\* recruitUpdate: the latest application, while it is open.
AmendRead(f) ==
  /\ form[f] = Blank
  /\ \E a \in Applied :
       /\ application[a].status \in OpenOnly
       /\ \A n \in a + 1..MaxApplied : application[n].status = "none"
       /\ form' = [form EXCEPT ![f] = [pc |-> "amend", app |-> a]]
  /\ UNCHANGED <<staff, application, seat>>

AmendWrite(f, b) ==
  /\ form[f].pc = "amend"
  /\ application' = [application EXCEPT ![form[f].app].building = b]
  /\ form' = [form EXCEPT ![f] = Blank]
  /\ UNCHANGED <<staff, seat>>

\* recruitTransition, recruitReject and recruitApprove each look at the status
\* first and write by the id alone.
DecisionRead(c, a, decision) ==
  /\ application[a].status \in IF decision = "interview" THEN {"pending"} ELSE OpenOnly
  /\ Begin(c, [NoTask EXCEPT !.pc = decision, !.app = a])
  /\ UNCHANGED <<staff, application, form>>

InterviewWrite(c) ==
  /\ seat[c].pc = "interview" /\ Finish(c)
  /\ application' = [application EXCEPT ![seat[c].app].status = "interviewing"]
  /\ UNCHANGED <<staff, form>>

RejectWrite(c) ==
  /\ seat[c].pc = "reject" /\ Finish(c)
  /\ application' = [application EXCEPT ![seat[c].app].status = "rejected"]
  /\ UNCHANGED <<staff, form>>

\* Where the text IBM-n stands: of two numbers of different length the digits
\* decide first.
TextRank(n) == IF n < 1000 THEN 20 * n - 1 ELSE 2 * n
LastNo == CHOOSE n \in Numbered : \A k \in Numbered : TextRank(k) <= TextRank(n)
NextNo == IF Numbered = {} THEN 1 ELSE LastNo + 1

\* recruitApprove: one above the last number; a number that exists already
\* aborts the transaction.
ApproveWrite(c) ==
  LET a == seat[c].app IN
  /\ seat[c].pc = "approve" /\ Finish(c)
  /\ \E s \in Staffs :
       /\ staff[s].status = "absent"
       /\ IF NextNo \in Numbered THEN UNCHANGED <<staff, application>>
          ELSE /\ staff' = [staff EXCEPT ![s] = [status |-> "online", role |-> "intern",
                                                 building |-> application[a].building, no |-> NextNo,
                                                 dismissed |-> FALSE]]
               /\ application' = [application EXCEPT ![a].status = "approved", ![a].staff = s]
  /\ UNCHANGED form

-----------------------------------------------------------------------------

StaffNext ==
  \/ \E c \in StaffClerks :
       \/ CreateWrite(c) \/ EditWrite(c) \/ DeleteWrite(c)
       \/ InterviewWrite(c) \/ RejectWrite(c) \/ ApproveWrite(c)
       \/ \E role \in Duties, b \in Places, n \in HandNos : CreateCheck(c, role, b, n)
       \/ \E s \in Staffs, role \in Duties \cup {"keep"}, b \in Places \cup {"keep"} : EditCheck(c, s, role, b)
       \/ \E s \in Staffs : DeleteCheck(c, s)
       \/ \E a \in Applied, d \in {"interview", "reject", "approve"} : DecisionRead(c, a, d)
  \/ \E s \in Staffs : SetOwnStatus(s)
  \/ \E f \in Forms : ApplyRead(f) \/ AmendRead(f) \/ \E b \in Buildings : ApplyWrite(f, b) \/ AmendWrite(f, b)

StaffSpec == StaffInit /\ [][StaffNext]_staffVars

-----------------------------------------------------------------------------
(* Properties *)

\* Of the staff whom no clerk has deleted, a building has at most one manager
\* in service, through any sequence of creations, moves, promotions, unbindings
\* and deletions by one clerk while the staff set their own status
\* (createStaff, updateStaff, deleteStaff, updateStatus).
Manages(s, b) == Employed(s) /\ staff[s].role = "manager" /\ staff[s].building = b
OneAppointed ==
  \A s, t \in Staffs, b \in Buildings :
    Manages(s, b) /\ Manages(t, b) /\ ~staff[s].dismissed /\ ~staff[t].dismissed => s = t

\* A building has at most one manager in service (admin.service.ts 5681, of
\* createStaff: one building, one manager in service).  One clerk is enough to
\* break it: a manager who was deleted and replaced sets his own status (the run
\* manager_online).
OneManager ==
  \A s, t \in Staffs, b \in Buildings : Manages(s, b) /\ Manages(t, b) => s = t

\* A candidate is hired at most once over all its applications, which it may
\* send, amend and send again after a rejection (recruitApply, recruitApprove).
HiredOnce ==
  \A a, b \in Applied : application[a].staff # "none" /\ application[b].staff # "none" => a = b

\* The number the next approval will take is free, so that an application can
\* be approved (recruitApprove).  From IBM-999 on the last number of the texts
\* is not the largest; the run's numbers are smaller and it does not check this.
NextNoFree == NextNo \notin Numbered
=============================================================================
