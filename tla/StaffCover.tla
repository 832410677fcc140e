------------------------------ MODULE StaffCover ------------------------------
(***************************************************************************)
(* Building managers who stand in for each other: the requests for leave,  *)
(* and the invitations to look after another building, which the desk      *)
(* sends and takes back while the manager answers (FulfillmentService and  *)
(* AdminService).  Nothing in the code decides on a leave, and an accepted *)
(* invitation changes nobody's building.                                   *)
(***************************************************************************)
EXTENDS Naturals

CONSTANTS
  Wardens,       \* building managers of a campus
  Houses,        \* its buildings
  Invites, LeaveRows,
  Errands        \* answers under way at once

ASSUME CoverAssumption == "none" \notin Wardens \cup Houses \cup Invites

VARIABLES
  post,          \* Staff.buildingId
  invitation,    \* DispatchInvitation
  told,          \* what was reported to have become of it
  leave,         \* LeaveRequest
  errand         \* what a request has read

coverVars == <<post, invitation, told, leave, errand>>

Answers == {"accepted", "rejected"}
NoInvite == [to |-> "none", of |-> "none", status |-> "none"]
NoLeave == [by |-> "none", substitute |-> "none", status |-> "none"]
NoErrand == [on |-> "none", answer |-> "none"]

CoverTypeOK ==
  /\ post \in [Wardens -> Houses \cup {"none"}]
  /\ invitation \in [Invites -> [to : Wardens \cup {"none"}, of : Houses \cup {"none"},
                                 status : {"none", "invited", "cancelled"} \cup Answers]]
  /\ told \in [Invites -> SUBSET ({"cancelled"} \cup Answers)]
  /\ leave \in [LeaveRows -> [by : Wardens \cup {"none"}, substitute : Wardens \cup {"none"},
                           status : {"none", "pending", "cancelled"}]]
  /\ errand \in [Errands -> [on : Invites \cup {"none"}, answer : Answers \cup {"none"}]]

CoverInit ==
  /\ post = [w \in Wardens |-> "none"]
  /\ invitation = [i \in Invites |-> NoInvite]
  /\ told = [i \in Invites |-> {}]
  /\ leave = [l \in LeaveRows |-> NoLeave]
  /\ errand = [e \in Errands |-> NoErrand]

\* updateStaff, of which Workforce says more.
Rebind(w, h) ==
  /\ h = "none" \/ \A v \in Wardens \ {w} : post[v] # h
  /\ post' = [post EXCEPT ![w] = h]
  /\ UNCHANGED <<invitation, told, leave, errand>>

\* createDispatchInvitation: not for one's own building.
CreateDispatchInvitation(i, w, h) ==
  /\ invitation[i] = NoInvite
  /\ post[w] # h
  /\ invitation' = [invitation EXCEPT ![i] = [to |-> w, of |-> h, status |-> "invited"]]
  /\ UNCHANGED <<post, told, leave, errand>>

\* respondDispatch finds the invitation open, and then writes by its id.
RespondRead(e, i, answer) ==
  /\ errand[e] = NoErrand
  /\ invitation[i].status = "invited"
  /\ errand' = [errand EXCEPT ![e] = [on |-> i, answer |-> answer]]
  /\ UNCHANGED <<post, invitation, told, leave>>

RespondWrite(e) ==
  LET i == errand[e].on IN
  /\ i # "none"
  /\ invitation' = [invitation EXCEPT ![i].status = errand[e].answer]
  /\ told' = [told EXCEPT ![i] = @ \cup {errand[e].answer}]
  /\ errand' = [errand EXCEPT ![e] = NoErrand]
  /\ UNCHANGED <<post, leave>>

\* cancelDispatchInvitation is a conditional update.
CancellableAlways(i) == invitation[i] # NoInvite
Cancellable(i) == invitation[i].status = "invited"

CancelDispatchInvitation(i) ==
  /\ Cancellable(i)
  /\ invitation' = [invitation EXCEPT ![i].status = "cancelled"]
  /\ told' = [told EXCEPT ![i] = @ \cup {"cancelled"}]
  /\ UNCHANGED <<post, leave, errand>>

\* createLeave: the platform finds somebody, or the manager names another.
CreateLeave(l, w, s) ==
  /\ leave[l] = NoLeave
  /\ s # w
  /\ leave' = [leave EXCEPT ![l] = [by |-> w, substitute |-> s, status |-> "pending"]]
  /\ UNCHANGED <<post, invitation, told, errand>>

CancelLeave(l) ==
  /\ leave[l].status = "pending"
  /\ leave' = [leave EXCEPT ![l].status = "cancelled"]
  /\ UNCHANGED <<post, invitation, told, errand>>

CoverNext ==
  \/ \E w \in Wardens, h \in Houses \cup {"none"} : Rebind(w, h)
  \/ \E i \in Invites : \/ CancelDispatchInvitation(i)
                        \/ \E w \in Wardens, h \in Houses : CreateDispatchInvitation(i, w, h)
                        \/ \E e \in Errands, answer \in Answers : RespondRead(e, i, answer)
  \/ \E e \in Errands : RespondWrite(e)
  \/ \E l \in LeaveRows : CancelLeave(l) \/ \E w \in Wardens, s \in Wardens \cup {"none"} : CreateLeave(l, w, s)

CoverSpec == CoverInit /\ [][CoverNext]_coverVars

-----------------------------------------------------------------------------
(* Properties *)

\* A manager who was told that an answer counts, has an invitation with an
\* answer of his, whenever the desk took it back and however often he tapped
\* (respondDispatch, cancelDispatchInvitation).
AnswersStand ==
  \A i \in Invites : told[i] \cap Answers # {} => invitation[i].status \in told[i] \cap Answers

\* An invitation that the desk was told is taken back stays so
\* (admin.service.ts 8344: exclusive with the manager's answer).  An answer
\* that read it before breaks this; no run checks it.
CancelledStays ==
  \A i \in Invites : "cancelled" \in told[i] => invitation[i].status = "cancelled"
=============================================================================
