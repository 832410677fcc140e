\* One clerk and two members of staff; one of them is deleted and comes back.
SPECIFICATION StaffSpec
CONSTANTS
  Staffs = {st1, st2}
  Buildings = {bd1}
  StaffClerks = {sc1}
  Forms = {f1}
  MaxApplied = 2
  HandNos = {1, 2}
INVARIANT OneManager
CHECK_DEADLOCK FALSE
