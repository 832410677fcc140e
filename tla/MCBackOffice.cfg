\* The offices, each with one clerk per desk where the code needs it.
SPECIFICATION BackOfficeSpec
CONSTANTS
  ann = ann
  bob = bob
  r1 = r1
  r2 = r2
  rider1 = rider1
  person1 = person1
  Accounts = {ann, bob}
  Roles = {r1, r2}
  Menus = {m1, m2}
  Perms = {p}
  Campuses = {campus}
  Requests = {q1}
  Builtin = {}
  Retired = {r2}
  Super = Super
  NoRole = NoRole
  Hq = {}
  Companies = {company1}
  NoCompany = NoCompany
  Levels = {"org"}
  MaxVersion = 2
  MaxSession = 1
  Customers = {u1}
  Visits = {v1, v2}
  Days = {1}
  Kinds <- SignupAndPartner
  Quota = 1
  MaxHeld = 2
  Jobs = {j1, j2}
  Months = {1, 2}
  Listers = {l1}
  Fee = 2
  Staffs = {st1, st2}
  Buildings = {bd1}
  StaffClerks = {sc1}
  Forms = {f1}
  MaxApplied = 2
  HandNos = {2}
  Wardens = {w1, w2}
  Houses = {house1}
  Invites = {i1}
  LeaveRows = {leave1}
  Errands = {e1, e2}
  Orgs = {org1, org2}
  FirstOrg = org1
  Apps = {app1}
  Sites = {site1, site2}
  Users = {user1}
  Operators = {op1}
  People = {rider1, rider2}
  Persons = {person1, person2}
  Firms = {firm1, firm2}
  PlatformFirm = firm1
  Registered = {firm2}
  Delivering = {firm2}
  StaffDelivery = {}
  Notices = {notice1}
  MaxCredit = 2
INVARIANTS BackOfficeTypeOK CacheTrue AccessKept BenefitsKept PaidWithinEarned Staffed Tenanted StaffReached
VIEW BackOfficeView
CHECK_DEADLOCK FALSE
