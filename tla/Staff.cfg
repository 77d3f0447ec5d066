\* Three accounts, two of them super admins; three requests at once, four in all.
SPECIFICATION Spec
CONSTANTS
  ada = ada
  bello = bello
  chidi = chidi
  Staff = {ada, bello, chidi}
  Nobody = Nobody
  SeededRole <- Seeded
  MaxLinks = 1
  MaxRequests = 4
  Requests = {"preset", "deactivate", "suspend", "lift", "toggle", "invite", "resend", "activate", "signIn", "reset"}
  Worker = {w1, w2, w3}
SYMMETRY Alike
CHECK_DEADLOCK FALSE
INVARIANTS TypeOK SuperAdminRemains GrantsFollowRole
