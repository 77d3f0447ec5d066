---------------------------- MODULE MCStaffAccess ----------------------------
EXTENDS StaffAccess, TLC

CONSTANTS ada, bello, chidi

\* Two super admins, and an address not yet invited.
Seeded == (ada :> "SUPER_ADMIN") @@ (bello :> "SUPER_ADMIN") @@ (chidi :> "NONE")

Alike == Permutations(Worker) \cup Permutations({ada, bello})
==============================================================================
