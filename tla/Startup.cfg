\* Two servers race over two migrations and the administrator; one fault cuts
\* one of them; two signups race for a name, one of them the administrator's.
CONSTANTS
  Servers = {s1, s2}
  Migrations = 2
  Admin = admin
  Names = {admin, kim}
  Emails = {mail}
  Requests = {r1, r2}
  MaxFaults = 1
SPECIFICATION Spec
INVARIANTS
  AppliedOnceInOrder
  AdminIsSuper
  AccountsDistinct
PROPERTIES
  ServesAgain
