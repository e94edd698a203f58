CONSTANTS
  r1 = r1
  r2 = r2
  r3 = r3
  r4 = r4
  Requests = {r1, r2, r3, r4}
  Users = {"admin", "ann", "bob"}
  Admin = "admin"
  NoUser = "nobody"
  Username <- MCUsername
  Databases <- MCDatabases
  MaxSessions = 3
  Ids = {"a", "b", "c"}
  Owner <- MCOwner
  Mint <- MCMint
  Kept = {"a"}
  Clients = {"page"}
  Capacity = 1
SPECIFICATION PlatformSpec
SYMMETRY Perms
INVARIANT PasswordChangeClosesSessions
INVARIANT BadgeTellsTheSwitch
PROPERTY ActiveWalletLostInRaceOnly
CHECK_DEADLOCK FALSE
