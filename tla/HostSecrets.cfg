SPECIFICATION HostSpec
CONSTANTS
  NAccounts = 2
  Passwords = {p1, p2}
  LegacyKey = legacyKey
  SystemKey = systemKey
  NoKey = NoKey
  BadItem = BadItem
  Threads = {t1, t2}
  Born = {1}
  MaxCrashes = 1
INVARIANTS HostInv OpensAgain PlaceholdersHaveSecrets
\* When every host is gone and the vault is open nobody has anything to do.
CHECK_DEADLOCK FALSE
