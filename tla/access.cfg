SPECIFICATION Spec
SYMMETRY AccessSymmetry
CONSTANTS
  Address = {"z1"}
  RefCode = {"code1", "code2"}
  Username = {"root", "guest"}
  Password = {"p1", "p2"}
  Request = {r1, r2}
  Table <- MCTable
  InitRows <- MCInitRows
  MaxNonce = 2
  MaxHash = 3
  MaxCalls = 3
  NoRow = NoRow
  Server = {s1, s2}
  Default <- MCDefault
  MinerId = {"m1", "m2"}
  MinerName = {"name1", "name2"}
  InitUsername = "root"
  InitPassword = "p1"
INVARIANT OneNonceOneSession
INVARIANT StartsAreSafe
PROPERTY PasswordReplacedByItsHolder
