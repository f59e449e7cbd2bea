CONSTANTS
  alice = alice
  bob = bob
  bobby = bobby
  g1 = g1
  a = a
  b = b
  ws = ws
  tcp = tcp
  m1 = m1
  m2 = m2
  None = None
  Users = {alice, bob}
  Channels = {a, b}
  LoginSlots = {b}
  Terminals = {ws, tcp}
  Groups = {}
  Msgs = {m1}
  UserOf <- MCUserOf2
  TerminalOf <- MCTerm2
  SrcOf <- MCSrc1
  KindOf <- MCOnePrivate
  DestOf <- MCOneToBob
  AtZero = {}
  Members <- MCNoGroup
  KeysLike <- MCPrefixFree
  MaxFetch = 0
  MaxErrs = 0
  MaxCrashes = 0
SPECIFICATION Spec
CHECK_DEADLOCK FALSE
INVARIANT Reliable
