CONSTANTS
  alice = alice
  bob = bob
  bobby = bobby
  g1 = g1
  a = a
  b = b
  ws = ws
  tcp = tcp
  m1 = m1
  m2 = m2
  None = None
  Users = {alice, bob, bobby}
  Channels = {a, b}
  LoginSlots = {b}
  Terminals = {ws, tcp}
  Groups = {g1}
  Msgs = {m1}
  UserOf <- MCUserOf2
  TerminalOf <- MCTerm2
  SrcOf <- MCSrc1
  KindOf <- MCOneGroup
  DestOf <- MCOneToGroup
  AtZero = {}
  Members <- MCMembers
  KeysLike <- MCPrefixFree
  MaxFetch = 1
  MaxErrs = 1
  MaxCrashes = 1
SPECIFICATION Spec
CHECK_DEADLOCK FALSE
INVARIANT OwnMail
INVARIANT SettledExactlyOnce
