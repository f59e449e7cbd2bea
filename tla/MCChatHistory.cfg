CONSTANTS
  alice = alice
  bob = bob
  bobby = bobby
  g1 = g1
  a = a
  b = b
  ws = ws
  tcp = tcp
  m1 = m1
  m2 = m2
  None = None
  Users = {alice, bob}
  Channels = {a, b}
  LoginSlots = {}
  Terminals = {ws, tcp}
  Groups = {g1}
  Msgs = {m1, m2}
  UserOf <- MCUserOf2
  TerminalOf <- MCTerm2
  SrcOf <- MCSrcA
  KindOf <- MCMixed
  DestOf <- MCToMixed
  AtZero = {m2}
  Members <- MCBobOnly
  KeysLike <- MCPrefixFree
  MaxFetch = 1
  MaxErrs = 1
  MaxCrashes = 1
SPECIFICATION FairSpec
CHECK_DEADLOCK FALSE
PROPERTY HistoryInOrder
PROPERTY AcceptedIsStored
INVARIANT PushKept
