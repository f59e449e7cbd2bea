CONSTANTS
  u1 = u1 u2 = u2 c1 = c1 c2 = c2 c3 = c3 tcp = tcp ws = ws
  Users <- MCUsers
  Channels <- MCChannels
  Terminals <- MCTerminals
  LoginSlots <- MCChannels
  UserOf <- MCUserOf
  TerminalOf <- MCDistinct
  MaxErrs = 0
  MaxCrashes = 0
SPECIFICATION PresenceSpec
CHECK_DEADLOCK FALSE
INVARIANT AbsentUserIsOffline
