SPECIFICATION FairSpec
CONSTANTS
  Sessions = {s1, s2}
  Terms <- MCTerms
  MinTerm = 1
  MaxTerm = 3
  DefaultTerm = 2
  MaxTime = 6
  InboxSize = 1
  None = None
INVARIANTS TypeOK SocketsOwned
PROPERTIES NoneEndedEarly ImplementsSession SessionsEnd
