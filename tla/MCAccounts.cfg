CONSTANTS
  person = person
  tabA = tabA
  r1 = r1
  r2 = r2
  Users <- MCUsers
  Tabs <- MCTabs
  Requests <- MCRequests
  Demo = demo
  Nobody = nobody
  MaxAsks = 2
  MaxVisits = 1
  Opened <- MCOpened
SPECIFICATION FairSpec
INVARIANTS SessionsAreVerified SignInShows
PROPERTIES ComesToRest
CHECK_DEADLOCK FALSE
