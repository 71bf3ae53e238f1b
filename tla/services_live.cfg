CONSTANTS
  u1 = u1
  u2 = u2
  m1 = m1
  m2 = m2
  Handlers = {h1, h2}
  MaxCalls = 3
  Scenes = {{"register", "verify", "login", "request", "confirm"}}
  Traders = {u1, u2}
  Markets = {m1, m2}
  Published <- MCPublished
  LastDay = 0
  FirstWeekdays = {0}
  PayoutKes = 5
  Authors = {u1}
  Boards = {m1, m2}
  Posters = {h1, h2}
  MaxComments = 1
  LastTick = 0
  Happenings <- MCHappenings
  Recipients = {u1, u2}
  Devices = {d1}
  Sockets = {s1}
  MaxRows = 1
  MaxMoves = 0
  Binary = {m1}
  Multi = {m2}
  Options = {o1, o2}
  Admins = {a1}
  Crons = {j1}
  MaxRequests = 3
  Faults = {"crash", "publish"}
SPECIFICATION FairSpec
INVARIANTS OneVerdictOneWinner
PROPERTIES RegisteredHasProfile ExpiredIsClosed
CHECK_DEADLOCK FALSE
