CONSTANTS
  u1 = u1
  u2 = u2
  m1 = m1
  m2 = m2
  Handlers = {h1, h2}
  MaxCalls = 4
  Scenes = {{"register", "verify", "login", "request", "confirm"},
            {"login", "refresh", "logout", "forgot", "reset"},
            {"login", "refresh", "submit", "approve", "reject"}}
  Traders = {u1, u2}
  Markets = {m1, m2}
  Published <- MCPublished
  LastDay = 1
  FirstWeekdays = {0, 6}
  PayoutKes = 5
  Authors = {u1}
  Boards = {m1, m2}
  Posters = {h1, h2}
  MaxComments = 3
  LastTick = 1
  Happenings <- MCHappenings
  Recipients = {u1, u2}
  Devices = {d1}
  Sockets = {s1}
  MaxRows = 2
  MaxMoves = 2
  Binary = {}
  Multi = {m2}
  Options = {o1, o2}
  Admins = {a1, a2}
  Crons = {j1}
  MaxRequests = 3
  Faults = {"crash", "publish"}
SPECIFICATION Spec
INVARIANTS TypeOK CodesAreOneTime SessionsFollowPassword TiersFollowReviews AnalyticsAgree ThreadsAreOrderly ToldTheirOwnOnce OneVerdictOneWinner
PROPERTIES VerdictIsFinal
CHECK_DEADLOCK FALSE
