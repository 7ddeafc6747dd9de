SPECIFICATION FairSpec
CONSTANTS
  None = None
  Keys = {conn, db}
  Base = conn
  Connects = {c1, c2}
  Desktop = {c2}
  Disconnects = {d1}
  Gets = {g1}
  Reconnects = {g1}
  Healths = {h1}
  Removers = {r1}
  Refreshes = {f1}
  Setups <- BothSetups
  Drops = TRUE
  Refusing = TRUE
  Names <- CancelFirst
  KeyOf <- SomeOnDatabase
  conn = conn
  db = db
  c1 = c1
  c2 = c2
  d1 = d1
  g1 = g1
  r1 = r1
  h1 = h1
  f1 = f1
CHECK_DEADLOCK FALSE
INVARIANT TypeOK
INVARIANT OneOwner
INVARIANT SupersededHasCause
INVARIANT DrainedStayOut
PROPERTY KeepaliveEnds
