SPECIFICATION Spec
CONSTANTS
  None = None
  Keys = {conn}
  Base = conn
  Connects = {c1, c2}
  Desktop = {c1, c2}
  Disconnects = {}
  Gets = {}
  Reconnects = {}
  Healths = {}
  Removers = {}
  Refreshes = {}
  Setups <- TwoConnects
  Drops = FALSE
  Refusing = TRUE
  Names <- Plain
  KeyOf <- AllOnConnection
  conn = conn
  db = db
  c1 = c1
  c2 = c2
  d1 = d1
  g1 = g1
  r1 = r1
  h1 = h1
  f1 = f1
CHECK_DEADLOCK FALSE
PROPERTY StaleCannotReplace
