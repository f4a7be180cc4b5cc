SPECIFICATION EditorSpec
CONSTANTS
  h1 = h1
  h2 = h2
  t1 = t1
  o1 = o1
  c1 = c1
  c2 = c2
  c3 = c3
  s1 = s1
  l1 = l1
  l2 = l2
  Hosts = {h1, h2}
  Paths = {root, home}
  Root = root
  Home = home
  Transfers = {t1}
  Uploads = {t1}
  MaxOpens = 2
  MaxRequests = 2
  Others = {o1}
  Calls = {c1, c2, c3, s1, l1, l2}
  PanelCalls = {c1}
  Reads = {l1, l2}
  MaxSessions = 2
  f1 = f1
  f2 = f2
  x1 = x1
  x2 = x2
  root = root
  home = home
  Files = {f1, f2}
  Texts = {x1, x2}
  Cut = Cut
  Save = s1
  Loads = {l1, l2}
  MaxSaves = 1
  MaxLoads = 2
  Casts <- MCCasts
INVARIANTS PanelInv SessionsInv EditorInv
PROPERTIES EverythingSettles ImplementsPanel
CHECK_DEADLOCK FALSE
