SPECIFICATION GateSpec
CONSTANTS
  dom = dom
  app = app
  use = use
  ifc = ifc
  inf = inf
  con = con
  leg = leg
  cor = cor
  Nodes = {dom, app, use, ifc, inf, con, leg, cor}
  Dirs <- MCDirs
  Name <- MCName
  MaxEdges = 5
  Programs <- MCPrograms
INVARIANTS
  CyclesReported
  DeniedImportsReported
  GatesAgree
CHECK_DEADLOCK FALSE
