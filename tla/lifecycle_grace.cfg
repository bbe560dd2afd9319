\* the smallest instance with a second server that can fail
CONSTANTS
  c1 = c1
  c2 = c2
  Conns = {c1}
  Home <- HomeOf
  Configured = {"app", "metrics"}
SPECIFICATION SysSpec
INVARIANT GraceNotCutShort
