\* no pprof server, so the branches of an optional server are taken too
CONSTANTS
  c1 = c1
  c2 = c2
  Conns = {c1, c2}
  Home <- HomeOf
  Configured = {"app", "metrics"}
SPECIFICATION SysSpec
INVARIANTS
  NoRequestAfterClose
  DrainedOrGaveUp
  SecondSignalHarmless
  ExitStatus
  LostAfterAnswer
PROPERTIES
  StopsOnceUp
  SignalDuringSetup
  ListenErrorStops
  KeepsContract
