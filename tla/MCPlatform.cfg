CONSTANTS
  Releases = {r1, r2, r3}
  NoRelease = none
  Mode = "strict"
  Calls = {c1, c2}
  Ids = {1, 2}
  Slots = {c1, c2}
  Scans = {s1, s2}
  MaxCalls = 3
  MaxCrashes = 1
  Tasks = {t1}
  Sweeps = {s1, s2}
  Maintenance = s1
  Retains = TRUE
  MaxRuns = 2
  Policies <- ThreePolicies
  Settings <- TwoSettings
  Objectable = {"own"}
  Keys = {k1}
  Aliases = {a1}
  Ops = {o1, o2}
  None = none
  MaxAttempts = 2
  MaxConns = 2
  MaxTurns = 2
  Events = {e1}
  Deliveries = {d1, d2}
  Setups <- TwoSetups
  Text <- OneText
  Window = 1
  SessionWindow = 1
  MaxTime = 4
  Never = none
SPECIFICATION PickSpec
INVARIANTS
  RollbackLeadsElsewhere
  EscalatedOnce
  RunningIsWanted
  RegistrySurvives
  SweepsSpareWorkers
  DoneIsVerified
  AliasesFollow
  NothingOlder
  TakenOnce
CHECK_DEADLOCK FALSE
