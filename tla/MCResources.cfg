SPECIFICATION RaceSpec
CONSTANTS
  Proxy = {x1, x2}
  Pool = {p1}
  Balancer = {b1}
  Router = {r1}
  Flow = {f1}
  Entrypoint = {e1}
  Auth = {a1}
  Times = {t0, t1}
  Past = t0
  Calls = {c1, c2}
  None = None
INVARIANTS DanglingOnlyByRace WeightedOverStatic
PROPERTIES IdentitySurvivesUpdate CredentialsSurviveUpdate
SYMMETRY Symmetry
CHECK_DEADLOCK FALSE
