SPECIFICATION Spec
CONSTANTS
  e1 = e1
  e2 = e2
  c1 = c1
  c2 = c2
  NoEnv = NoEnv
  NoJob = NoJob
  Env <- Envs
  Child <- Children
  Process <- Children
  AgeCap = 0
  ProvisionRetries = 1
  TeardownRetries = 1
  MaxSends = 1
  MaxKills = 1
SYMMETRY Alike
INVARIANT
  TemplateLabelsClosed
