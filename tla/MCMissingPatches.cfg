SPECIFICATION Spec
CONSTANTS
  TemplateFields <- MCTemplateFields
  IdentityFields <- MCIdentityFields
  RebootFields <- MCRebootFields
  Values <- MCValues
  DayZero <- MCDayZero
  None = None
  Broken = Broken
  m1 = m1
  m2 = m2
  r1 = r1
  r2 = r2
  c1 = c1
  c2 = c2
  Machines = {m1}
  ControlPlane = {}
  Replicas = {r1}
  Calls = {c1}
  Bootstraps <- WithBadConfig
  Settle = 1
  Timeout = 2
  Faults = {"skipCheck"}
  MaxDisruptions = 0
PROPERTY MissingPatchesFail
