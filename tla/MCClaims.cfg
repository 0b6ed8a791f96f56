SPECIFICATION FairSpec
CONSTANTS
  OtherFields <- MCOtherFields
  Values <- MCValues
  Unset = Unset
  Empty = Empty
  NotJSON = NotJSON
  Refused = Refused
  m1 = m1
  full1 = full1
  full2 = full2
  patches1 = patches1
  patches2 = patches2
  bad = bad
  Machines = {m1}
  ControlPlane = {m1}
  Objects <- AllKinds
  FullSpecs = {full1, full2}
  PatchSpecs = {patches1, patches2, full2}
  BadSpecs = {bad}
  Mixed = Mixed
  MaxStaleAsks = 1
INVARIANT TypeOK
INVARIANT DecisionIsExact
INVARIANT NodeFollows
INVARIANT HooksAgree
PROPERTY ChangesLand
