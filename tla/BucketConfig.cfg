SPECIFICATION FairSpec
CONSTANTS
  TagKeys = {t1, aws}
  TagValues = {x, y}
  ReservedKeys = {aws}
  Values = {v, w}
  RulesRead <- AsSpelled
  v = v
  w = w
  Malformed = Malformed
  NONE = NONE
  FirstSpecs <- BlankSpecs
  MaxEdits = 2
  MaxOutsider = 1
  MaxFaults = 1
INVARIANTS TypeOK PassedIsConfigured ConfiguredIsNotRewritten
PROPERTIES EventuallyConfigured
