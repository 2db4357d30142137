SPECIFICATION FairSpec
CONSTANTS
  c1 = c1
  c2 = c2
  c3 = c3
  Call = {c1, c2, c3}
  Known <- MCKnown
  Backend = "postgres"
  NoHolder = NoHolder
  MaxSetbacks = 3
INVARIANTS
  MigratorsExclude
  SchemaIsComplete
PROPERTIES
  LockIsGivenBack
