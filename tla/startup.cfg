SPECIFICATION FairSpec
CONSTANTS
  Names = {"r0", "cpsr"}
  Chunk = 2
  Layouts <- MCLayouts
  Leftovers <- MCLeftovers
  PC = pc
INVARIANTS
  StartsMonk
  RegistersNumbered
  RaisesForCause
PROPERTIES
  StartsUp
CHECK_DEADLOCK FALSE
