\* 25 calls: two cycles of the largest total, 12, which is below the modulus, and one more.
CONSTANTS
  WeightLists <- MCWeightLists
  WeightModulus = 16
  MaxCalls = 25
SPECIFICATION Spec
INVARIANTS ServedInTurn
CHECK_DEADLOCK FALSE
