\* Two records of one partition, three calls that are tried twice.
SPECIFICATION Spec
CONSTANTS
  a = a
  b = b
  one = one
  Keys = {a, b}
  Parts = {one}
  PartOf <- MCPartOf
  Txs = {t1, t2, t3}
  Plans <- MCPlans
  Attempts = 2
SYMMETRY Symmetry
INVARIANTS
  DynamoInv
  BlobsResolve
PROPERTIES
  CommitsOnWhatItSaw
CHECK_DEADLOCK FALSE
