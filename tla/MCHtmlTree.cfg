CONSTANTS
  Documents <- MCDocuments
  Fragments <- MCFragments
  Words <- MCWords
  Queries <- MCQueries
  MaxSteps = 2
SPECIFICATION Spec
INVARIANTS NeighboursAgree SelectFindsAll
PROPERTIES ChangesReadBack
