CONSTANTS
  Values = {1, 2, 3}
  Missing = Missing
  Round <- MCRound
  MaxRows = 4

SPECIFICATION Spec

INVARIANTS
  TypeOK
  DuplicationsAreExact
  HeadingsAreDisjoint
  OutliersAreFound
  MissingsAreExact
