\* Two keys and an escape that cannot be decoded; three levels.
CONSTANTS
  Strings = {0, 1, 2}
  Numbers = {}
  MaxDepth = 3
  MaxFailures = 1
  MaxLexemes = 9
  MaxEdits = 1
SPECIFICATION JSpec
INVARIANTS
  ParsedMeansText
  ValuesHeldOrFreedOnce
  StacksAgree
  LookupsAgree
CHECK_DEADLOCK FALSE
