CONSTANTS
  s1 = s1
  s2 = s2
  s3 = s3
  s4 = s4
  b1 = b1
  b2 = b2
  p1 = p1
  v1 = v1
  v2 = v2
  unset = unset
  Ids = {s1, s2, s3, s4}
  Names = {b1, b2, p1}
  Values = {v1, v2}
  Unset = unset
  Nodes <- MCNodes
  Programs <- MCPrograms
  MAX_CALL_DEPTH = 3
  Lists <- MCLists
  Meaning <- MCMeaning
  Again <- MCAgain
SPECIFICATION Spec
INVARIANTS TypeOK StacksAgree RunsAsMeant
PROPERTIES RunEnds
