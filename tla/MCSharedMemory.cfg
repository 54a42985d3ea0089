SPECIFICATION Spec
CONSTANTS
  c1 = c1
  c2 = c2
  p1 = p1
  p2 = p2
  Creators = {c1, c2}
  Openers = {p1, p2}
  Object = {o1, o2, o3, o4}
  None = None
  Size <- MCSize
  OneCreator = TRUE
SYMMETRY Symmetry
INVARIANTS TypeOK NothingHeldOutside MappingWithinObject
PROPERTIES CreateIsFresh NameGivenBack
