SPECIFICATION Spec
CONSTANTS
  Handles = {h1, h2, h3}
  Segments = {s1, s2}
  None = None
  Header = 1
  Sizes = {2}
  DeathLimit = 1
SYMMETRY Symmetry
INVARIANTS TypeOK MappingBacked NoGhosts CreatorKeepsName
