\* Two loaders, two contents that are the catalog's items, two temporary names.
CONSTANTS
  p1 = p1
  p2 = p2
  s1 = s1
  s2 = s2
  n1 = n1
  n2 = n2
  Loaders <- MCLoaders
  Shas <- MCShas
  Items <- MCShas
  Temps <- MCTemps
  NoFile = NoFile
  Blank = Blank
  Damaged = Damaged
  MaxDamage = 1
SPECIFICATION Spec
SYMMETRY MCSymmetry
INVARIANTS
  LoadedHasHash
  CachedFilesComplete
PROPERTIES
  FilesStay
