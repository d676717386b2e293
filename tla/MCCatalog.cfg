CONSTANTS
  Workers = {w1, w2}
  None = None
  Slugs = {margherita, diavola}
  MaxMenuRows = 2
  MaxMenuWrites = 1
  MaxProductImages = 3
  MaxImages = 3
  MaxEdits = 2
  Chosen = Chosen
  Sizes = {small, large}
  MaxReplacements = 3
SPECIFICATION CatalogSpec
SYMMETRY CatalogSymmetry
CHECK_DEADLOCK FALSE
INVARIANTS
  ReplacementCorrect
PROPERTIES
  MenuCorrect
  GalleryCorrect
