SPECIFICATION Spec
CONSTANTS
  numBlocks_ = 3
  Sizes = {3, 8, 10, 30}
  WordValues = 64
INVARIANTS BitmapIsExact FirstFitMissesNothing LastUsedCovers
