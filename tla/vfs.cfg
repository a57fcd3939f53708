SPECIFICATION Spec
CONSTANTS
  Names = {x, y}
  CF_0 = cf
  NULL = null
  MaxDirs = 1
  MAX_OPEN = 1
  MaxHeld = 1
INVARIANT RefExact
INVARIANT Mirrors
INVARIANT NothingDangles
PROPERTY CardShown
