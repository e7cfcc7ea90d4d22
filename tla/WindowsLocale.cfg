CONSTANTS
  de = de
  fr = fr
  us = us
  Layouts <- ThreeLayouts
  FarAccents = FALSE
  MaxChanges = 2
SPECIFICATION LocaleSpec
INVARIANT CacheIsSound
PROPERTIES TypedInFocus DeadComposesOnce
CHECK_DEADLOCK FALSE
