SPECIFICATION PresetsSpec
CONSTANTS
  Caller = {c1, c2}
  MaxName = 2
  Position = {1, 2}
  MaxPresets = 1
SYMMETRY Symmetry
INVARIANTS NamesUnique
PROPERTIES ImplementsPresetBook
