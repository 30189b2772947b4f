CONSTANTS
  Colours = {0, 1, 109, 128, 254, 255}
  Brightnesses = {0, 80, 192, 193, 255}
SPECIFICATION Spec
INVARIANT FullRange
