SPECIFICATION Spec
CONSTANTS
  Blocks = {b1, b2}
  NULL = NULL
  Values = {1}
  Widths = {1}
  FirstDouble = 32
  MaxSize = 64
PROPERTIES
  EmptyDoublesToTwo
