CONSTANTS
  Word = 4096
  BufSize = 20
  Directives <- MCDirectives
SPECIFICATION Spec
INVARIANT
  PrecisionTaken
