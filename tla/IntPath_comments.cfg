\* Vectors of up to three words of five bits: a path of four bits fills one.
SPECIFICATION Spec
CONSTANTS
  W = 5
  MaxPaths = 3
INVARIANT OneCommentRight
CHECK_DEADLOCK FALSE
