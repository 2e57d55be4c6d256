\* No item, one, the most that fit, one too many, and as many as a byte cannot
\* count; one buffer of each kind of item.
CONSTANTS
  Lengths = {0, 1, 63, 64, 256}
  Odd = {"alpha", "size", "target_position"}
SPECIFICATION Spec
INVARIANTS TypeOK LayoutAsCommented DetailsWhole
\* The request ends with its answer.
CHECK_DEADLOCK FALSE
