CONSTANTS
  Conns = {c1, c2}
  NumSlots = 2
  NumData = 1
  MaxUploads = 2
  Pieces = 2
  FwSize = 1
SPECIFICATION Spec
INVARIANT TypeOK
INVARIANT SuccessIsWhole
INVARIANT Bootable
PROPERTY BootOnSuccess
CHECK_DEADLOCK FALSE
SYMMETRY Symmetry
