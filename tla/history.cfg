\* Two shells that type five lines, one file renewed by trimming, and everything
\* that the model has.
CONSTANTS
  Shell = {a, b}
  Size = 3
  Radix = 256
  MarkEvery = 3
  ScanSize = 2
  TrimSize = 6
  Ops = {"empty", "edit", "overflow", "crash", "trim"}
  MaxCmd = 5
  MaxRaced = 3
  MaxInode = 3
SPECIFICATION Spec
INVARIANTS ReadInsideFile TypeOK NumbersAreRanks  
SYMMETRY Symmetry
CONSTRAINT FewRaced
