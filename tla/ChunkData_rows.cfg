CONSTANTS
    NumSlices = 2
    NumRows = 1
    Width = 4
    MaxEntries = 2
    MapSize = 2
    NumTypes = 1
    NumGenerated = 1
    MaxUnsaved = 1
SPECIFICATION Spec
INVARIANT RowsInv
PROPERTY ImplementsGrid
