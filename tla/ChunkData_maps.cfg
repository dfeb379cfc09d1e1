CONSTANTS
    NumSlices = 2
    NumRows = 1
    Width = 3
    MaxEntries = 1
    MapSize = 3
    NumTypes = 2
    NumGenerated = 2
    MaxUnsaved = 1
SPECIFICATION Spec
INVARIANT MapsInv
