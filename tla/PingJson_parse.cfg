SPECIFICATION Spec
CONSTANTS
    MaxPieces = 4
INVARIANTS
    
    ObjectsHaveLines
