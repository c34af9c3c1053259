\* Every 16-bit argument.
CONSTANTS
    Bytes = 2
    BlockSizes = {2, 4, 512}
    Alignments = {1, 4, 16}
SPECIFICATION Spec
INVARIANTS ReservesEnough BlockFits
