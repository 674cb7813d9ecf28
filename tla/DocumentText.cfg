SPECIFICATION MCSpec
CONSTANTS
  alpha = alpha  beta = beta  NoName = NoName
  Name = {alpha, beta}
  Texts <- MCTexts
  Blocks <- MCBlocks
  Contents <- MCContents
  Packs <- MCPacks
  Preambles <- MCPreambles
  MaxEdits = 1
  MaxPieces = 4
  MaxCut = 2
  MaxTail = 2
  MaxFile = 2
INVARIANTS SectionsAgree PackedComesBack
PROPERTIES KeepsPromise
CHECK_DEADLOCK FALSE
