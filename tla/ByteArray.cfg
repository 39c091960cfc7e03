SPECIFICATION Spec
CONSTANTS
  BlockSize = 2
  Radix = 2
  Groups = 2
  Width = 2
  Wide = 3
  Unwritten = Unwritten
  MaxWrite = 2
  MaxBlocks = 2
INVARIANT BlockMatches
INVARIANT NoNullBlock
INVARIANT VarintsReturn
PROPERTY ImplementsByteSeq
