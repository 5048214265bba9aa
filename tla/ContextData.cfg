SPECIFICATION Spec
CONSTANTS
  NoBlocks = 5
  SizeBs = 2
  Ctx = 4
  Physical <- MCPhysical
  Guessing = {0, 3}
  Signature <- MCSignature
  RuleTables <- MCRuleTables
  KnowledgeBases <- MCKnowledgeBases
  Interface <- MCInterface
  Packs <- MCPacks
INVARIANTS
  TypeOK
  JoinExact
  GuessOfStep
  
  FreedOnce
CHECK_DEADLOCK FALSE
