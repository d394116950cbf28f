\* Every command on an image, from its arguments to its last line.
SPECIFICATION Spec
CONSTANTS
  Chars         = {" ", "1", "2"}
  MaxLen        = 5
  Cuts          = {1, 4}
  SectionImages <- MCSectionImages
  SumBits       = 5
  ImportImages  <- MCImportImages
  Targets       <- MCTargets
  Lower         <- MCLower
  Flag          <- MCFlag
  ExportImages  <- MCExportImages
  UnwindImages  <- MCUnwindImages
  Pcs           <- MCPcs
  CHandlers     <- MCCHandlers
  Unnamed       <- MCUnnamed
  VersionImages <- MCVersionImages
  RT_VERSION    = 16
  MaxDepth      = 4
  GuardImages   <- MCGuardImages
  SizeBits      = 5
INVARIANTS
  TypeOK WordsOfArgs LoadedIsTheImage SectionHoldsDirectory ImportsAreListed ExportsAreListed
  FunctionsAreListed HandlersAreFound VersionOfTheImage RowsOfTheTable
PROPERTIES CommandReturns
CHECK_DEADLOCK FALSE
