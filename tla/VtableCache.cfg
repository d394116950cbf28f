\* Lookups of known and unknown vtables, with symbols exchanged between them.
SPECIFICATION Spec
CONSTANTS
  Builds   = {"old", "new"}
  Vtables  <- MCVtables
  SymbolIn <- MCSymbolIn
  Failed   = Failed
INVARIANTS TypesWereAnswered
