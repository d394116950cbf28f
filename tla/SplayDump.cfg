\* All link graphs over four addresses with any of them unreadable, 32 and 64 bits.
SPECIFICATION Spec
CONSTANTS
  Roots <- MCRoots
  Nodes <- MCNodes
  Space <- MCSpace
  Unreadable = Unreadable
INVARIANTS TypeOK OncePerNode Complete BreadthFirst SpanningTree
PROPERTIES DumpEnds RefinesSearch
