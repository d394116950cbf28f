\* Is every item that is reported as duplicated one that was seen before?
SPECIFICATION Spec
CONSTANTS
  Roots <- MCRoots
  Nodes <- MCNodes
  Space <- MCSpace
  Unreadable = Unreadable
INVARIANTS DuplicatesWereSeen
