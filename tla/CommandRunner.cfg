\* A client from its construction to its destruction, with calls in any order.
SPECIFICATION Spec
CONSTANT MaxCalls = 6
INVARIANTS TypeOK ReferencesBalance CapturedIsOwn PrintfIsShown
CHECK_DEADLOCK FALSE
