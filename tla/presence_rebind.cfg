SPECIFICATION Spec
CONSTANTS
  Client = {"ann", "bob"}
INVARIANT BoundSeeEachOther
