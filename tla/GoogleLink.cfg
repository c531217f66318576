SPECIFICATION Spec
CONSTANTS
  None = None
  LinkUsers <- MCUsers
  Emails = {"a", "b"}
  Workers = {w1, w2}
  Jobs = {1, 2}
  Menu <- MCMenu
  Linked <- MCLinked
  MaxFaults = 1
SYMMETRY ProcessesAlike
INVARIANTS
    NamedAccountOnly
    StaleTokensAreExcused
    CopyIsRemoved
    WorkLooksFirst
PROPERTIES
    CutIsFinal
CHECK_DEADLOCK FALSE
