CONSTANTS
  Fences = {f1}
  Groups = {g1}
  MaxCmds = 3
  MaxDeps = 1
SPECIFICATION Spec
INVARIANTS DependenciesFirst BlockedJustified Acyclic NoStall
PROPERTY AnswerStable
CHECK_DEADLOCK FALSE
