SPECIFICATION Spec
CONSTANTS
  Scenes = {"writes", "sold", "commands", "trial", "return", "bought", "echo", "mixed", "relay", "torn", "desk", "batch",
            "services", "talk", "onboarding", "welcome", "retesting"}
  Outlive = FALSE
  Rescoped = FALSE
  ann = ann
  bob = bob
  j1 = j1
  j2 = j2
  w1 = w1
  w2 = w2
SYMMETRY TwoOfAKind
INVARIANTS ActsWhereMeant NoWriteOverDoubt ReturnedClean ApprovalsHaveLineage ReadOnce PostsAsApproved WalletAgrees ReviewIsFinal
PROPERTIES KeepsPromise
CHECK_DEADLOCK FALSE
