SPECIFICATION Spec
CONSTANTS
  Scenes <- MCScenes
INVARIANTS ReadIntact EofComplete ErrorExplained  LintSound FakesConserved
