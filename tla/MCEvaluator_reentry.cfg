CONSTANT Programs <- WindsTwice
SPECIFICATION Spec
INVARIANTS LetKeepsResult
