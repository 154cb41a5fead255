CONSTANT Files <- FilesDef
CONSTANT Tokens <- TokensDef
CONSTANT Headers <- HeadersDef
CONSTANT NormalTrigger = 1
CONSTANT TestTrigger = 2
SPECIFICATION Spec
CHECK_DEADLOCK FALSE
INVARIANTS CodeKept StackOfActiveLines IncludesKnown NolintHonoured LintFileInv
