CONSTANT Worlds <- WorldsDef
SPECIFICATION Spec
CHECK_DEADLOCK FALSE
INVARIANTS LintInv NearestConfigDecides CountsAgree
