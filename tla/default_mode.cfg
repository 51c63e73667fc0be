SPECIFICATION DecisionSpec
INVARIANTS DefaultModePrompts
CHECK_DEADLOCK FALSE
