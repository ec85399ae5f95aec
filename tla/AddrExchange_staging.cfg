CONSTANT WrIds = {0}
SPECIFICATION Spec
INVARIANT ClassStagedWhenKnown
CHECK_DEADLOCK FALSE
