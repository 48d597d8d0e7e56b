SPECIFICATION Spec
CONSTANTS
  Levels = {100, 150}
  Scales = {"lowest", "middle"}
  WindowSize = 3
  MaxPatterns = 1
INVARIANTS
  SafetyInv
  AnswerHasMeaning
  LightOfThisPattern
CHECK_DEADLOCK FALSE
