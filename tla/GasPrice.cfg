SPECIFICATION Spec
CONSTANTS
    Suggestion = {3,4,7,20,50}
    MaxBoosts = 8
PROPERTY RaisesEnough
CHECK_DEADLOCK FALSE
