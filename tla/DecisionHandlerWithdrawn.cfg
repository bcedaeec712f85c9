SPECIFICATION Spec
CONSTANTS
    Boxes = {"merge"}
    Labels = {"decline", "hold"}
    Commands = {"comment"}
    WorkflowRevs = {1}
    MaxEvents = 2
    MaxActs = 3
    MaxTrouble = 1
PROPERTIES WithdrawnLabelIsInert
CHECK_DEADLOCK FALSE
