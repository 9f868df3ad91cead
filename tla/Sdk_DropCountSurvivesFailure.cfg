SPECIFICATION Spec
CONSTANTS
    Capacity = 1
    MaxPayloads = 4
    MaxBackgrounds = 1
    MaxKills = 1
INVARIANTS
    DropCountSurvivesFailure
