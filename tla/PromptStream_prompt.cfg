\* A prompt whose candidate leaves and whose services die.
SPECIFICATION FairSpec
CONSTANTS
    p1 = p1
    Prompts = {p1}
    MaxDeltas = 3
    MaxFaults = 3
INVARIANTS ToldIsRecorded
PROPERTIES CallsRecorded PromptsAnswered
CHECK_DEADLOCK FALSE
