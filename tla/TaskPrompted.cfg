\* The Shell Evaluator, each command right after the prompt.
SPECIFICATION Spec
CONSTANTS
    Clients = {"prompted"}
    MaxLaunches = 4
    Null = Null
CHECK_DEADLOCK FALSE
INVARIANT RunsItsCommand
