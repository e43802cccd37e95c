SPECIFICATION Spec
CONSTANTS
    Procs = {hub, cli}
    Latest = 8
    Steps <- MCSteps
    Alters <- MCAlters
INVARIANT
    AlterRunsOnce
