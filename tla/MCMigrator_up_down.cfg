\* Two processes, any number of runs over three migrations, one statement fails.
CONSTANTS
    p1 = p1
    p2 = p2
    Runs = {p1, p2}
    Newest = 3
    Options <- SomeOptions
    MaxFaults = 1
SPECIFICATION Spec
SYMMETRY Processes
INVARIANTS
    InStep
PROPERTIES
    OptionsAreMet
