CONSTANTS
    Projects <- GraphProjects
    Dir <- Directories
SPECIFICATION Spec
CHECK_DEADLOCK FALSE
INVARIANT
    HardDependenciesStay
