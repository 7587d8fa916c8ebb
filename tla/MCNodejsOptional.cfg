\* Configuring a project on a machine without Node.js.
CONSTANTS
    BuildTypes <- MCBuildTypes
    Places = 1
    MaxEdition = 1
    MaxFaults = 0

SPECIFICATION Spec

INVARIANTS
    NodejsOptional
