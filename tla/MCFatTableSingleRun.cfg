CONSTANTS
    ClusterCount = 6
    EntriesPerSector = 4
SPECIFICATION Spec
PROPERTY SingleRunIfOneExists
