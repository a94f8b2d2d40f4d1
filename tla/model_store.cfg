SPECIFICATION FairSpec
CONSTANTS
    Version <- MCVersion
    Size <- MCSize
    NoFile = NoFile
INVARIANTS TypeOK InstalledIsWhole
PROPERTIES ProgressIsKept ModelArrives
