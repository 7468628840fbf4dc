SPECIFICATION Spec
CONSTANTS
    Tools <- MCTools
    ToolsetIDs <- MCToolsetIDs
    MaxToolsets = 2
INVARIANTS
    TypeOK
    FiltersAreFinal
    InstructionsHaveTools
PROPERTIES
    OptInsOnlyAdd
