SPECIFICATION Spec
CONSTANTS
    Proc <- MCProc
    Layers <- MCLayers
PROPERTIES
    ExistingIsNotOverwritten
CHECK_DEADLOCK FALSE
