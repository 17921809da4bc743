CONSTANTS
    Commands <- MCCommands
    MaxMessages = 1
    MaxAsked = 2
SPECIFICATION Spec

    
    
PROPERTY StopsWhenAsked
CHECK_DEADLOCK FALSE
