\* HDLDB's receiver over a connection that splits packets anywhere.
SPECIFICATION Spec
CONSTANTS
    Length <- Lengths
    Size = 32
PROPERTIES ImplementsStream
CHECK_DEADLOCK FALSE
