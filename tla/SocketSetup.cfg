SPECIFICATION Spec
CONSTANTS
    Instances = {a, b, c}
    NoFile = NoFile
    PlainFile = PlainFile
    StaleSocket = StaleSocket
INVARIANTS SomeoneStarts RestartSucceeds
PROPERTIES PlainFilesKept
CHECK_DEADLOCK FALSE
