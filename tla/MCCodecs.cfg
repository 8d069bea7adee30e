SPECIFICATION Spec
CONSTANTS
    LineLength = 5
    ArgsLength = 6
    TomlLength = 3
    BodyLength = 7
    TextLength = 6
    ChunkSize = 8
    Bodies <- AllBodies
    Scripts <- AllTexts
    MaxKeys = 5
    Keys <- SomeKeys
INVARIANTS
    MessagesReadBack
    
    Base64Arrives
    KeysAreRead
CHECK_DEADLOCK FALSE
