CONSTANTS
    BufferBytes = 4
    Files <- SomeFiles
SPECIFICATION ParserSpec
INVARIANT SessionIsTheFile
PROPERTY CallsReturn
