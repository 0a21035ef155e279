CONSTANTS
    Byte = 4
    HeaderSize = 128
    InitialSize = 200
    BlockSize = 2
    Input <- MCInput
    Cuts <- MCCuts
    MaxBuilds = 2
    NoFile = NoFile
SPECIFICATION Spec
INVARIANT BuildTrueMeansWritten
