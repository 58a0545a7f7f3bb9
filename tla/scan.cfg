CONSTANTS
    Files <- TheFiles
    Streams <- TheStreams
    Signature <- TheSignature
    EOCDSize = 4
    LocatorSize = 2
    MaxComment = 8
    Word = 10
    BlockSize = 5
    BufferSize = 5
    Reads = {1, 2, 4, 7}
SPECIFICATION FairSpec
INVARIANTS FindsLastRecord StopsAtSignature
PROPERTY SearchEnds
CHECK_DEADLOCK FALSE
