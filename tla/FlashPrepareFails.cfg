SPECIFICATION FairSpec
CONSTANTS
    NFlash = 2
    start <- MCStart
    length <- MCLength
    blocksize <- MCBlocksize
    writesize <- MCWritesize
    BufCeiling = 2
    NoAddr = 7
    Data = {1, 2}
    Erased = Erased
    Junk = Junk
    NoByte = NoByte
    Payloads <- MCPayloads
    MaxLen = 4
    EraseArgs <- MCEraseArgs
    WriteArgs <- MCWriteArgs
    Faults = {"prepare"}
    EraseAnytime = FALSE
INVARIANTS BufferInWindow
