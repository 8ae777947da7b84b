CONSTANTS
    Uploads = {u1, u2}
    RawNames <- MCRawNames
    Existing <- MCExisting
    Nobody = Nobody
    Ordinary <- MCOrdinary
    Separators <- MCSeparators
    Dropped <- MCDropped
    NotUtf8 <- MCNotUtf8
    Devices <- MCDevices
    Dot = Dot
    Space = Space
    Plus = Plus
    a = a
    nul = nul
    slash = slash
    quote = quote
    badByte = badByte
SPECIFICATION FairSpec
INVARIANTS TypeOK SavedUnderPlainName
PROPERTIES KeepsEarlierFiles UploadIsAnswered
CHECK_DEADLOCK FALSE
