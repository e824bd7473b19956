CONSTANTS
    Tids <- MCTids
    ValidCid <- MCValidCid
    OtherCid <- MCOtherCid
    HashBytes <- MCHashBytes
    Allowed <- MCAllowed
    MaxScrapeTorrents = 2
    MaxHashes = 3
    AnnounceInterval = 900
SPECIFICATION Spec
INVARIANTS
    TypeOK
    RequestDecodedAsEncoded
    AnnounceEventBytesAgree
    ResponseDecodedAsEncoded
    ReplyEchoesTransactionId
    ReplyOnlyWithValidConnectionId
