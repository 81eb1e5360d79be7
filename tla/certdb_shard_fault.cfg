\* One failed or ignored call after the issuer DN insert leaves the shard bookkeeping incomplete for good.
CONSTANTS
    Workers = {w1, w2}
    Entries = {eFinal, ePre, eOther, eLater}
    eFinal = eFinal
    ePre = ePre
    eOther = eOther
    eLater = eLater
    d1 = d1
    d2 = d2
    i1 = i1
    s1 = s1
    s2 = s2
    s3 = s3
    n1 = n1
    u1 = u1
    u2 = u2
    CertOf <- MCCertOf
    ExpDates = {d1, d2}
    Issuers = {i1}
    Serials = {s1, s2, s3}
    DNs = {n1}
    Urls = {u1, u2}
    NoEntry = NoEntry
    NoDoc = NoDoc
    MetadataPerIssuer = FALSE
    MaxFailures = 1
    MaxCrashes = 0
    MaxLostReplies = 0
SPECIFICATION Spec
INVARIANT ShardBookkeepingComplete
CHECK_DEADLOCK FALSE
