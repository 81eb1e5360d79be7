\* Two ingest workers, one failed call, one crash, one lost ZADD reply: the safety contract of Store,
\* the loss accounting of section 4.5 before a lost reply, and the metadata of every stored PEM.
CONSTANTS
    Workers = {w1, w2}
    Entries = {eFinal, ePre, eOther, eLater}
    eFinal = eFinal
    ePre = ePre
    eOther = eOther
    eLater = eLater
    d1 = d1
    d2 = d2
    i1 = i1
    s1 = s1
    s2 = s2
    s3 = s3
    n1 = n1
    u1 = u1
    u2 = u2
    CertOf <- MCCertOf
    ExpDates = {d1, d2}
    Issuers = {i1}
    Serials = {s1, s2, s3}
    DNs = {n1}
    Urls = {u1, u2}
    NoEntry = NoEntry
    NoDoc = NoDoc
    MetadataPerIssuer = FALSE
    MaxFailures = 1
    MaxCrashes = 1
    MaxLostReplies = 1
SPECIFICATION Spec
INVARIANT TypeOK
INVARIANT PemImpliesKnown
INVARIANT NoPemCollision
INVARIANT MetadataCoversStored
INVARIANT LossExplainedWithoutLostReplies
CHECK_DEADLOCK FALSE
