\* Two Stores over two shards with a one-entry cache: an eviction Closes an entry
\* that a Store has fetched and has not yet locked.
CONSTANTS
    Workers = {w1, w2}
    c1 = c1
    c2 = c2
    c3 = c3
    shA = shA
    shB = shB
    u1 = u1
    u2 = u2
    u3 = u3
    Certs = {c1, c2, c3}
    ShardOf <- MCShardOf
    UrlOf <- MCUrlOf
    CacheSize = 1
    MaxLoads = 4
    NoObj = NoObj
SPECIFICATION Spec
INVARIANT MetadataPersisted
CHECK_DEADLOCK FALSE
