---------------------------- MODULE CertDatabase ----------------------------
(***************************************************************************)
(* FilesystemDatabase.Store (src/unnamed/part_002, latest revision) run by *)
(* several ingest goroutines at once, over the Redis remote cache and the  *)
(* Firestore backend.  Every remote call of Store is one atomic step; any  *)
(* of them may return an error, the process may crash, and the reply to    *)
(* the deduplication ZADD may be lost and retried by the Redis client.     *)
(***************************************************************************)
EXTENDS Naturals, Sequences, FiniteSets

CONSTANTS
    Workers,            \* ingest goroutines calling Store
    Entries,            \* CT log entries handed to Store
    CertOf,             \* CertOf[e]: the parsed certificate of entry e
    ExpDates, Issuers, Serials, DNs, Urls,
    NoEntry, NoDoc,     \* sentinels (model values)
    MetadataPerIssuer,  \* TRUE: metadata keyed by issuer (part_002:247-264)
    MaxFailures,        \* bound on calls that return an error
    MaxCrashes,         \* bound on process crashes
    MaxLostReplies      \* bound on lost-and-retried dedup ZADD replies

Shards == ExpDates \X Issuers
DocIds == Shards \X Serials
MetaKeys == Shards \cup Issuers

DP == [url : Urls, scheme : {"http", "https", "ldap", "ldaps", "other"}]
Cert == [serial : Serials, expDate : ExpDates, issuer : Issuers,
         dn : DNs, crls : Seq(DP)]

ASSUME CertOf \in [Entries -> Cert]
ASSUME NoEntry \notin Entries /\ NoDoc \notin Cert

VARIABLES
    known,        \* Redis serials::<expDate>::<issuer> sorted sets
    issuerDNs,    \* Redis issuer::<id> sorted sets
    crls,         \* Redis crl::<id> sorted sets
    expiry,       \* shards whose serials key carries a TTL
    expDateDocs,  \* Firestore ct/<expDate> documents
    issuerDocs,   \* Firestore ct/<expDate>/issuer/<issuer> documents
    pem,          \* Firestore .../certs/<serial> documents: the stored cert
    collisions,   \* StoreCertificatePEM "collision" counter
    pending,      \* entries the follower has yet to deliver
    pc, cur, crlIdx, seen,
    failures, crashes, lostReplies,
    aborted       \* history: doc ids inserted by a Store that then errored

cacheVars   == <<known, issuerDNs, crls, expiry>>
backendVars == <<expDateDocs, issuerDocs, pem, collisions>>
workerVars  == <<pending, pc, cur, crlIdx, seen>>
faultVars   == <<failures, crashes, lostReplies, aborted>>
vars == <<cacheVars, backendVars, workerVars, faultVars>>

Steps == {"idle", "wasUnknown", "exists", "crl", "issuerDN",
          "allocExpDate", "allocIssuer", "setExpiry", "storePem"}
\* Steps at which the serial has already been inserted into the known set.
PastInsert == Steps \ {"idle", "wasUnknown"}

-----------------------------------------------------------------------------
(* Derived values of the certificate a worker is storing.                  *)

C(w) == CertOf[cur[w]]
ShardOf(c) == <<c.expDate, c.issuer>>
DocOf(c) == <<ShardOf(c), c.serial>>

\* IssuerMetadata.id(): "<expDate>::<issuer>" (per-shard revision).
MetaKeyShard(c) == ShardOf(c)
\* GetIssuerMetadata(aIssuer): the object is cached under aIssuer.ID() and
\* built without the expiry date.
MetaKeyIssuer(c) == c.issuer
MetaKey(c) == IF MetadataPerIssuer THEN MetaKeyIssuer(c) ELSE MetaKeyShard(c)

\* Mutant (legacy storage/issuermetadata.go:126-127): an ldap(s) DP ends the
\* whole loop with "return" instead of skipping to the next DP.
HttpCrlsStopAtLdap(c) ==
    LET ldap == {i \in 1..Len(c.crls) : c.crls[i].scheme \in {"ldap", "ldaps"}}
        stop == IF ldap = {} THEN Len(c.crls) + 1
                ELSE CHOOSE i \in ldap : \A j \in ldap : i <= j
    IN SelectSeq(SubSeq(c.crls, 1, stop - 1),
                 LAMBDA dp : dp.scheme \in {"http", "https"})

\* addCRL: ldap(s) and unknown schemes are skipped, http(s) URLs inserted.
IsHttp(dp) == dp.scheme \in {"http", "https"}
HttpCrls(c) == SelectSeq(c.crls, IsHttp)

-----------------------------------------------------------------------------
Init ==
    /\ known = [s \in Shards |-> {}]
    /\ issuerDNs = [k \in MetaKeys |-> {}]
    /\ crls = [k \in MetaKeys |-> {}]
    /\ expiry = {}
    /\ expDateDocs = {}
    /\ issuerDocs = {}
    /\ pem = [d \in DocIds |-> NoDoc]
    /\ collisions = 0
    /\ pending = Entries
    /\ pc = [w \in Workers |-> "idle"]
    /\ cur = [w \in Workers |-> NoEntry]
    /\ crlIdx = [w \in Workers |-> 0]
    /\ seen = [w \in Workers |-> FALSE]
    /\ failures = 0
    /\ crashes = 0
    /\ lostReplies = 0
    /\ aborted = {}

\* An ingest worker receives an entry and calls Store.
Receive(w, e) ==
    /\ pc[w] = "idle"
    /\ e \in pending
    /\ pending' = pending \ {e}
    /\ cur' = [cur EXCEPT ![w] = e]
    /\ pc' = [pc EXCEPT ![w] = "wasUnknown"]
    /\ UNCHANGED <<cacheVars, backendVars, crlIdx, seen, faultVars>>

\* Mutant: the worker goes back to idle still holding its entry.
ReturnKeepsEntry(w) ==
    /\ pc' = [pc EXCEPT ![w] = "idle"]
    /\ UNCHANGED cur

\* Store returns nil: the worker is free again.
Return(w) ==
    /\ pc' = [pc EXCEPT ![w] = "idle"]
    /\ cur' = [cur EXCEPT ![w] = NoEntry]

\* Mutant: test with SortedContains (ZSCORE) and never insert.
WasUnknownContainsOnly(w) ==
    LET c == C(w) IN
    /\ pc[w] = "wasUnknown"
    /\ IF c.serial \notin known[ShardOf(c)]
         THEN /\ pc' = [pc EXCEPT ![w] = "exists"]
              /\ UNCHANGED cur
         ELSE Return(w)
    /\ UNCHANGED <<cacheVars, backendVars, pending, crlIdx, seen, faultVars>>

\* Mutant: ZADD whose result is ignored ("return err == nil").
WasUnknownIgnoresResult(w) ==
    LET c == C(w) IN
    /\ pc[w] = "wasUnknown"
    /\ known' = [known EXCEPT ![ShardOf(c)] = @ \cup {c.serial}]
    /\ pc' = [pc EXCEPT ![w] = "exists"]
    /\ UNCHANGED <<issuerDNs, crls, expiry, backendVars, pending, cur, crlIdx,
                   seen, faultVars>>

\* knownCerts.WasUnknown(serial): one ZADD; if the serial was already there
\* Store only marks the date dirty (a no-op in Firestore) and returns nil.
WasUnknown(w) ==
    LET c == C(w) IN
    /\ pc[w] = "wasUnknown"
    /\ known' = [known EXCEPT ![ShardOf(c)] = @ \cup {c.serial}]
    /\ IF c.serial \notin known[ShardOf(c)]
         THEN /\ pc' = [pc EXCEPT ![w] = "exists"]
              /\ UNCHANGED cur
         ELSE Return(w)
    /\ UNCHANGED <<issuerDNs, crls, expiry, backendVars, pending, crlIdx,
                   seen, faultVars>>

\* The ZADD is applied but its reply is lost; go-redis (MaxRetries: 10)
\* re-sends it, and the retry reports 0 members added.
WasUnknownLostReply(w) ==
    LET c == C(w) IN
    /\ pc[w] = "wasUnknown"
    /\ lostReplies < MaxLostReplies
    /\ c.serial \notin known[ShardOf(c)]
    /\ known' = [known EXCEPT ![ShardOf(c)] = @ \cup {c.serial}]
    /\ lostReplies' = lostReplies + 1
    /\ Return(w)
    /\ UNCHANGED <<issuerDNs, crls, expiry, backendVars, pending, crlIdx,
                   seen, failures, crashes, aborted>>

\* Step of the CRL loop after position i of the http(s) DPs of c.
AfterCrl(i, c) == IF i < Len(HttpCrls(c)) THEN "crl" ELSE "issuerDN"

\* Accumulate, first call: seenBefore := Exists("issuer::" \o id()).
Exists(w) ==
    LET c == C(w) IN
    /\ pc[w] = "exists"
    /\ seen' = [seen EXCEPT ![w] = issuerDNs[MetaKey(c)] # {}]
    /\ crlIdx' = [crlIdx EXCEPT ![w] = 1]
    /\ pc' = [pc EXCEPT ![w] = AfterCrl(0, c)]
    /\ UNCHANGED <<cacheVars, backendVars, pending, cur, faultVars>>

\* Accumulate, loop over CRLDistributionPoints: addCRL does one ZADD per
\* http(s) URL and skips every other scheme.
AddCRL(w) ==
    LET c == C(w)
        i == crlIdx[w]
    IN
    /\ pc[w] = "crl"
    /\ crls' = [crls EXCEPT ![MetaKey(c)] = @ \cup {HttpCrls(c)[i].url}]
    /\ crlIdx' = [crlIdx EXCEPT ![w] = i + 1]
    /\ pc' = [pc EXCEPT ![w] = AfterCrl(i, c)]
    /\ UNCHANGED <<known, issuerDNs, expiry, backendVars, pending, cur, seen,
                   faultVars>>

\* Mutant: StoreCertificatePEM placed inside the "if !issuerSeenBefore"
\* block, so a Store that sees the issuer returns without writing.
AddIssuerDNPemInsideBlock(w) ==
    LET c == C(w) IN
    /\ pc[w] = "issuerDN"
    /\ issuerDNs' = [issuerDNs EXCEPT ![MetaKey(c)] = @ \cup {c.dn}]
    /\ IF seen[w] THEN Return(w)
                  ELSE /\ pc' = [pc EXCEPT ![w] = "allocExpDate"]
                       /\ UNCHANGED cur
    /\ UNCHANGED <<known, crls, expiry, backendVars, pending, crlIdx,
                   seen, faultVars>>

\* Accumulate, last call: addIssuerDN (ZADD).  Store then allocates the shard
\* only if the issuer key did not exist at the Exists call.
AddIssuerDN(w) ==
    LET c == C(w) IN
    /\ pc[w] = "issuerDN"
    /\ issuerDNs' = [issuerDNs EXCEPT ![MetaKey(c)] = @ \cup {c.dn}]
    /\ pc' = [pc EXCEPT ![w] = IF seen[w] THEN "storePem" ELSE "allocExpDate"]
    /\ UNCHANGED <<known, crls, expiry, backendVars, pending, cur, crlIdx,
                   seen, faultVars>>

\* AllocateExpDateAndIssuer, first Set: ct/<expDate>.
AllocateExpDate(w) ==
    /\ pc[w] = "allocExpDate"
    /\ expDateDocs' = expDateDocs \cup {C(w).expDate}
    /\ pc' = [pc EXCEPT ![w] = "allocIssuer"]
    /\ UNCHANGED <<cacheVars, issuerDocs, pem, collisions, pending, cur,
                   crlIdx, seen, faultVars>>

\* Mutant (the part_003:145-149 revision): no SetExpiryFlag after the
\* allocation.
AllocateIssuerExpDateNoExpiry(w) ==
    /\ pc[w] = "allocIssuer"
    /\ issuerDocs' = issuerDocs \cup {ShardOf(C(w))}
    /\ pc' = [pc EXCEPT ![w] = "storePem"]
    /\ UNCHANGED <<cacheVars, expDateDocs, pem, collisions, pending, cur,
                   crlIdx, seen, faultVars>>

\* AllocateExpDateAndIssuer, second Set: ct/<expDate>/issuer/<issuer>.
AllocateIssuerExpDate(w) ==
    /\ pc[w] = "allocIssuer"
    /\ issuerDocs' = issuerDocs \cup {ShardOf(C(w))}
    /\ pc' = [pc EXCEPT ![w] = "setExpiry"]
    /\ UNCHANGED <<cacheVars, expDateDocs, pem, collisions, pending, cur,
                   crlIdx, seen, faultVars>>

\* knownCerts.SetExpiryFlag(): EXPIREAT on the serials key.  Store ignores
\* its result, so a failed call falls through to the PEM write.
SetExpiryFlag(w) ==
    /\ pc[w] = "setExpiry"
    /\ \/ /\ expiry' = expiry \cup {ShardOf(C(w))}
          /\ UNCHANGED failures
       \/ /\ failures < MaxFailures
          /\ failures' = failures + 1
          /\ UNCHANGED expiry
    /\ pc' = [pc EXCEPT ![w] = "storePem"]
    /\ UNCHANGED <<known, issuerDNs, crls, backendVars, pending, cur, crlIdx,
                   seen, crashes, lostReplies, aborted>>

\* StoreCertificatePEM: Create; AlreadyExists bumps the collision counter and
\* returns nil.  Then markDirty (no-op) and Store returns nil.
StoreCertificatePEM(w) ==
    LET c == C(w) IN
    /\ pc[w] = "storePem"
    /\ IF pem[DocOf(c)] = NoDoc
         THEN /\ pem' = [pem EXCEPT ![DocOf(c)] = c]
              /\ UNCHANGED collisions
         ELSE /\ collisions' = collisions + 1
              /\ UNCHANGED pem
    /\ Return(w)
    /\ UNCHANGED <<cacheVars, expDateDocs, issuerDocs, pending, crlIdx, seen,
                   faultVars>>

\* Abandon worker set ws: their entries go back to the follower, which has
\* not checkpointed past them and delivers them again.
Abandon(ws) ==
    /\ pending' = pending \cup {cur[w] : w \in ws}
    /\ pc' = [w \in Workers |-> IF w \in ws THEN "idle" ELSE pc[w]]
    /\ cur' = [w \in Workers |-> IF w \in ws THEN NoEntry ELSE cur[w]]
    /\ aborted' = aborted \cup {DocOf(C(w)) : w \in {v \in ws : pc[v] \in PastInsert}}

\* The current remote call returns an error and Store returns it.
Fail(w) ==
    /\ pc[w] \in Steps \ {"idle", "setExpiry"}
    /\ failures < MaxFailures
    /\ failures' = failures + 1
    /\ Abandon({w})
    /\ UNCHANGED <<cacheVars, backendVars, crlIdx, seen, crashes, lostReplies>>

\* The process dies; Redis and Firestore keep what they have.
Crash ==
    /\ crashes < MaxCrashes
    /\ \E w \in Workers : pc[w] # "idle"
    /\ crashes' = crashes + 1
    /\ Abandon({w \in Workers : pc[w] # "idle"})
    /\ UNCHANGED <<cacheVars, backendVars, crlIdx, seen, failures, lostReplies>>

Next ==
    \/ \E w \in Workers :
          \/ \E e \in Entries : Receive(w, e)
          \/ WasUnknown(w)
          \/ WasUnknownLostReply(w)
          \/ Exists(w)
          \/ AddCRL(w)
          \/ AddIssuerDN(w)
          \/ AllocateExpDate(w)
          \/ AllocateIssuerExpDate(w)
          \/ SetExpiryFlag(w)
          \/ StoreCertificatePEM(w)
          \/ Fail(w)
    \/ Crash

Spec == Init /\ [][Next]_vars

Quiescent == pending = {} /\ \A w \in Workers : pc[w] = "idle"

-----------------------------------------------------------------------------
(* Properties                                                              *)

TypeOK ==
    /\ known \in [Shards -> SUBSET Serials]
    /\ issuerDNs \in [MetaKeys -> SUBSET DNs]
    /\ crls \in [MetaKeys -> SUBSET Urls]
    /\ expiry \subseteq Shards
    /\ expDateDocs \subseteq ExpDates
    /\ issuerDocs \subseteq Shards
    /\ pem \in [DocIds -> Cert \cup {NoDoc}]
    /\ collisions \in Nat
    /\ pending \subseteq Entries
    /\ pc \in [Workers -> Steps]
    /\ cur \in [Workers -> Entries \cup {NoEntry}]
    /\ \A w \in Workers : (pc[w] = "idle") <=> (cur[w] = NoEntry)
    /\ crlIdx \in [Workers -> Nat]
    /\ seen \in [Workers -> BOOLEAN]
    /\ aborted \subseteq DocIds

(* I1: a serial whose PEM is in Firestore is in the shard's known set      *)
(* (Store inserts into the known set before it writes the PEM).            *)
PemImpliesKnown ==
    \A d \in DocIds : pem[d] # NoDoc => d[2] \in known[d[1]]

(* The atomic ZADD of WasUnknown lets exactly one of the Stores racing on   *)
(* one serial write its PEM: StoreCertificatePEM never meets an existing    *)
(* document.                                                               *)
NoPemCollision == collisions = 0

(* Every stored certificate had its issuer DN and all of its http(s) CRL    *)
(* distribution points accumulated into the metadata, whatever ldap or     *)
(* unknown-scheme DPs came before them (Accumulate runs before the PEM).    *)
MetadataCoversStored ==
    \A d \in DocIds :
        pem[d] # NoDoc =>
            /\ pem[d].dn \in issuerDNs[MetaKey(pem[d])]
            /\ LET dps == pem[d].crls
                   web == {i \in DOMAIN dps : dps[i].scheme \in {"http", "https"}}
               IN {dps[i].url : i \in web} \subseteq crls[MetaKey(pem[d])]

(* I4: once no Store is in flight, every shard that has a PEM is          *)
(* allocated: both of its directory documents exist, so ListExpirationDates *)
(* and ListIssuersForExpirationDate enumerate it.  Store allocates only     *)
(* when the issuer key did not exist at its Exists call.                    *)
ShardsAllocated ==
    Quiescent =>
        \A d \in DocIds :
            pem[d] # NoDoc => d[1][1] \in expDateDocs /\ d[1] \in issuerDocs

(* Spec section 4.3: the serials key of every shard carries a TTL, so that *)
(* shards vanish from Redis (configured noeviction) after they expire.      *)
(* Once no Store is in flight, every non-empty serials key has one.         *)
SerialKeysExpire ==
    Quiescent => \A s \in Shards : known[s] # {} => s \in expiry

(* Spec I4 and section 4.3 together: once no Store is in flight, every      *)
(* shard's bookkeeping is complete. Both parts are done only by the Store   *)
(* that found the issuer key absent, so a fault there is never repaired.    *)
ShardBookkeepingComplete == ShardsAllocated /\ SerialKeysExpire

(* Spec section 4.5 accepts one loss: a serial marked known whose PEM is   *)
(* missing because its Store died between the ZADD and the PEM write.  No  *)
(* serial is known without a PEM for any other reason, unless a Store that *)
(* inserted it is still running.                                           *)
KnownWithoutPemOnlyAfterError ==
    \A d \in DocIds :
        (d[2] \in known[d[1]] /\ pem[d] = NoDoc) =>
            \/ d \in aborted
            \/ \E w \in Workers : pc[w] \in PastInsert /\ DocOf(C(w)) = d

(* Section 4.5's accounting holds across failed calls and crashes: until a *)
(* ZADD reply is lost and retried, a serial known without a PEM is always  *)
(* explained by a Store that errored or is still running.                  *)
LossExplainedWithoutLostReplies ==
    lostReplies = 0 => KnownWithoutPemOnlyAfterError
=============================================================================
