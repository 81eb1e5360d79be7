-------------------------- MODULE FirestoreBackend --------------------------
(***************************************************************************)
(* The Firestore StorageBackend of storage/firestorebackend.go, as the     *)
(* documents it writes: ct/<expDate> markers, ct/<expDate>/issuer/<issuer> *)
(* markers, ct/<expDate>/issuer/<issuer>/certs/<serial> PEMs and           *)
(* logs/<id> checkpoints. Each Set or Create is one remote call that may   *)
(* fail; a failed call may still have been committed (a deadline that      *)
(* expires after the commit). client.Doc returns nil only for a path with  *)
(* an odd number of segments, which these paths never have.               *)
(***************************************************************************)
EXTENDS Naturals

CONSTANTS Days, IssuerIds, SerialIds, Logs, Entries, Unset,
          MaxErrors  \* bound on failed remote calls

VARIABLES
    expDateDocs,  \* ct/<expDate> documents
    issuerDocs,   \* ct/<expDate>/issuer/<issuer> documents
    certDocs,     \* ct/<expDate>/issuer/<issuer>/certs/<serial> documents
    logDocs,      \* logs/<id>: the stored MaxEntry, or Unset (NotFound)
    collisions,   \* the StoreCertificatePEM/collision metric
    fsErrors,     \* failed remote calls so far
    fsCall        \* the last call handled and its error result

fsVars == <<expDateDocs, issuerDocs, certDocs, logDocs, collisions, fsErrors, fsCall>>

Call(name, args, err) == [name |-> name, args |-> args, err |-> err]

(* The possible contents of a collection after a failed write of doc.     *)
FailedWrite(docs, doc) == {docs, docs \cup {doc}}

Init ==
    /\ expDateDocs = {}
    /\ issuerDocs = {}
    /\ certDocs = {}
    /\ logDocs = [l \in Logs |-> Unset]
    /\ collisions = 0
    /\ fsErrors = 0
    /\ fsCall = Call("none", <<>>, FALSE)

(* Mutant: the issuer marker is written before the date marker.           *)
AllocateIssuerFirst(d, i) ==
    /\ \/ /\ expDateDocs' = expDateDocs \cup {d}
          /\ issuerDocs' = issuerDocs \cup {<<d, i>>}
          /\ fsCall' = Call("AllocateExpDateAndIssuer", <<d, i>>, FALSE)
          /\ UNCHANGED fsErrors
       \/ /\ fsErrors < MaxErrors /\ fsErrors' = fsErrors + 1
          /\ issuerDocs' \in FailedWrite(issuerDocs, <<d, i>>)
          /\ UNCHANGED expDateDocs
          /\ fsCall' = Call("AllocateExpDateAndIssuer", <<d, i>>, TRUE)
    /\ UNCHANGED <<certDocs, logDocs, collisions>>

(* allocateExpDate (a Set of ct/<expDate>), returning its error; then      *)
(* allocateIssuerExpDate (a Set of ct/<expDate>/issuer/<issuer>).          *)
AllocateExpDateAndIssuer(d, i) ==
    /\ \/ /\ expDateDocs' = expDateDocs \cup {d}
          /\ issuerDocs' = issuerDocs \cup {<<d, i>>}
          /\ fsCall' = Call("AllocateExpDateAndIssuer", <<d, i>>, FALSE)
          /\ UNCHANGED fsErrors
       \/ /\ fsErrors < MaxErrors /\ fsErrors' = fsErrors + 1
          /\ \/ /\ expDateDocs' \in FailedWrite(expDateDocs, d)
                /\ UNCHANGED issuerDocs
             \/ /\ expDateDocs' = expDateDocs \cup {d}
                /\ issuerDocs' \in FailedWrite(issuerDocs, <<d, i>>)
          /\ fsCall' = Call("AllocateExpDateAndIssuer", <<d, i>>, TRUE)
    /\ UNCHANGED <<certDocs, logDocs, collisions>>

(* doc.Create. AlreadyExists counts a collision and returns nil.           *)
StoreCertificatePEM(d, i, s) ==
    /\ \/ /\ <<d, i, s>> \notin certDocs
          /\ certDocs' = certDocs \cup {<<d, i, s>>}
          /\ fsCall' = Call("StoreCertificatePEM", <<d, i, s>>, FALSE)
          /\ UNCHANGED <<collisions, fsErrors>>
       \/ /\ <<d, i, s>> \in certDocs
          /\ collisions' = collisions + 1
          /\ fsCall' = Call("StoreCertificatePEM", <<d, i, s>>, FALSE)
          /\ UNCHANGED <<certDocs, fsErrors>>
       \/ /\ fsErrors < MaxErrors /\ fsErrors' = fsErrors + 1
          /\ certDocs' \in FailedWrite(certDocs, <<d, i, s>>)
          /\ fsCall' = Call("StoreCertificatePEM", <<d, i, s>>, TRUE)
          /\ UNCHANGED collisions
    /\ UNCHANGED <<expDateDocs, issuerDocs, logDocs>>

(* doc.Set of logs/<sha256(URL)>.                                          *)
StoreLogState(l, n) ==
    /\ \/ /\ logDocs' = [logDocs EXCEPT ![l] = n]
          /\ fsCall' = Call("StoreLogState", <<l, n>>, FALSE)
          /\ UNCHANGED fsErrors
       \/ /\ fsErrors < MaxErrors /\ fsErrors' = fsErrors + 1
          /\ logDocs' \in {logDocs, [logDocs EXCEPT ![l] = n]}
          /\ fsCall' = Call("StoreLogState", <<l, n>>, TRUE)
    /\ UNCHANGED <<expDateDocs, issuerDocs, certDocs, collisions>>

Next ==
    \/ \E d \in Days, i \in IssuerIds :
         \/ AllocateExpDateAndIssuer(d, i)
         \/ \E s \in SerialIds : StoreCertificatePEM(d, i, s)
    \/ \E l \in Logs, n \in Entries : StoreLogState(l, n)

Spec == Init /\ [][Next]_fsVars

-----------------------------------------------------------------------------
(* The reads, for a listing that runs to iterator.Done.                    *)

(* The query is Where(type == ExpDate) over the ct collection: aNotBefore *)
(* is never used.                                                          *)
ListExpirationDates(nb) == expDateDocs

ListIssuersForExpirationDate(d) == {i \in IssuerIds : <<d, i>> \in issuerDocs}

ListSerialsForExpirationDateAndIssuer(d, i) == {s \in SerialIds : <<d, i, s>> \in certDocs}

LoadCertificatePEM(d, i, s) == <<d, i, s>> \in certDocs

(* NotFound reads as a new log: a CertificateLog with only ShortURL set.   *)
LoadLogState(l) == IF logDocs[l] = Unset THEN 0 ELSE logDocs[l]

Abs == INSTANCE StorageBackend WITH
         dates <- expDateDocs,
         allocated <- issuerDocs,
         certs <- certDocs,
         checkpoint <- logDocs,
         call <- fsCall
=============================================================================
