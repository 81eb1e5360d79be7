--------------------------- MODULE StorageBackend ---------------------------
(***************************************************************************)
(* What a StorageBackend (storage/types.go 83-100, spec section 4.2)       *)
(* promises, as an abstract specification. Its state is what a caller can  *)
(* observe through the interface's reads: the directory markers, the PEM   *)
(* documents and the log checkpoints. `call` records the last call and     *)
(* whether it returned an error, so that an implementation step that       *)
(* handles a call must be a step of this specification.                    *)
(*                                                                         *)
(* Remote calls can fail. A failed write may still have been applied (a   *)
(* deadline that expires after the commit), so a failed call leaves any    *)
(* prefix of its writes behind, in the order the interface performs them.  *)
(***************************************************************************)
EXTENDS Naturals

CONSTANTS
    Days,       \* expiration dates, as day numbers (kExpirationFormat is by day)
    IssuerIds,  \* issuer IDs
    SerialIds,  \* serial IDs
    Logs,       \* CT log short URLs
    Entries,    \* checkpoint values (MaxEntry) a caller stores
    Unset       \* no checkpoint document for the log

Shards == Days \X IssuerIds
DocIds == Days \X IssuerIds \X SerialIds

VARIABLES
    dates,       \* the <expDate> markers
    allocated,   \* the <expDate>/<issuer> markers
    certs,       \* the PEM documents, by (expDate, issuer, serial)
    checkpoint,  \* checkpoint[l]: the stored MaxEntry of log l, or Unset
    call         \* the last call handled and its error result

vars == <<dates, allocated, certs, checkpoint, call>>

Call(name, args, err) == [name |-> name, args |-> args, err |-> err]

Init ==
    /\ dates = {}
    /\ allocated = {}
    /\ certs = {}
    /\ checkpoint = [l \in Logs |-> Unset]
    /\ call = Call("none", <<>>, FALSE)

(* Idempotent upsert of <expDate>, then of <expDate>/<issuer>. A failure  *)
(* leaves nothing, the first marker, or both.                              *)
AllocateExpDateAndIssuer(d, i) ==
    /\ \/ /\ dates' = dates \cup {d}
          /\ allocated' = allocated \cup {<<d, i>>}
          /\ call' = Call("AllocateExpDateAndIssuer", <<d, i>>, FALSE)
       \/ /\ \/ UNCHANGED <<dates, allocated>>
             \/ dates' = dates \cup {d} /\ UNCHANGED allocated
             \/ dates' = dates \cup {d} /\ allocated' = allocated \cup {<<d, i>>}
          /\ call' = Call("AllocateExpDateAndIssuer", <<d, i>>, TRUE)
    /\ UNCHANGED <<certs, checkpoint>>

(* Idempotent create: a duplicate write succeeds and changes nothing. A   *)
(* failure may or may not have created the document.                       *)
StoreCertificatePEM(d, i, s) ==
    /\ \/ /\ certs' = certs \cup {<<d, i, s>>}
          /\ call' = Call("StoreCertificatePEM", <<d, i, s>>, FALSE)
       \/ /\ certs' \in {certs, certs \cup {<<d, i, s>>}}
          /\ call' = Call("StoreCertificatePEM", <<d, i, s>>, TRUE)
    /\ UNCHANGED <<dates, allocated, checkpoint>>

(* Upsert of the checkpoint document.                                      *)
StoreLogState(l, n) ==
    /\ \/ /\ checkpoint' = [checkpoint EXCEPT ![l] = n]
          /\ call' = Call("StoreLogState", <<l, n>>, FALSE)
       \/ /\ checkpoint' \in {checkpoint, [checkpoint EXCEPT ![l] = n]}
          /\ call' = Call("StoreLogState", <<l, n>>, TRUE)
    /\ UNCHANGED <<dates, allocated, certs>>

(* A write outside section 4.2 that no read of the interface observes.    *)
StoreKnownCertificateList(i, ss) ==
    /\ call' \in {Call("StoreKnownCertificateList", <<i, ss>>, e) : e \in BOOLEAN}
    /\ UNCHANGED <<dates, allocated, certs, checkpoint>>

Next ==
    \/ \E d \in Days, i \in IssuerIds :
         \/ AllocateExpDateAndIssuer(d, i)
         \/ \E s \in SerialIds : StoreCertificatePEM(d, i, s)
         \/ \E ss \in SUBSET SerialIds : StoreKnownCertificateList(i, ss)
    \/ \E l \in Logs, n \in Entries : StoreLogState(l, n)

Spec == Init /\ [][Next]_vars

-----------------------------------------------------------------------------
(* The answers of the interface's reads.                                   *)

ListExpirationDates(nb) == {d \in dates : d >= nb}

ListIssuersForExpirationDate(d) == {i \in IssuerIds : <<d, i>> \in allocated}

ListSerialsForExpirationDateAndIssuer(d, i) == {s \in SerialIds : <<d, i, s>> \in certs}

LoadCertificatePEM(d, i, s) == <<d, i, s>> \in certs

(* A log with no checkpoint reads as a zero-valued CertificateLog.        *)
LoadLogState(l) == IF checkpoint[l] = Unset THEN 0 ELSE checkpoint[l]
=============================================================================
