------------------------------ MODULE Backends ------------------------------
(***************************************************************************)
(* The two StorageBackend implementations driven by one client: every call *)
(* is handled by the mock and by Firestore in the same step, so the two    *)
(* can be compared read for read. Each is checked against the abstract     *)
(* StorageBackend through its own refinement mapping.                      *)
(* StoreKnownCertificateList goes to the mock alone: the Firestore version *)
(* panics with "Not implemented", and nothing under src/ calls it.         *)
(***************************************************************************)
EXTENDS Naturals, Sequences, SequencesExt

CONSTANTS Days, IssuerIds, SerialIds, Logs, Entries, Unset,
          MaxErrors,  \* bound on failed Firestore calls
          MaxCalls    \* bound on client calls

VARIABLES
    expDateToIssuer, expDateIssuerIDToSerials, pemStore, logStore, knownLists, mockCall,
    expDateDocs, issuerDocs, certDocs, logDocs, collisions, fsErrors, fsCall,
    calls  \* client calls made so far

M == INSTANCE MockBackend
F == INSTANCE FirestoreBackend

fsVars == <<expDateDocs, issuerDocs, certDocs, logDocs, collisions, fsErrors, fsCall>>
vars == <<expDateToIssuer, expDateIssuerIDToSerials, pemStore, logStore, knownLists,
          mockCall, fsVars, calls>>

Init == M!Init /\ F!Init /\ calls = 0

(* One client call, handled by both backends.                              *)
ClientCall(MockStep, FsStep) ==
    /\ calls < MaxCalls
    /\ calls' = calls + 1
    /\ MockStep /\ FsStep

Next ==
    \/ \E d \in Days, i \in IssuerIds :
         \/ ClientCall(M!AllocateExpDateAndIssuer(d, i), F!AllocateExpDateAndIssuer(d, i))
         \/ \E s \in SerialIds :
              ClientCall(M!StoreCertificatePEM(d, i, s), F!StoreCertificatePEM(d, i, s))
         \/ \E ss \in SUBSET SerialIds :
              ClientCall(M!StoreKnownCertificateList(i, ss), UNCHANGED fsVars)
    \/ \E l \in Logs, n \in Entries :
         ClientCall(M!StoreLogState(l, n), F!StoreLogState(l, n))

Spec == Init /\ [][Next]_vars

-----------------------------------------------------------------------------
(* The mock implements the interface's contract: every call it handles is *)
(* a step of StorageBackend under its mapping (issuers = the slices'       *)
(* elements, PEMs = the "pem" keys of store).                              *)
MockRefinesBackend == M!Abs!Spec

(* Firestore implements the contract, failed and half-committed calls      *)
(* included: a failed AllocateExpDateAndIssuer never leaves an issuer      *)
(* marker without its date marker, and a repeated Create changes nothing.  *)
FirestoreRefinesBackend == F!Abs!Spec

(* The mock's listings agree with its loads over any sequence of calls:   *)
(* a date's issuers come back once each, in ID order, though a repeated    *)
(* allocation searches the slice again; and the serials listed for a shard *)
(* are exactly those whose PEM loads.                                      *)
MockListingsConsistent ==
    /\ \A d \in Days :
         LET issuers == M!ListIssuersForExpirationDate(d)
         IN  issuers = SetToSortSeq(Range(issuers), <)
    /\ \A d \in Days, i \in IssuerIds :
         Range(M!ListSerialsForExpirationDateAndIssuer(d, i))
             = {s \in SerialIds : M!LoadCertificatePEM(d, i, s)}
=============================================================================
