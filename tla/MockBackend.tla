---------------------------- MODULE MockBackend ----------------------------
(***************************************************************************)
(* The in-memory StorageBackend of storage/mockbackend.go. Maps stand for  *)
(* the Firestore documents: expDateToIssuer holds each date's issuers in a *)
(* slice kept sorted by ID, expDateIssuerIDToSerials each shard's serials  *)
(* in the order they were stored, and store the PEMs, log states and      *)
(* known-certificate lists. A missing map key is an empty slice here: the  *)
(* code writes a date's slice only after inserting an issuer into it.      *)
(* The mock never returns an error from a write; PEM bytes are abstracted. *)
(***************************************************************************)
EXTENDS Naturals, Sequences, SequencesExt

CONSTANTS Days, IssuerIds, SerialIds, Logs, Entries, Unset

ASSUME IssuerIds \subseteq Nat  \* the order of Nat stands for strings.Compare on IDs

VARIABLES
    expDateToIssuer,           \* [Days -> Seq(IssuerIds)]
    expDateIssuerIDToSerials,  \* [Days \X IssuerIds -> Seq(SerialIds)]
    pemStore,                  \* the "pem"+expDate+issuer+serial keys of store
    logStore,                  \* the "logstate"+URL entries of store: a MaxEntry or Unset
    knownLists,                \* the issuer.ID() entries of store
    mockCall                   \* the last call handled and its error result

mockVars == <<expDateToIssuer, expDateIssuerIDToSerials, pemStore, logStore,
              knownLists, mockCall>>

Call(name, args, err) == [name |-> name, args |-> args, err |-> err]

Init ==
    /\ expDateToIssuer = [d \in Days |-> <<>>]
    /\ expDateIssuerIDToSerials = [sh \in Days \X IssuerIds |-> <<>>]
    /\ pemStore = {}
    /\ logStore = [l \in Logs |-> Unset]
    /\ knownLists = [i \in IssuerIds |-> Unset]
    /\ mockCall = Call("none", <<>>, FALSE)

(* Mutant: the search predicate is > instead of >=.                        *)
InsertionPointStrict(s, x) ==
    LET RECURSIVE Bisect(_, _)
        Bisect(lo, hi) ==
            IF lo >= hi THEN lo
            ELSE LET h == (lo + hi) \div 2
                 IN  IF s[h + 1] > x THEN Bisect(lo, h) ELSE Bisect(h + 1, hi)
    IN  Bisect(0, Len(s))

(* sort.Search(len(s), func(i) bool { return s[i] >= x }), by bisection.   *)
InsertionPoint(s, x) ==
    LET RECURSIVE Bisect(_, _)
        Bisect(lo, hi) ==
            IF lo >= hi THEN lo
            ELSE LET h == (lo + hi) \div 2
                 IN  IF s[h + 1] >= x THEN Bisect(lo, h) ELSE Bisect(h + 1, hi)
    IN  Bisect(0, Len(s))

(* Find the issuer's place; "already noted" if it is there, else shift the *)
(* tail right, put the issuer at the place, and store the slice.           *)
AllocateExpDateAndIssuer(d, i) ==
    /\ LET issuers == expDateToIssuer[d]
           idx == InsertionPoint(issuers, i)
       IN  IF idx < Len(issuers) /\ issuers[idx + 1] = i
           THEN UNCHANGED expDateToIssuer
           ELSE expDateToIssuer' = [expDateToIssuer EXCEPT ![d] = InsertAt(issuers, idx + 1, i)]
    /\ mockCall' = Call("AllocateExpDateAndIssuer", <<d, i>>, FALSE)
    /\ UNCHANGED <<expDateIssuerIDToSerials, pemStore, logStore, knownLists>>

(* Mutant: a shard with no slice yet returns early, as if `if !ok` ended   *)
(* the call instead of starting an empty slice.                            *)
StoreSkipsNewShard(d, i, s) ==
    /\ IF expDateIssuerIDToSerials[<<d, i>>] = <<>>
       THEN UNCHANGED <<pemStore, expDateIssuerIDToSerials>>
       ELSE /\ pemStore' = pemStore \cup {<<d, i, s>>}
            /\ expDateIssuerIDToSerials' = [expDateIssuerIDToSerials EXCEPT ![<<d, i>>] = Append(@, s)]
    /\ mockCall' = Call("StoreCertificatePEM", <<d, i, s>>, FALSE)
    /\ UNCHANGED <<expDateToIssuer, logStore, knownLists>>

(* The PEM is put in store and the serial appended to the shard's slice,  *)
(* whether or not it was stored before.                                    *)
StoreCertificatePEM(d, i, s) ==
    /\ pemStore' = pemStore \cup {<<d, i, s>>}
    /\ expDateIssuerIDToSerials' = [expDateIssuerIDToSerials EXCEPT ![<<d, i>>] = Append(@, s)]
    /\ mockCall' = Call("StoreCertificatePEM", <<d, i, s>>, FALSE)
    /\ UNCHANGED <<expDateToIssuer, logStore, knownLists>>

(* json.Marshal of a CertificateLog cannot fail; the entry is replaced.    *)
StoreLogState(l, n) ==
    /\ logStore' = [logStore EXCEPT ![l] = n]
    /\ mockCall' = Call("StoreLogState", <<l, n>>, FALSE)
    /\ UNCHANGED <<expDateToIssuer, expDateIssuerIDToSerials, pemStore, knownLists>>

StoreKnownCertificateList(i, ss) ==
    /\ knownLists' = [knownLists EXCEPT ![i] = ss]
    /\ mockCall' = Call("StoreKnownCertificateList", <<i, ss>>, FALSE)
    /\ UNCHANGED <<expDateToIssuer, expDateIssuerIDToSerials, pemStore, logStore>>

Next ==
    \/ \E d \in Days, i \in IssuerIds :
         \/ AllocateExpDateAndIssuer(d, i)
         \/ \E s \in SerialIds : StoreCertificatePEM(d, i, s)
         \/ \E ss \in SUBSET SerialIds : StoreKnownCertificateList(i, ss)
    \/ \E l \in Logs, n \in Entries : StoreLogState(l, n)

Spec == Init /\ [][Next]_mockVars

-----------------------------------------------------------------------------
(* The reads. ListExpirationDates ranges over the map's keys (in random   *)
(* order, so as a set) and keeps those not before notBefore; every key is  *)
(* a date the code formatted, so time.Parse does not fail.                 *)
ListExpirationDates(nb) == {d \in Days : expDateToIssuer[d] # <<>> /\ d >= nb}

ListIssuersForExpirationDate(d) == expDateToIssuer[d]

(* StreamSerialsForExpirationDateAndIssuer sends the same slice.           *)
ListSerialsForExpirationDateAndIssuer(d, i) == expDateIssuerIDToSerials[<<d, i>>]

LoadCertificatePEM(d, i, s) == <<d, i, s>> \in pemStore

LoadLogState(l) == IF logStore[l] = Unset THEN 0 ELSE logStore[l]

(* The abstract state this backend stands for.                             *)
Abs == INSTANCE StorageBackend WITH
         dates <- {d \in Days : expDateToIssuer[d] # <<>>},
         allocated <- {<<d, i>> \in Days \X IssuerIds : i \in Range(expDateToIssuer[d])},
         certs <- pemStore,
         checkpoint <- logStore,
         call <- mockCall
=============================================================================
