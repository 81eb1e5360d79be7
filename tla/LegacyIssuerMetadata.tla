------------------------ MODULE LegacyIssuerMetadata ------------------------
(***************************************************************************)
(* The file-backed IssuerMetadata of storage/issuermetadata.go: a sorted,  *)
(* duplicate-free list of CRL distribution-point URLs kept in memory under *)
(* a mutex and persisted as JSON. NewIssuerMetadata followed by Load opens *)
(* it, Accumulate adds the http(s) DPs of a certificate with addCRL's      *)
(* binary-search insert, and Save rewrites the file. Every method holds    *)
(* the mutex for its whole body, so each is one atomic step.               *)
(***************************************************************************)
EXTENDS Naturals, Sequences, FiniteSets, SequencesExt

CONSTANTS
    Urls,      \* CRL URLs; the order of Nat stands for strings.Compare
    Certs,     \* certificates handed to Accumulate
    DpsOf,     \* DpsOf[c]: c's CRLDistributionPoints, as <<scheme, url>> pairs
    MaxLen,    \* bound on the length of a list on disk at start
    Absent,    \* the metadata file does not exist
    Corrupt    \* the file exists but does not parse as JSON

Schemes == {"http", "https", "ldap", "ldaps", "file", "unparsable"}

ASSUME /\ Urls \subseteq Nat
       /\ \A c \in Certs : DpsOf[c] \in Seq(Schemes \X Urls)

VARIABLES
    crls,     \* im.metadata.Crls
    file,     \* the file's contents: a list of URLs, Absent or Corrupt
    opened,   \* NewIssuerMetadata and Load have run
    wanted    \* every http(s) URL of a certificate accumulated so far

vars == <<crls, file, opened, wanted>>

(* The lists Save can have written: strictly increasing.                   *)
SortedLists == {s \in BoundedSeq(Urls, MaxLen) : IsSorted(s, <)}

(* sort.Search(n, f): the least i in 0..n with f(i), found by bisection,  *)
(* for f monotone; n if there is none.                                     *)
Search(n, f(_)) ==
    LET RECURSIVE Bisect(_, _)
        Bisect(i, j) ==
            IF i >= j THEN i
            ELSE LET h == (i + j) \div 2
                 IN  IF ~f(h) THEN Bisect(h + 1, j) ELSE Bisect(i, h)
    IN  Bisect(0, n)

(* Mutant: the search predicate compares with < instead of <=.              *)
AddCRLStrictSearch(s, u) ==
    LET idx == Search(Len(s), LAMBDA i : u < s[i + 1])
    IN  IF idx < Len(s) /\ s[idx + 1] = u THEN s ELSE InsertAt(s, idx + 1, u)

(* addCRL: find the insertion point; return if the URL is there; else      *)
(* shift the tail right by one and put the URL at the point.               *)
AddCRL(s, u) ==
    LET idx == Search(Len(s), LAMBDA i : u <= s[i + 1])
    IN  IF idx < Len(s) /\ s[idx + 1] = u THEN s ELSE InsertAt(s, idx + 1, u)

(* Mutant: the DP is appended instead of going through addCRL.             *)
RECURSIVE AccumulateAppends(_, _)
AccumulateAppends(s, dps) ==
    IF dps = <<>> THEN s
    ELSE LET scheme == Head(dps)[1]
             u == Head(dps)[2]
         IN  CASE scheme \in {"http", "https"} -> AccumulateAppends(Append(s, u), Tail(dps))
               [] scheme \in {"ldap", "ldaps"} -> s
               [] OTHER -> AccumulateAppends(s, Tail(dps))

(* The loop of Accumulate over the DPs: unparsable ones are skipped, http  *)
(* and https are added, ldap and ldaps end the whole loop, others are      *)
(* ignored.                                                                 *)
RECURSIVE AccumulateDps(_, _)
AccumulateDps(s, dps) ==
    IF dps = <<>> THEN s
    ELSE LET scheme == Head(dps)[1]
             u == Head(dps)[2]
         IN  CASE scheme \in {"http", "https"} -> AccumulateDps(AddCRL(s, u), Tail(dps))
               [] scheme \in {"ldap", "ldaps"} -> s
               [] OTHER -> AccumulateDps(s, Tail(dps))

HttpUrls(c) == {DpsOf[c][i][2] : i \in {i \in DOMAIN DpsOf[c] : DpsOf[c][i][1] \in {"http", "https"}}}

Init ==
    /\ crls = <<>>
    /\ file \in SortedLists \cup {Absent, Corrupt}
    /\ opened = FALSE
    /\ wanted = {}

(* Mutant: the error checks after os.Open and json.Unmarshal are dropped, *)
(* and whatever was read becomes the list.                                 *)
LoadIgnoresErrors ==
    /\ ~opened
    /\ opened' = TRUE
    /\ crls' = file
    /\ UNCHANGED <<file, wanted>>

(* NewIssuerMetadata then Load. os.Open fails for a missing file, and can *)
(* fail for an existing one too (permissions, too many open files): Load   *)
(* returns the error and the list stays empty. A read or JSON error is     *)
(* only logged, and the list stays empty too. Otherwise the list is the    *)
(* file's.                                                                 *)
Load ==
    /\ ~opened
    /\ opened' = TRUE
    /\ \/ crls' = crls
       \/ file \notin {Absent, Corrupt} /\ crls' = file
    /\ UNCHANGED <<file, wanted>>

Accumulate(c) ==
    /\ opened
    /\ crls' = AccumulateDps(crls, DpsOf[c])
    /\ wanted' = wanted \cup HttpUrls(c)
    /\ UNCHANGED <<file, opened>>

(* OpenFile with O_CREATE|O_TRUNC, then the JSON encoding of the list.    *)
(* If OpenFile fails, the file is untouched. If it succeeds, the file is   *)
(* already empty when Encode runs. An Encode error (a full disk), or a     *)
(* crash before it ends, leaves an empty or partial file that does not     *)
(* parse. The Encode error is only logged, and Save returns Close's error. *)
Save ==
    /\ opened
    /\ \/ UNCHANGED file
       \/ file' = crls
       \/ file' = Corrupt
    /\ UNCHANGED <<crls, opened, wanted>>

Next == Load \/ Save \/ \E c \in Certs : Accumulate(c)

Spec == Init /\ [][Next]_vars

-----------------------------------------------------------------------------
TypeOK ==
    /\ crls \in Seq(Urls)
    /\ file \in Seq(Urls) \cup {Absent, Corrupt}
    /\ opened \in BOOLEAN
    /\ wanted \subseteq Urls

(* The in-memory list stays sorted and duplicate-free through any mix of   *)
(* Load, Accumulate and Save, so the binary search in addCRL stays valid.  *)
CrlsSortedUnique == IsSorted(crls, <)

(* addCRL against set insertion, for the list in memory in every reachable *)
(* state (Load makes each list Save can write reachable) and every URL:    *)
(* the result is the sorted list of the old URLs plus the new one.         *)
AddCRLIsSetInsert ==
    \A u \in Urls :
        LET r == AddCRL(crls, u)
        IN  IsSorted(r, <) /\ Range(r) = Range(crls) \cup {u}

(* Spec E3 and section 4.4: after Accumulate, every http(s) DP of the      *)
(* certificate is in the list, whatever ldap DPs come before it.           *)
AccumulateCoversHttp == wanted \subseteq Range(crls)
=============================================================================
