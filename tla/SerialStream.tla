---------------------------- MODULE SerialStream ----------------------------
(***************************************************************************)
(* The serial stream of one shard, StreamSerialsForExpirationDateAndIssuer *)
(* and processSerialDocumentQuery (storage/firestorebackend.go 311-378).   *)
(*                                                                         *)
(* A producer goroutine pages through the collection                      *)
(* ct/<expDate>/issuer/<issuer>/certs with Limit(L).Offset(offset). Each   *)
(* query reads one consistent snapshot of the collection in document-ID    *)
(* order. The iterator hands out documents one at a time. After the page  *)
(* the offset advances by the number of serials sent on the channel.      *)
(* DeadlineExceeded re-issues the query, any other error closes the       *)
(* stream, and an empty page closes it. Meanwhile other processes may     *)
(* Create new PEM documents in the same collection.                       *)
(***************************************************************************)
EXTENDS Naturals, Sequences, FiniteSets, SequencesExt, Functions

CONSTANTS
    Docs,          \* document IDs, ordered as Firestore orders them (by name)
    BadIds,        \* IDs for which NewSerialFromIDString fails
    Limit,         \* the page size, 4096 in the code
    MaxDeadlines,  \* bound on DeadlineExceeded errors
    MaxErrors,     \* bound on other iterator errors
    MaxInserts     \* bound on concurrent Creates into the collection

ASSUME /\ BadIds \subseteq Docs
       /\ Docs \subseteq Nat /\ Limit \in Nat \ {0}

VARIABLES
    docs,       \* the document IDs in the collection now
    initDocs,   \* the collection when the stream started
    offset,     \* offset of the producer loop
    page,       \* the snapshot the running query returns
    idx,        \* how many documents of page the iterator has handed out
    count,      \* count of processSerialDocumentQuery
    phase,      \* "query": about to issue a query, "iter": iterating, "closed"
    out,        \* every serial sent on the channel, in order
    hardError,  \* the stream closed on a non-deadline error
    deadlines, errors, inserts

vars == <<docs, initDocs, offset, page, idx, count, phase, out, hardError,
          deadlines, errors, inserts>>

(* Mutant: the window starts one document past the offset.               *)
WindowSkipsFirst(o) ==
    LET s == SetToSortSeq(docs, <)
    IN  SubSeq(s, o + 2, IF o + 1 + Limit < Len(s) THEN o + 1 + Limit ELSE Len(s))

(* The documents at positions offset+1 .. offset+Limit of the ordered     *)
(* collection: query.Offset(offset) with Limit(L).                         *)
Window(o) ==
    LET s == SetToSortSeq(docs, <)
    IN  SubSeq(s, o + 1, IF o + Limit < Len(s) THEN o + Limit ELSE Len(s))

Init ==
    /\ initDocs \in SUBSET Docs
    /\ docs = initDocs
    /\ offset = 0
    /\ page = <<>>
    /\ idx = 0
    /\ count = 0
    /\ phase = "query"
    /\ out = <<>>
    /\ hardError = FALSE
    /\ deadlines = 0 /\ errors = 0 /\ inserts = 0

(* processSerialDocumentQuery(query.Offset(offset)): q.Documents(ctx).      *)
StartQuery ==
    /\ phase = "query"
    /\ page' = Window(offset)
    /\ idx' = 0
    /\ count' = 0
    /\ phase' = "iter"
    /\ UNCHANGED <<docs, initDocs, offset, out, hardError, deadlines, errors, inserts>>

(* iter.Next returns a document with a decodable ID: c <- serial, count++. *)
Send ==
    /\ phase = "iter"
    /\ idx < Len(page)
    /\ page[idx + 1] \notin BadIds
    /\ out' = Append(out, page[idx + 1])
    /\ idx' = idx + 1
    /\ count' = count + 1
    /\ UNCHANGED <<docs, initDocs, offset, page, phase, hardError, deadlines, errors, inserts>>

(* NewSerialFromIDString fails: the document is skipped and not counted.   *)
SkipInvalid ==
    /\ phase = "iter"
    /\ idx < Len(page)
    /\ page[idx + 1] \in BadIds
    /\ idx' = idx + 1
    /\ UNCHANGED <<docs, initDocs, offset, page, count, phase, out, hardError,
                   deadlines, errors, inserts>>

(* iter.Next returns iterator.Done: offset += count, and the loop ends     *)
(* when the page sent nothing.                                              *)
PageDone ==
    /\ phase = "iter"
    /\ idx = Len(page)
    /\ offset' = offset + count
    /\ phase' = IF count = 0 THEN "closed" ELSE "query"
    /\ UNCHANGED <<docs, initDocs, page, idx, count, out, hardError, deadlines, errors, inserts>>

(* Mutant: the retry advances by a whole page instead of by count.         *)
DeadlineAdvancesByLimit ==
    /\ phase = "iter"
    /\ deadlines < MaxDeadlines
    /\ deadlines' = deadlines + 1
    /\ offset' = offset + Limit
    /\ phase' = "query"
    /\ UNCHANGED <<docs, initDocs, page, idx, count, out, hardError, errors, inserts>>

(* Mutant: the retry re-issues the query at the offset of the failed page. *)
DeadlineSameOffset ==
    /\ phase = "iter"
    /\ deadlines < MaxDeadlines
    /\ deadlines' = deadlines + 1
    /\ UNCHANGED offset
    /\ phase' = "query"
    /\ UNCHANGED <<docs, initDocs, page, idx, count, out, hardError, errors, inserts>>

(* iter.Next fails with DeadlineExceeded: offset += count, then continue.  *)
DeadlineExceeded ==
    /\ phase = "iter"
    /\ deadlines < MaxDeadlines
    /\ deadlines' = deadlines + 1
    /\ offset' = offset + count
    /\ phase' = "query"
    /\ UNCHANGED <<docs, initDocs, page, idx, count, out, hardError, errors, inserts>>

(* Any other error (or a nil document): offset += count, the goroutine     *)
(* returns and the deferred close(c) closes the stream.                   *)
OtherError ==
    /\ phase = "iter"
    /\ errors < MaxErrors
    /\ errors' = errors + 1
    /\ offset' = offset + count
    /\ phase' = "closed"
    /\ hardError' = TRUE
    /\ UNCHANGED <<docs, initDocs, page, idx, count, out, deadlines, inserts>>

(* Another process's StoreCertificatePEM Creates a document in the shard. *)
Insert(d) ==
    /\ phase # "closed"
    /\ inserts < MaxInserts
    /\ d \notin docs
    /\ docs' = docs \cup {d}
    /\ inserts' = inserts + 1
    /\ UNCHANGED <<initDocs, offset, page, idx, count, phase, out, hardError,
                   deadlines, errors>>

(* The steps of the producer goroutine that need no failure.               *)
Producer == StartQuery \/ Send \/ SkipInvalid \/ PageDone

Next ==
    \/ Producer
    \/ DeadlineExceeded
    \/ OtherError
    \/ \E d \in Docs : Insert(d)

Spec == Init /\ [][Next]_vars

-----------------------------------------------------------------------------
(* Type invariant. The offset never passes the number of documents in the  *)
(* collection: it counts documents the stream has walked past.             *)
TypeOK ==
    /\ initDocs \subseteq docs /\ docs \subseteq Docs
    /\ offset \in 0..Cardinality(docs)
    /\ page \in Seq(Docs) /\ idx \in 0..Len(page) /\ count \in 0..idx
    /\ phase \in {"query", "iter", "closed"}
    /\ out \in Seq(Docs)
    /\ hardError \in BOOLEAN

(* Spec E6 / §4.8: a stream that closes without a hard error has sent      *)
(* every serial of the shard as it was when the stream started, across     *)
(* deadline retries and concurrent inserts.                                 *)
StreamComplete ==
    phase = "closed" /\ ~hardError => initDocs \ BadIds \subseteq Range(out)

(* Spec E6: no serial is sent on the channel twice.                        *)
SentOnce == IsInjective(out)

(* Spec E6 as the code meets it: over a shard that does not change and     *)
(* holds only decodable IDs, no serial is sent twice, across deadline      *)
(* retries at any point of a page.                                         *)
NoDuplicateDelivery == inserts = 0 /\ docs \cap BadIds = {} => SentOnce

=============================================================================
