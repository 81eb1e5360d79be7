-------------------------- MODULE ReprocessShutdown --------------------------
(***************************************************************************)
(* The reprocess-known-certs tool (cmd/reprocess-known-certs/              *)
(* reprocess-known-certs.go). main lists every (expDate, issuer) tuple,    *)
(* queues those shouldProcess accepts on a buffered channel without        *)
(* blocking, closes the channel and starts the workers. Each worker ranges *)
(* over the channel and, per tuple, selects between quitChan and           *)
(* ReconstructIssuerMetadata. A notifier goroutine waits on the WaitGroup  *)
(* and sends on doneChan. main then selects between an OS signal, after    *)
(* which it sends once on the unbuffered quitChan, and doneChan.           *)
(* glog.Fatalf ends the process, and so does main returning.               *)
(*                                                                         *)
(* The tuples come from the Firestore-backed CertDatabase that             *)
(* engine.GetConfiguredStorage builds: ListExpirationDates, then           *)
(* ListIssuersForExpirationDate per date. Each list drains a channel that  *)
(* a goroutine fills from a Firestore query; the goroutine returns at the  *)
(* first iter.Next error, so the list is a prefix of the documents, and    *)
(* the List function still returns a nil error.                            *)
(***************************************************************************)
EXTENDS Naturals, Sequences, FiniteSets, SequencesExt

CONSTANTS
    Workers,     \* the worker goroutines (ctconfig.NumThreads of them)
    Dates,       \* the ct/<expDate> documents, in query order
    IssuersOf,   \* IssuersOf[d]: the ct/<d>/issuer documents, in query order
    MaxListErrors, \* bound on iter.Next errors during the listings
    Capacity,    \* the capacity of workUnitsChan (16M in the code)
    MaxSignals,  \* bound on the SIGTERM/SIGINT deliveries
    NoTuple      \* the zero metadataTuple a worker holds before its first one

VARIABLES
    mainPc,     \* "list", "fill", "select", "quit" (blocked sending on quitChan) or "exited"
    expDates,   \* the dates ListExpirationDates returned
    dix,        \* how many of expDates have had their issuers listed
    issuers,    \* the issuers listed for expDates[dix]
    filled,     \* how many of issuers the fill loop has handled
    listed,     \* history: every (expDate, issuer) tuple the listings returned
    listErrors, \* iter.Next errors so far
    queue,      \* the contents of workUnitsChan
    closed,     \* close(workUnitsChan) has happened
    wpc,        \* per worker: "new", "range", "select", "work" or "done"
    item,       \* per worker: the tuple it took from the channel
    wg,         \* the WaitGroup counter twg
    npc,        \* the notifier: "wait", "send" or "sent"
    sigBuf,     \* signals in sigChan (capacity 1)
    signals,    \* signals delivered so far
    processed,  \* tuples whose ReconstructIssuerMetadata returned nil
    exitHow,    \* "none", "completed", "signal" or "fatal"
    selected    \* the tuples the command-line regexes accept

listVars == <<expDates, dix, issuers, listed, listErrors>>

vars == <<mainPc, expDates, dix, issuers, filled, listed, listErrors, queue, closed, wpc, item, wg, npc, sigBuf,
          signals, processed, exitHow, selected>>

(* The shards in storage: every (date, issuer) marker document.           *)
Shards == UNION {{<<d, i>> : i \in Range(IssuersOf[d])} : d \in Range(Dates)}

(* The lists a Firestore listing of the documents s can return: the        *)
(* goroutine stops at the first failing iter.Next and closes the channel. *)
FirestoreListing(s) == Prefixes(s)

(* A listing that stopped short of s met an iter.Next error.               *)
StreamOutcome(l, s) ==
    \/ l = s /\ UNCHANGED listErrors
    \/ l # s /\ listErrors < MaxListErrors /\ listErrors' = listErrors + 1

(* shouldProcess: the regex filter over the tuple's date and issuer.       *)
ShouldProcess(t) == t \in selected

Running == mainPc # "exited"

Exit(how) == /\ mainPc' = "exited"
             /\ exitHow' = how

Init ==
    /\ mainPc = "list"
    /\ expDates = <<>>
    /\ dix = 0
    /\ issuers = <<>>
    /\ filled = 0
    /\ listed = {}
    /\ listErrors = 0
    /\ queue = <<>>
    /\ closed = FALSE
    /\ wpc = [w \in Workers |-> "new"]
    /\ item = [w \in Workers |-> NoTuple]
    /\ wg = 0
    /\ npc = "wait"
    /\ sigBuf = 0
    /\ signals = 0
    /\ processed = {}
    /\ exitHow = "none"
    /\ selected \in SUBSET Shards

(* ListExpirationDates(time.Now()). The Firestore query does not use     *)
(* aNotBefore, and its error result is always nil, so the Fatalf after it *)
(* never runs.                                                             *)
ListDates ==
    /\ mainPc = "list"
    /\ \E l \in FirestoreListing(Dates) :
         /\ expDates' = l
         /\ StreamOutcome(l, Dates)
    /\ mainPc' = "fill"
    /\ UNCHANGED <<dix, issuers, filled, listed, queue, closed, wpc, item, wg,
                   npc, sigBuf, signals, processed, exitHow>>

(* The next date of the outer loop: ListIssuersForExpirationDate, whose    *)
(* error result is nil as well.                                            *)
ListIssuers ==
    /\ mainPc = "fill" /\ filled = Len(issuers) /\ dix < Len(expDates)
    /\ LET d == expDates[dix + 1] IN
       \E l \in FirestoreListing(IssuersOf[d]) :
          /\ issuers' = l
          /\ StreamOutcome(l, IssuersOf[d])
          /\ listed' = listed \cup {<<d, i>> : i \in Range(l)}
    /\ dix' = dix + 1
    /\ filled' = 0
    /\ UNCHANGED <<mainPc, expDates, queue, closed, wpc, item, wg, npc, sigBuf,
                   signals, processed, exitHow>>

(* One issuer of the inner loop: a non-blocking send, and Fatalf on       *)
(* "Channel overflow" when the buffer is full.                             *)
Fill ==
    /\ mainPc = "fill"
    /\ filled < Len(issuers)
    /\ LET t == <<expDates[dix], issuers[filled + 1]>> IN
       \/ /\ ~ShouldProcess(t)
          /\ filled' = filled + 1
          /\ UNCHANGED <<mainPc, queue, exitHow>>
       \/ /\ ShouldProcess(t) /\ Len(queue) < Capacity
          /\ queue' = Append(queue, t)
          /\ filled' = filled + 1
          /\ UNCHANGED <<mainPc, exitHow>>
       \/ /\ ShouldProcess(t) /\ Len(queue) = Capacity
          /\ Exit("fatal")
          /\ UNCHANGED <<filled, queue>>
    /\ UNCHANGED <<listVars, closed, wpc, item, wg, npc, sigBuf, signals, processed>>

(* Mutant: the outer loop ends before the last listed date.               *)
FillDoneBeforeLastDate ==
    mainPc = "fill" /\ filled = Len(issuers) /\ dix + 1 >= Len(expDates)

(* Both loops are done.                                                     *)
FillDone == mainPc = "fill" /\ filled = Len(issuers) /\ dix = Len(expDates)

(* Mutant: the channel is not closed before the workers start.             *)
StartWorkersWithoutClose ==
    /\ FillDone
    /\ mainPc' = "select"
    /\ wpc' = [w \in Workers |-> "range"]
    /\ wg' = Cardinality(Workers)
    /\ UNCHANGED <<listVars, filled, queue, closed, item, npc, sigBuf, signals,
                   processed, exitHow>>

(* Mutant: the twg.Add(1) before each go metadataWorker is missing.      *)
StartWorkersNoAdd ==
    /\ FillDone
    /\ closed' = TRUE
    /\ mainPc' = "select"
    /\ wpc' = [w \in Workers |-> "range"]
    /\ UNCHANGED <<listVars, filled, queue, wg, item, npc, sigBuf, signals,
                   processed, exitHow>>

(* close(workUnitsChan), then twg.Add(1) and go metadataWorker for each   *)
(* thread, then the notifier goroutine; main reaches its select.           *)
StartWorkers ==
    /\ FillDone
    /\ closed' = TRUE
    /\ mainPc' = "select"
    /\ wpc' = [w \in Workers |-> "range"]
    /\ wg' = Cardinality(Workers)
    /\ UNCHANGED <<listVars, filled, queue, item, npc, sigBuf, signals, processed, exitHow>>

(* for tuple := range metaChan: take the next tuple, or return once the   *)
(* channel is closed and empty (defer wg.Done()).                          *)
WorkerRange(w) ==
    /\ Running /\ wpc[w] = "range"
    /\ \/ /\ queue # <<>>
          /\ item' = [item EXCEPT ![w] = Head(queue)]
          /\ queue' = Tail(queue)
          /\ wpc' = [wpc EXCEPT ![w] = "select"]
          /\ UNCHANGED wg
       \/ /\ queue = <<>> /\ closed
          /\ wpc' = [wpc EXCEPT ![w] = "done"]
          /\ wg' = wg - 1
          /\ UNCHANGED <<queue, item>>
    /\ UNCHANGED <<listVars, mainPc, filled, closed, npc, sigBuf, signals, processed, exitHow>>

(* select { case <-quitChan: return; default: ... }. The receive is ready *)
(* only while main is blocked sending; receiving it lets main return, and *)
(* the process exits.                                                      *)
WorkerSelect(w) ==
    /\ Running /\ wpc[w] = "select"
    /\ \/ /\ mainPc = "quit"
          /\ wpc' = [wpc EXCEPT ![w] = "done"]
          /\ wg' = wg - 1
          /\ Exit("signal")
       \/ /\ mainPc # "quit"
          /\ wpc' = [wpc EXCEPT ![w] = "work"]
          /\ UNCHANGED <<wg, mainPc, exitHow>>
    /\ UNCHANGED <<listVars, filled, queue, closed, item, npc, sigBuf, signals, processed>>

(* ReconstructIssuerMetadata returns nil; the worker loops.                *)
Reconstruct(w) ==
    /\ Running /\ wpc[w] = "work"
    /\ processed' = processed \cup {item[w]}
    /\ wpc' = [wpc EXCEPT ![w] = "range"]
    /\ UNCHANGED <<listVars, mainPc, filled, queue, closed, item, wg, npc, sigBuf,
                   signals, exitHow>>

(* ReconstructIssuerMetadata returns an error: glog.Fatalf. The           *)
(* FilesystemDatabase of the Firestore build always returns "Disabled".    *)
ReconstructFails(w) ==
    /\ Running /\ wpc[w] = "work"
    /\ Exit("fatal")
    /\ UNCHANGED <<listVars, filled, queue, closed, wpc, item, wg, npc, sigBuf,
                   signals, processed>>

(* Mutant: the notifier goroutine is started before the workers are added. *)
NotifierWaitEarly ==
    /\ Running /\ npc = "wait" /\ wg = 0
    /\ npc' = "send"
    /\ UNCHANGED <<listVars, mainPc, filled, queue, closed, wpc, item, wg, sigBuf,
                   signals, processed, exitHow>>

(* The notifier: wait.Wait() returns, then doneChan <- true blocks until   *)
(* main receives it.                                                        *)
NotifierWait ==
    /\ Running /\ npc = "wait" /\ mainPc \notin {"list", "fill"} /\ wg = 0
    /\ npc' = "send"
    /\ UNCHANGED <<listVars, mainPc, filled, queue, closed, wpc, item, wg, sigBuf,
                   signals, processed, exitHow>>

(* main's select: either ready case may be taken. A signal: cancel() and  *)
(* a blocking quitChan <- struct{}{}. doneChan: "Completed." and return.  *)
MainSelect ==
    /\ mainPc = "select"
    /\ \/ /\ sigBuf = 1
          /\ sigBuf' = 0
          /\ mainPc' = "quit"
          /\ UNCHANGED <<npc, exitHow>>
       \/ /\ npc = "send"
          /\ npc' = "sent"
          /\ Exit("completed")
          /\ UNCHANGED sigBuf
    /\ UNCHANGED <<listVars, filled, queue, closed, wpc, item, wg, signals, processed>>

(* SIGTERM or SIGINT: signal.Notify sends without blocking on the         *)
(* one-slot sigChan, so a signal arriving while it is full is dropped.    *)
Signal ==
    /\ Running /\ signals < MaxSignals
    /\ signals' = signals + 1
    /\ sigBuf' = 1
    /\ UNCHANGED <<listVars, mainPc, filled, queue, closed, wpc, item, wg, npc,
                   processed, exitHow>>

(* The process has exited.                                                  *)
Exited == ~Running /\ UNCHANGED vars

(* The regex arguments do not change while the tool runs.                  *)
MainStep == (ListDates \/ ListIssuers \/ Fill \/ StartWorkers \/ MainSelect) /\ UNCHANGED selected
Worker(w) == (WorkerRange(w) \/ WorkerSelect(w) \/ Reconstruct(w)) /\ UNCHANGED selected
Notifier == NotifierWait /\ UNCHANGED selected

Next ==
    /\ UNCHANGED selected
    /\ \/ MainStep
       \/ \E w \in Workers : Worker(w) \/ ReconstructFails(w)
       \/ Notifier
       \/ Signal
       \/ Exited

(* The Go scheduler runs every runnable goroutine: weak fairness on each   *)
(* goroutine's own steps. Failures and signals are not fair.              *)
Spec == /\ Init /\ [][Next]_vars
        /\ WF_vars(MainStep) /\ WF_vars(Notifier)
        /\ \A w \in Workers : WF_vars(Worker(w))

-----------------------------------------------------------------------------
TypeOK ==
    /\ mainPc \in {"list", "fill", "select", "quit", "exited"}
    /\ expDates \in FirestoreListing(Dates) /\ dix \in 0..Len(expDates)
    /\ filled \in 0..Len(issuers) /\ listed \subseteq Shards
    /\ queue \in Seq(listed) /\ Len(queue) <= Capacity
    /\ wpc \in [Workers -> {"new", "range", "select", "work", "done"}]
    /\ wg \in 0..Cardinality(Workers)
    /\ npc \in {"wait", "send", "sent"}
    /\ sigBuf \in 0..1
    /\ processed \subseteq selected
    /\ exitHow \in {"none", "completed", "signal", "fatal"}

(* "Completed." is logged only after every listed tuple the filter        *)
(* accepted has been reconstructed: the WaitGroup cannot reach zero while *)
(* a worker still has work, and the channel is closed before any worker   *)
(* starts.                                                                 *)
CompletedMeansAllProcessed ==
    exitHow = "completed" => processed = {t \in listed : ShouldProcess(t)}

(* The tool always exits, by completing or by a Fatalf, unless a signal    *)
(* arrives first (signals are not fair, so runs without one are included). *)
Terminates == <>(mainPc = "exited" \/ signals > 0)

(* A signal always ends the process: "stopping threads at next            *)
(* opportunity".                                                            *)
SignalLeadsToExit == (signals > 0) ~> (mainPc = "exited")

(* A shard in storage that the filter accepts is missed by a completed   *)
(* run only if a listing was cut short: with every listing run to         *)
(* iterator.Done, the nested date and issuer loops queue every shard.     *)
CompletedCoversStoreWithoutListErrors ==
    (exitHow = "completed" /\ listErrors = 0)
        => processed = {t \in Shards : ShouldProcess(t)}

(* Spec section 7: a deadline-exceeded on a backend stream is retried, so *)
(* a run that logs "Completed." has reconstructed every shard in storage  *)
(* that the filter accepts, not only those a listing happened to return.  *)
(* The date and issuer streams end at an iter.Next error instead (the     *)
(* client's context expires 15 minutes after main starts), and the tool   *)
(* cannot tell the short list from a complete one.                        *)
CompletedCoversStore ==
    exitHow = "completed" => processed = {t \in Shards : ShouldProcess(t)}
=============================================================================
