----------------------------- MODULE EmailWorker -----------------------------
(***************************************************************************)
(* The e-mail worker: every process of the backend polls the table         *)
(* email_jobs, locks a batch of pending rows, posts each to the provider   *)
(* and commits the results of the whole batch at its end.                  *)
(*                                                                         *)
(* A batch is one database transaction with a network call per row inside  *)
(* it.  When the process stops, is cancelled, or loses the database, the   *)
(* transaction is rolled back: the messages that went out stay out.        *)
(***************************************************************************)
EXTENDS Naturals, FiniteSets

CONSTANTS
    Job,         \* email_jobs identifiers
    Worker,      \* processes that run the worker loop
    MAX_RETRIES, \* _MAX_RETRIES, the attempts after which a job is given up
    BatchSize,   \* settings.email_batch_size
    MaxAborts    \* bound: batches that are rolled back

ASSUME WorkerAssumption ==
    /\ IsFiniteSet(Job)
    /\ MAX_RETRIES \in Nat \ {0}
    /\ BatchSize \in Nat \ {0}
    /\ MaxAborts \in Nat

VARIABLES
    job,      \* email_jobs.status as committed, "absent" without a row
    retries,  \* email_jobs.retry_count as committed
    queuedAt, \* rank of email_jobs.created_at
    holding,  \* rows locked by the open batch of each worker
    todo,     \* rows of the batch not attempted yet
    result,   \* what the batch will write about each of its rows
    copies,   \* messages the provider accepted for a job
    doubts,   \* acceptances the worker did not get to record
    aborts    \* batches rolled back so far

vars == <<job, retries, queuedAt, holding, todo, result, copies, doubts, aborts>>

Init ==
    /\ job = [j \in Job |-> "absent"]
    /\ retries = [j \in Job |-> 0]
    /\ queuedAt = [j \in Job |-> 0]
    /\ holding = [w \in Worker |-> {}]
    /\ todo = [w \in Worker |-> {}]
    /\ result = [w \in Worker |-> [j \in Job |-> "none"]]
    /\ copies = [j \in Job |-> 0]
    /\ doubts = [j \in Job |-> 0]
    /\ aborts = 0

-----------------------------------------------------------------------------
(* The queue as the request handlers see it. *)

Enqueue(j) ==
    /\ job[j] = "absent"
    /\ job' = [job EXCEPT ![j] = "pending"]
    /\ queuedAt' = [queuedAt EXCEPT
                      ![j] = 1 + Cardinality({k \in Job : job[k] # "absent"})]
    /\ UNCHANGED <<retries, holding, todo, result, copies, doubts, aborts>>

\* reset_all_data deletes every row; the statement waits for locked rows.
Purge ==
    /\ \A w \in Worker : holding[w] = {}
    /\ job' = [j \in Job |-> "absent"]
    /\ retries' = [j \in Job |-> 0]
    /\ queuedAt' = [j \in Job |-> 0]
    /\ copies' = [j \in Job |-> 0]
    /\ doubts' = [j \in Job |-> 0]
    /\ UNCHANGED <<holding, todo, result, aborts>>

-----------------------------------------------------------------------------
(* One batch of a worker. *)

\* The rows the query returns before its limit.  It skips the rows another
\* transaction has locked.
NotSkipped(w) == {j \in Job : job[j] = "pending" /\ retries[j] < MAX_RETRIES}
Eligible(w) ==
    {j \in Job : /\ job[j] = "pending"
                 /\ retries[j] < MAX_RETRIES
                 /\ \A v \in Worker : j \notin holding[v]}

Oldest(S, n) == {j \in S : Cardinality({k \in S : queuedAt[k] < queuedAt[j]}) < n}

FetchBatch(w) ==
    /\ holding[w] = {}
    /\ Eligible(w) # {}
    /\ holding' = [holding EXCEPT ![w] = Oldest(Eligible(w), BatchSize)]
    /\ todo' = [todo EXCEPT ![w] = Oldest(Eligible(w), BatchSize)]
    /\ UNCHANGED <<job, retries, queuedAt, result, copies, doubts, aborts>>

NextJob(w) == Oldest(todo[w], 1)

\* The provider accepts the message and the worker learns it.
Sent(w, j) ==
    /\ j \in NextJob(w)
    /\ todo' = [todo EXCEPT ![w] = @ \ {j}]
    /\ result' = [result EXCEPT ![w][j] = "sent"]
    /\ copies' = [copies EXCEPT ![j] = @ + 1]
    /\ UNCHANGED <<job, retries, queuedAt, holding, doubts, aborts>>

\* The post raises: nothing went out, or the answer was lost or came too late.
SendFailed(w, j, accepted) ==
    /\ j \in NextJob(w)
    /\ todo' = [todo EXCEPT ![w] = @ \ {j}]
    /\ result' = [result EXCEPT ![w][j] = "error"]
    /\ copies' = IF accepted THEN [copies EXCEPT ![j] = @ + 1] ELSE copies
    /\ doubts' = IF accepted THEN [doubts EXCEPT ![j] = @ + 1] ELSE doubts
    /\ UNCHANGED <<job, retries, queuedAt, holding, aborts>>

Of(w, r) == {j \in holding[w] : result[w][j] = r}

\* retry_count after the batch, and whether that was the last attempt.
NotCounted(w, j) == retries[j]
RetryCount(w, j) == IF j \in Of(w, "error") THEN retries[j] + 1 ELSE retries[j]

OneMore(n) == n > MAX_RETRIES
Exhausted(n) == n >= MAX_RETRIES

RawResult(w, j) == IF result[w][j] = "none" THEN job[j] ELSE result[w][j]
Swallowed(w, j) == IF result[w][j] = "none" THEN job[j] ELSE "sent"

\* The status the batch writes; a job with attempts left stays pending.
Recorded(w, j) ==
    IF j \in Of(w, "sent") THEN "sent"
    ELSE IF j \in Of(w, "error") /\ Exhausted(RetryCount(w, j)) THEN "failed"
    ELSE job[j]

Release(w) ==
    /\ holding' = [holding EXCEPT ![w] = {}]
    /\ todo' = [todo EXCEPT ![w] = {}]
    /\ result' = [result EXCEPT ![w] = [j \in Job |-> "none"]]

CommitBatch(w) ==
    /\ holding[w] # {}
    /\ todo[w] = {}
    /\ job' = [j \in Job |-> Recorded(w, j)]
    /\ retries' = [j \in Job |-> RetryCount(w, j)]
    /\ Release(w)
    /\ UNCHANGED <<queuedAt, copies, doubts, aborts>>

\* The transaction ends without a commit, at any point of the batch.
AbortBatch(w) ==
    /\ holding[w] # {}
    /\ aborts < MaxAborts
    /\ aborts' = aborts + 1
    /\ doubts' = [j \in Job |-> IF j \in Of(w, "sent") THEN doubts[j] + 1 ELSE doubts[j]]
    /\ Release(w)
    /\ UNCHANGED <<job, retries, queuedAt, copies>>

-----------------------------------------------------------------------------
Attempt(w) ==
    \E j \in Job :
       \/ Sent(w, j)
       \/ \E accepted \in BOOLEAN : SendFailed(w, j, accepted)

Next ==
    \/ \E j \in Job : Enqueue(j)
    \/ Purge
    \/ \E w \in Worker :
          FetchBatch(w) \/ Attempt(w) \/ CommitBatch(w) \/ AbortBatch(w)

Spec == Init /\ [][Next]_vars

\* run_worker never ends: it polls again after every batch and every exception,
\* and each post has a timeout.
Fairness ==
    \A w \in Worker :
        WF_vars(FetchBatch(w)) /\ WF_vars(Attempt(w)) /\ WF_vars(CommitBatch(w))

FairSpec == Spec /\ Fairness

-----------------------------------------------------------------------------
(* Properties. *)

\* Committed columns, open batches and counters have their types.
TypeOK ==
    /\ job \in [Job -> {"absent", "pending", "sent", "failed"}]
    /\ retries \in [Job -> Nat]
    /\ queuedAt \in [Job -> Nat]
    /\ holding \in [Worker -> SUBSET Job]
    /\ todo \in [Worker -> SUBSET Job]
    /\ result \in [Worker -> [Job -> {"none", "sent", "error"}]]
    /\ copies \in [Job -> Nat]
    /\ doubts \in [Job -> Nat]
    /\ aborts \in Nat

\* A person gets a second copy of an e-mail only when the worker could not
\* record an acceptance: its answer was lost or its batch was rolled back.
\* Two workers that poll one table never cause it.
DuplicatesExplained == \A j \in Job : copies[j] <= 1 + doubts[j]

\* A pending job is below the limit of attempts, so it is always picked up
\* again; a job that was given up used all of them.
PendingIsRetried ==
    \A j \in Job :
        /\ job[j] = "pending" => retries[j] < MAX_RETRIES
        /\ job[j] = "failed" => retries[j] = MAX_RETRIES

\* Every job that is queued is eventually sent, given up or deleted, whatever
\* the provider does: a message it always refuses does not hold up the others.
Settled == \A j \in Job : job[j] = "pending" ~> job[j] # "pending"

(* What makes them inductive. *)

\* A row belongs to one batch at most, and nobody changes it meanwhile.
HeldOnce ==
    \A v, w \in Worker :
        /\ \A j \in holding[v] : job[j] = "pending" /\ (j \in holding[w] => v = w)
        /\ todo[v] \subseteq holding[v]

\* A batch has results exactly for the rows it attempted.
ResultsOfBatch ==
    \A w \in Worker : \A j \in Job :
        result[w][j] # "none" => j \in holding[w] \ todo[w]

\* Every accepted message is in the books: as a doubt, or as the one acceptance
\* that was recorded or is about to be.
CopiesAccounted ==
    \A j \in Job :
        IF job[j] = "sent" \/ \E w \in Worker : result[w][j] = "sent"
        THEN copies[j] = doubts[j] + 1
        ELSE copies[j] = doubts[j]

\* An identifier without a row has no history.
AbsentIsBlank ==
    \A j \in Job : job[j] = "absent" => retries[j] = 0 /\ copies[j] = 0

WorkerInv ==
    HeldOnce /\ ResultsOfBatch /\ CopiesAccounted /\ AbsentIsBlank /\ PendingIsRetried

Contract(j) == INSTANCE DeliveryContract WITH state <- job[j], copies <- copies[j]

\* Every job is delivered before it is marked sent and never sent again after
\* it is marked sent or failed.
DeliveryKept ==
    /\ \A j \in Job : Contract(j)!Init
    /\ [][\A j \in Job : [Contract(j)!Next]_<<job[j], copies[j]>>]_vars
===============================================================================
