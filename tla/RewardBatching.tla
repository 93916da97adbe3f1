--------------------------- MODULE RewardBatching ---------------------------
(***************************************************************************)
(* How the rows of the agent loops get their rewards (agent_loop.py): the  *)
(* thread pool of each RewardManagerWorker, and the one BatchExecutor that *)
(* collects rows from all of them into batches for the reward model.  A    *)
(* row is a number; the reward of a row is known by the row it is for.     *)
(***************************************************************************)
EXTENDS DispatchCollect

VARIABLES
  reward,     \* where each row is on its way to a reward
  answer,     \* the row whose output of the reward model each row was given
  pool,       \* pool[w]: rows that wait for a thread of worker w
  queue,      \* _q of the executor
  taken,      \* items (and futs): rows the executor holds
  executor    \* where _worker_loop is

rewardVars == <<reward, answer, pool, queue, taken, executor>>
executorVars == <<queue, taken, executor>>

(* Threads that are never given back.                                      *)
OnThreadForEver(rows) == {r \in rows : reward[r] \notin {"none", "pooled"}}

(* A thread is held from its start until the reward is computed.           *)
OnThread(rows) == {r \in rows : reward[r] \in {"started", "waiting", "answered", "failing"}}

RewardInit(rows, workers) ==
  /\ reward = [r \in rows |-> "none"]
  /\ answer = [r \in rows |-> 0]
  /\ pool = [w \in workers |-> << >>]
  /\ queue = << >> /\ taken = << >> /\ executor = "idle"

-----------------------------------------------------------------------------
(* RewardManagerWorker *)

(* compute_score: run_in_executor starts a thread for the row at once or   *)
(* lets it wait.                                                           *)
ComputeScore(w, r) ==
  /\ reward[r] = "none"
  /\ reward' = [reward EXCEPT ![r] = "pooled"]
  /\ pool' = [pool EXCEPT ![w] = Append(@, r)]
  /\ UNCHANGED <<answer, executorVars>>

StartThread(w, rows, threads) ==
  /\ pool[w] # << >> /\ Cardinality(OnThread(rows)) < threads
  /\ reward' = [reward EXCEPT ![Head(pool[w])] = "started"]
  /\ pool' = [pool EXCEPT ![w] = Tail(@)]
  /\ UNCHANGED <<answer, executorVars>>

(* reward_wrapper: submit_task puts the row into the queue, and the thread *)
(* blocks in ray.get.                                                      *)
SubmitTask(r) ==
  /\ reward[r] = "started"
  /\ queue' = Append(queue, r)
  /\ reward' = [reward EXCEPT ![r] = "waiting"]
  /\ UNCHANGED <<answer, pool, taken, executor>>

(* The reward manager, with the output of the reward model if there is one.*)
CallRewardManager(r, model) ==
  /\ reward[r] = IF model THEN "answered" ELSE "started"
  /\ reward' = [reward EXCEPT ![r] = "scored"]
  /\ answer' = [answer EXCEPT ![r] = IF model THEN @ ELSE r]
  /\ UNCHANGED <<pool, executorVars>>

RewardManagerRaises(r, model) ==
  /\ reward[r] = IF model THEN "answered" ELSE "started"
  /\ reward' = [reward EXCEPT ![r] = "failed"]
  /\ UNCHANGED <<answer, pool, executorVars>>

(* ray.get raises what the executor set; the row's agent loop fails.       *)
RaiseInThread(r) ==
  /\ reward[r] = "failing"
  /\ reward' = [reward EXCEPT ![r] = "failed"]
  /\ UNCHANGED <<answer, pool, executorVars>>

-----------------------------------------------------------------------------
(* BatchExecutor._worker_loop; max_batch_size is never given.              *)

Full(rows, microBatch) == Len(rows) % microBatch = 0

(* get, the first of a batch, and get_nowait while there are more.         *)
TakeTask ==
  /\ executor \in {"idle", "draining"} /\ queue # << >>
  /\ taken' = Append(taken, Head(queue)) /\ queue' = Tail(queue)
  /\ executor' = "draining"
  /\ UNCHANGED <<reward, answer, pool>>

(* queue.Empty: on to the micro batch, if it is not full already.          *)
QueueEmpty(microBatch) ==
  /\ executor = "draining" /\ queue = << >>
  /\ executor' = IF Full(taken, microBatch) THEN "running" ELSE "filling"
  /\ UNCHANGED <<reward, answer, pool, queue, taken>>

(* The blocking get of the inner loop.                                     *)
FillBatch(microBatch) ==
  /\ executor = "filling" /\ queue # << >>
  /\ taken' = Append(taken, Head(queue)) /\ queue' = Tail(queue)
  /\ executor' = IF Full(taken', microBatch) THEN "running" ELSE "filling"
  /\ UNCHANGED <<reward, answer, pool>>

(* The results in the order of the rows, not of their arrival.             *)
ResultsSorted(items, ranks) == SetToSortSeq({items[i] : i \in DOMAIN items}, <)

(* batch_fn: the rows are concatenated and dispatched over the ranks of    *)
(* the reward model, and their outputs collected and split.                *)
Results(items, ranks) == CollectNd(DispatchNd(items, DeviceMesh(ranks, 1)), DeviceMesh(ranks, 1))

RunBatch(microBatch) ==
  /\ executor = "running"
  /\ LET results == Results(taken, microBatch)
         futs == [r \in {taken[i] : i \in DOMAIN taken} |-> CHOOSE i \in DOMAIN taken : taken[i] = r]
     IN  /\ answer' = [r \in DOMAIN answer |-> IF r \in DOMAIN futs THEN results[futs[r]] ELSE answer[r]]
         /\ reward' = [r \in DOMAIN reward |-> IF r \in DOMAIN futs THEN "answered" ELSE reward[r]]
  /\ executor' = "idle" /\ taken' = << >>
  /\ UNCHANGED <<pool, queue>>

(* batch_fn raises: every future of the batch gets the exception.          *)
BatchFails ==
  /\ executor = "running"
  /\ reward' = [r \in DOMAIN reward |-> IF r \in {taken[i] : i \in DOMAIN taken} THEN "failing" ELSE reward[r]]
  /\ executor' = "idle" /\ taken' = << >>
  /\ UNCHANGED <<answer, pool, queue>>
=============================================================================
