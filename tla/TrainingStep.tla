---------------------------- MODULE TrainingStep ----------------------------
(***************************************************************************)
(* The steps of RayPPOTrainer.fit from the batch of prompts to the updated *)
(* actor, with the worker groups they call: the driver's order of calls    *)
(* and unions, the split of each call over the ranks, the micro-batches of *)
(* each rank, and the hybrid worker that generates and trains on the same  *)
(* GPUs.  A row is a prompt with its response; a cell of a row says for    *)
(* which row it was computed and by which policy.                          *)
(***************************************************************************)
EXTENDS HybridWorker, SeqlenBalancing, Advantages, CalibratedReward

CONSTANTS
  Configs,      \* configurations a behaviour may have, records (see below)
  LenProfiles,  \* lengths the responses may have: sequences, one per row
  ValRows,      \* number of rows of a validation batch
  Steps,        \* total_training_steps
  Responses,    \* of each row: similarity to the answer, languages (see below)
  Masks,        \* the response_mask of each row
  TokenValues,  \* the critic's value of each token of each row
  Gamma, Lam    \* algorithm.gamma, algorithm.lam; integers, to be exact

(* A configuration: world ranks, of which sp share their rows in training  *)
(* (sequence, or Megatron's tensor parallel) and tp in generation, with pp *)
(* pipeline stages; the global mini-batch size with the rollouts counted,  *)
(* drawn in a random order if shuffled; rows of a micro-batch of updates   *)
(* and of other calls, 0 for dynamic batching up to maxTokens; the         *)
(* advantage estimator and the rollouts of a prompt; switches.             *)
ConfigFields ==
  {"world", "sp", "pp", "tp", "mini", "shuffle", "micro", "logMicro", "maxTokens", "epochs",
   "adv", "n", "balance", "critic", "refInActor", "rm", "warmup", "paramOffload", "optOffload",
   "freeCache", "async", "lora", "layered", "sleepLevel", "dummyLoad", "megatron"}

(* A response: its similarity to the ground truth, the language of that,   *)
(* the language the router asked for, and the one it appears to be in.     *)
ASSUME ResponsesAssumption ==
  /\ \A i \in DOMAIN Responses :
       DOMAIN Responses[i] = {"sim", "truth", "asked", "appears"} /\ Responses[i].sim \in Int
  /\ \A l \in LenProfiles : DOMAIN l \subseteq DOMAIN Responses

ASSUME ConfigsAssumption ==
  /\ \A c \in Configs :
       /\ DOMAIN c = ConfigFields /\ c.world % (c.sp * c.pp) = 0 /\ c.world % c.tp = 0
       /\ {c.world, c.sp, c.pp, c.tp, c.mini, c.maxTokens, c.epochs, c.n} \subseteq Nat \ {0}
       /\ {c.micro, c.logMicro, c.warmup} \subseteq Nat
       /\ {c.shuffle, c.balance, c.critic, c.refInActor, c.rm, c.paramOffload, c.optOffload,
           c.freeCache, c.async, c.lora, c.layered, c.dummyLoad, c.megatron} \subseteq BOOLEAN
  /\ LenProfiles \subseteq Seq(Nat \ {0}) /\ Steps \in Nat /\ ValRows \in Nat \ {0}

(* Only Megatron has pipeline stages and shuffles; make_iterator asserts   *)
(* that mini-batches fill the rows of a rank.  Its schedule averages over  *)
(* micro-batches, so only those of one size weigh rows equally.            *)
ASSUME MegatronAssumption ==
  \A c \in Configs :
    IF c.megatron
      THEN /\ \A l \in LenProfiles : Len(l) % c.mini = 0
           /\ c.micro # 0 /\ (c.mini * c.sp * c.pp) % (c.world * c.micro) = 0
      ELSE c.pp = 1 /\ ~c.shuffle

(* A batch has rows, as many for each engine and for each data parallel    *)
(* rank (DataProto.chunk asserts it), for each rank if it is balanced      *)
(* (the equal partitions assert it), and a mini-batch has rows of each     *)
(* data parallel rank (the workers assert that ppo_mini_batch_size > 0     *)
(* after normalisation).                                                   *)
ASSUME RowsAssumption ==
  \A c \in Configs, l \in LenProfiles :
    /\ l # <<>> /\ Len(l) % (c.world \div c.tp) = 0 /\ Len(l) % (c.world \div (c.sp * c.pp)) = 0
    /\ c.balance => Len(l) % c.world = 0
    /\ c.mini >= c.world \div (c.sp * c.pp)

(* Fixed micro-batches of FSDP fill what a rank has of a mini-batch, which *)
(* the workers assert, and of the batch, which nobody does: the loss of a  *)
(* shorter last micro-batch would be scaled like that of a full one.       *)
MicroBatchesFill ==
  \A c \in Configs, l \in LenProfiles :
    ~c.megatron /\ c.micro # 0 =>
      LET dp == c.world \div (c.sp * c.pp)
      IN  (c.mini \div dp) % c.micro = 0 /\ (Len(l) \div dp) % c.micro = 0

(* An estimator of advantages; GAE reads the values, which only a critic   *)
(* computes.  Every row has a mask, and a value of each token.             *)
Estimators ==
  {"gae", "grpo", "reinforce_plus_plus_baseline", "rloo", "opo", "gpg", "grpo_passk"}

ASSUME AdvantagesAssumption ==
  /\ \A c \in Configs : c.adv \in Estimators /\ (c.adv = "gae" => c.critic)
  /\ \A l \in LenProfiles : DOMAIN l \subseteq DOMAIN Masks
  /\ \A i \in DOMAIN Masks :
       Masks[i] \in Seq({0, 1}) /\ TokenValues[i] \in [DOMAIN Masks[i] -> Int]
  /\ Gamma \in Int /\ Lam \in Int

VARIABLES
  lens,         \* the length of each row, prompt and response
  pc,           \* the call the driver is at
  global_steps,
  batch,        \* the driver's batch: a sequence of rows
  request,      \* the rows sent to the engine, and their purpose
  job,          \* the call the ranks are executing
  grad,         \* gradient accumulated since zero_grad: weight of each row
  trained,      \* how often each row was in a micro-batch of this update
  valOut        \* responses of the last validation, in the driver's order

vars == <<workerVars, lens, pc, global_steps, batch, request, job, grad, trained, valOut>>

Columns == {"responses", "rm_scores", "old_log_probs", "ref_log_prob", "values", "rewards"}
Calls == {"rm_scores", "old_log_probs", "ref_log_prob", "values"}
Updates == {"update_critic", "update_actor"}
NoCell == [of |-> 0, by |-> NoWeights]
NoJob == [call |-> "none"]
NoRequest == [purpose |-> "none"]
NoAdvantage == <<>>

Ids == DOMAIN lens
Ranks == 0 .. cfg.world - 1
RowFields == {"id", "score", "advantages"} \cup Columns
FreshRow(i) ==
  [f \in RowFields |-> CASE f = "id" -> i [] f = "score" -> 0 [] f = "advantages" -> NoAdvantage
                         [] OTHER -> NoCell]
FreshBatch == [i \in Ids |-> FreshRow(i)]
IdsOf(rows) == [i \in 1 .. Len(rows) |-> rows[i].id]
LensOf(ids) == [i \in 1 .. Len(ids) |-> lens[ids[i]]]

(* The ranks that compute and train, and the ranks as engines.             *)
TrainMesh ==
  IF cfg.megatron THEN MegatronMesh(cfg.world, cfg.sp, cfg.pp) ELSE DeviceMesh(cfg.world, cfg.sp)
EngineMesh == DeviceMesh(cfg.world, cfg.tp)
RankRows == DispatchNd(IdsOf(batch), TrainMesh)

(* DataProto.union: one more column, joined row by row.                    *)
Union(rows, column, cells) ==
  [i \in 1 .. Len(rows) |-> [rows[i] EXCEPT ![column] = cells[i]]]

(* The driver's calls in the order of fit, of a run with a reference       *)
(* policy; reward model and critic are called only if there is one.        *)
NextCall ==
  [val_before_train |-> "generate", generate |-> "balance",
   balance |-> IF cfg.rm THEN "rm_scores" ELSE "rewards",
   rm_scores |-> "rewards", rewards |-> "old_log_probs",
   old_log_probs |-> "ref_log_prob",
   ref_log_prob |-> IF cfg.critic THEN "values" ELSE "adv", values |-> "adv",
   adv |-> IF cfg.critic THEN "update_critic" ELSE "update_actor",
   update_critic |-> "update_actor",
   update_actor |-> "testing", testing |-> "save"]

-----------------------------------------------------------------------------
(* Generation *)

(* _validate pads to the number of ranks; fit sends its batch as it is.    *)
Prompts(purpose) ==
  IF purpose = "generate" THEN IdsOf(batch) ELSE PadToDivisor(Positions(ValRows), cfg.world)

SendPrompts ==
  /\ pc \in {"val_before_train", "generate", "testing"} /\ request = NoRequest
  /\ request' = [purpose |-> pc, prompts |-> Prompts(pc), output |-> <<>>]
  /\ UNCHANGED <<workerVars, lens, pc, global_steps, batch, job, grad, trained, valOut>>

SwitchMode ==
  /\ request # NoRequest /\ request.output = <<>>
  /\ \/ Summon \/ OffloadSummoned \/ ResumeWeights \/ UpdateWeights \/ ResumeCache
     \/ MegatronSummon \/ MegatronUpdateWeights
  /\ UNCHANGED <<lens, pc, global_steps, batch, request, job, grad, trained, valOut>>

(* Each engine answers its part of the prompts; the parts are collected.   *)
Generate ==
  /\ request # NoRequest /\ request.output = <<>> /\ CanGenerate
  /\ LET parts == DispatchNd(request.prompts, EngineMesh)
         answers == [r \in Ranks |-> [i \in 1 .. Len(parts[r]) |->
                                        [of |-> parts[r][i], by |-> EnginePolicy]]]
     IN  request' = [request EXCEPT !.output = CollectNd(answers, EngineMesh)]
  /\ Draw("gen")
  /\ UNCHANGED <<cfg, phase, policy, onGpu, engine, staged, baseSyncDone,
                 lens, pc, global_steps, batch, job, grad, trained, valOut>>

LeaveRollout ==
  /\ request # NoRequest /\ request.output # <<>>
  /\ TrainerMode
  /\ UNCHANGED <<lens, pc, global_steps, batch, request, job, grad, trained, valOut>>

(* Back in the driver: union with the batch, or the padding removed.       *)
ReceiveResponses ==
  /\ request # NoRequest /\ request.output # <<>> /\ phase = "trainer"
  /\ IF request.purpose = "generate"
       THEN /\ batch' = Union(batch, "responses", request.output)
            /\ valOut' = valOut
       ELSE /\ valOut' = Unpad(request.output, PadSize(Positions(ValRows), cfg.world))
            /\ batch' = batch
  /\ request' = NoRequest
  /\ pc' = NextCall[request.purpose]
  /\ UNCHANGED <<workerVars, lens, global_steps, job, grad, trained>>

-----------------------------------------------------------------------------
(* The driver's own work *)

(* _balance_batch: as many partitions as ranks, of equal size, the one     *)
(* with the largest sum first.                                             *)
\* Mutation: the partitions may have different sizes
BalancedUnequally(rows) ==
  Reorder(rows, FlattenSeq(BalancedPartitions(LensOf(IdsOf(rows)), cfg.world, FALSE)))

BalancedOrder(rows) ==
  Reorder(rows, FlattenSeq(BalancedPartitions(LensOf(IdsOf(rows)), cfg.world, TRUE)))

BalanceBatch ==
  /\ pc = "balance"
  /\ batch' = IF cfg.balance THEN BalancedOrder(batch) ELSE batch
  /\ pc' = NextCall[pc]
  /\ UNCHANGED <<workerVars, lens, global_steps, request, job, grad, trained, valOut>>

(* compute_reward, called here or launched here with this batch; its       *)
(* result is joined by position.  Scores of a reward model, which here     *)
(* values similarity alone, are taken as they are.                         *)
ComputeReward ==
  /\ pc = "rewards"
  /\ LET of == [i \in DOMAIN batch |-> IF cfg.rm THEN batch[i].rm_scores.of
                                                 ELSE batch[i].responses.of]
         field(f) == [i \in DOMAIN batch |-> Responses[of[i]][f]]
         scores == IF cfg.rm THEN field("sim")
                   ELSE ScoreBatch(field("sim"), field("truth"), field("appears"), field("asked"))
     IN  batch' = Union([i \in DOMAIN batch |-> [batch[i] EXCEPT !.score = scores[i]]], "rewards",
                        [i \in 1 .. Len(batch) |-> [of |-> of[i], by |-> 0]])
  /\ pc' = NextCall[pc]
  /\ UNCHANGED <<workerVars, lens, global_steps, request, job, grad, trained, valOut>>

(* The dataset gives the n rows of a prompt one uid.                       *)
Uid(i) == (i - 1) \div cfg.n
Generated(i) == {t \in DOMAIN Masks[i] : Masks[i][t] = 1}

(* The reward managers put the score of row i on the last token.           *)
TokenRewards(i, score) == [t \in DOMAIN Masks[i] |-> IF t = Max(Generated(i)) THEN score ELSE 0]

(* compute_advantage for position i of the batch, from the columns as they *)
(* were joined.                                                            *)
AdvantageAt(i) ==
  LET id == batch[i].id
      scores == [j \in DOMAIN batch |-> batch[j].score]
      uids == [j \in DOMAIN batch |-> Uid(batch[j].id)]
      lengths == [j \in DOMAIN batch |-> Cardinality(Generated(batch[j].id))]
  IN  CASE cfg.adv = "gae" -> Gae(TokenRewards(id, scores[i]), TokenValues[batch[i].values.of],
                                  Masks[id], Gamma, Lam)
        [] cfg.adv = "grpo" -> Grpo(scores, uids, lengths, i)
        [] cfg.adv = "reinforce_plus_plus_baseline" ->
             ReinforcePlusPlusBaseline(scores, uids, lengths, i)
        [] cfg.adv = "rloo" -> Rloo(scores, uids, lengths, i)
        [] cfg.adv = "opo" -> Opo(scores, uids, lengths, i)
        [] cfg.adv = "gpg" -> Gpg(scores, uids, lengths, i)
        [] cfg.adv = "grpo_passk" -> GrpoPassk(scores, uids, lengths, i)

ComputeAdvantage ==
  /\ pc = "adv"
  /\ batch' = [i \in DOMAIN batch |-> [batch[i] EXCEPT !.advantages = AdvantageAt(i)]]
  /\ pc' = NextCall[pc]
  /\ UNCHANGED <<workerVars, lens, global_steps, request, job, grad, trained, valOut>>

(* critic_warmup.                                                          *)
SkipActorUpdate ==
  /\ pc = "update_actor" /\ global_steps < cfg.warmup
  /\ pc' = NextCall[pc]
  /\ UNCHANGED <<workerVars, lens, global_steps, batch, request, job, grad, trained, valOut>>

EndStep ==
  /\ pc = "endstep"
  /\ IF global_steps >= Steps
       THEN pc' = "done" /\ UNCHANGED <<global_steps, batch>>
       ELSE pc' = "generate" /\ global_steps' = global_steps + 1 /\ batch' = FreshBatch
  /\ UNCHANGED <<workerVars, lens, request, job, grad, trained, valOut>>

-----------------------------------------------------------------------------
(* A call to a worker group that computes or trains *)

(* The model whose parameters the call moves.  The reward model and FSDP's *)
(* reference model are not offloaded by hand; Megatron's reference is.     *)
ModelOf(call) ==
  CASE call \in {"values", "update_critic"} -> {"critic"}
    [] call \in {"old_log_probs", "update_actor", "save"} -> {"actor"}
    [] call = "ref_log_prob" -> IF cfg.refInActor THEN {"actor"}
                               ELSE IF cfg.megatron THEN {"ref"} ELSE {}
    [] OTHER -> {}

(* Megatron's limit does not grow with the ranks that share the tensors.   *)
TokenLimit == cfg.maxTokens * (IF cfg.megatron THEN 1 ELSE cfg.sp)
MicroSize(call) == IF call \in Updates THEN cfg.micro ELSE cfg.logMicro
Dynamic(call) == MicroSize(call) = 0
SplitEvenly(rows, size) == [r \in Ranks |-> Split(Positions(Len(rows[r])), size)]

(* The micro-batches of each rank, as positions in its rows: with dynamic  *)
(* batching all ranks agree on the largest count any of them needs.        *)
\* Mutation: each rank takes the count it needs itself
MicroBatchesAlone(rows, call) ==
  IF Dynamic(call)
    THEN [r \in Ranks |-> RearrangeMicroBatches(LensOf(rows[r]),
                             MicroBatchCount(LensOf(rows[r]), TokenLimit))]
    ELSE SplitEvenly(rows, MicroSize(call))

MicroBatches(rows, call) ==
  IF Dynamic(call)
    THEN LET rankLens == [r \in Ranks |-> LensOf(rows[r])]
             count == AgreedCount(rankLens, TokenLimit)
         IN  [r \in Ranks |-> RearrangeMicroBatches(rankLens[r], count)]
    ELSE SplitEvenly(rows, MicroSize(call))

StartCall ==
  /\ pc \in Calls /\ job = NoJob
  /\ job' = [call |-> pc, rows |-> RankRows, micro |-> MicroBatches(RankRows, pc), done |-> 0]
  /\ Load(ModelOf(pc), FALSE)
  /\ UNCHANGED <<cfg, phase, policy, engine, staged, baseSyncDone, rng, drawn,
                 lens, pc, global_steps, batch, request, grad, trained, valOut>>

(* Sharded parameters are gathered by all ranks for each forward pass: it  *)
(* happens on all of them or on none.                                      *)
AllRanksAtMicroBatch == \A r \in Ranks : job.done < Len(job.micro[r])
AllRanksFinished == \A r \in Ranks : job.done = Len(job.micro[r])

Forward ==
  /\ job.call \in Calls /\ AllRanksAtMicroBatch
  /\ job' = [job EXCEPT !.done = @ + 1]
  /\ UNCHANGED <<workerVars, lens, pc, global_steps, batch, request, grad, trained, valOut>>

(* The policy a call computes with.  The reference is a model of its own,  *)
(* or the actor with its adapter disabled: the policy of step 0.           *)
\* Mutation: the adapter stays enabled
ComputedByAdapterOn ==
  CASE job.call = "old_log_probs" -> policy["actor"]
    [] job.call = "values" -> policy["critic"]
    [] job.call = "ref_log_prob" /\ cfg.refInActor -> policy["actor"]
    [] OTHER -> 0

ComputedBy ==
  CASE job.call = "old_log_probs" -> policy["actor"]
    [] job.call = "values" -> policy["critic"]
    [] OTHER -> 0

(* The results of a rank in the order of its micro-batches, and restored.  *)
\* Mutation: the index list is applied instead of its inverse
RankOutputUnreversed(r) ==
  LET order == FlattenSeq(job.micro[r])
      cells == [i \in 1 .. Len(order) |-> [of |-> job.rows[r][order[i]], by |-> ComputedBy]]
  IN  IF Dynamic(job.call) THEN [i \in 1 .. Len(cells) |-> cells[order[i]]] ELSE cells

RankOutput(r) ==
  LET order == FlattenSeq(job.micro[r])
      cells == [i \in 1 .. Len(order) |-> [of |-> job.rows[r][order[i]], by |-> ComputedBy]]
  IN  IF Dynamic(job.call) THEN RestoreDynamicBatch(cells, job.micro[r]) ELSE cells

FinishCall ==
  /\ job.call \in Calls /\ AllRanksFinished
  /\ batch' = Union(batch, job.call,
                    CollectNd([r \in Ranks |-> RankOutput(r)], TrainMesh))
  /\ Offload(ModelOf(job.call), FALSE)
  /\ job' = NoJob
  /\ pc' = NextCall[pc]
  /\ UNCHANGED <<cfg, phase, policy, engine, staged, baseSyncDone, rng, drawn,
                 lens, global_steps, request, grad, trained, valOut>>

-----------------------------------------------------------------------------
(* update_policy and update_critic *)

(* ppo_mini_batch_size per data parallel rank.                             *)
LocalMini == cfg.mini \div (cfg.world \div (cfg.sp * cfg.pp))

(* The order of the n rows of a rank in each epoch: make_iterator shuffles *)
(* with one seed on all ranks; FSDP splits the rows as they are.           *)
EpochOrders(n) ==
  [1 .. cfg.epochs -> IF cfg.shuffle THEN SetToSeqs(1 .. n) ELSE {Positions(n)}]

(* All mini-batches of a rank, epoch after epoch.                          *)
\* Mutation: a mini-batch that is not full is dropped
MiniBatchesFull(rows, orders) ==
  FlattenSeq([e \in 1 .. cfg.epochs |->
    SelectSeq(Split(Reorder(rows, orders[e]), LocalMini), LAMBDA mini : Len(mini) = LocalMini)])

MiniBatches(rows, orders) ==
  FlattenSeq([e \in 1 .. cfg.epochs |-> Split(Reorder(rows, orders[e]), LocalMini)])

ZeroGrad == [i \in Ids |-> 0]

StartUpdate ==
  /\ pc \in Updates /\ job = NoJob
  /\ pc = "update_actor" => global_steps >= cfg.warmup
  /\ \E orders \in EpochOrders(Len(RankRows[0])) :
       job' = [call |-> pc, minis |-> [r \in Ranks |-> MiniBatches(RankRows[r], orders)],
               rows |-> [r \in Ranks |-> <<>>], micro |-> [r \in Ranks |-> <<>>], done |-> 0]
  /\ trained' = ZeroGrad
  /\ Load(ModelOf(pc), TRUE)
  /\ UNCHANGED <<cfg, phase, policy, engine, staged, baseSyncDone, rng, drawn,
                 lens, pc, global_steps, batch, request, grad, valOut>>

BeginMiniBatch ==
  /\ job.call \in Updates /\ job.rows[0] = <<>> /\ job.minis[0] # <<>>
  /\ LET rows == [r \in Ranks |-> Head(job.minis[r])]
     IN  job' = [job EXCEPT !.rows = rows, !.micro = MicroBatches(rows, job.call), !.done = 0,
                            !.minis = [r \in Ranks |-> Tail(job.minis[r])]]
  /\ grad' = ZeroGrad
  /\ UNCHANGED <<workerVars, lens, pc, global_steps, batch, request, trained, valOut>>

(* The loss of a micro-batch of n rows is their mean, times this factor    *)
(* (numerator and denominator); Megatron's schedule divides by the number  *)
(* of micro-batches.                                                       *)
\* Mutation: a dynamic micro-batch counts like a fixed one
LossScalePerMicroBatch(n) == << 1, Len(job.micro[0]) >>

LossScale(n) ==
  CASE cfg.megatron -> << 1, Len(job.micro[0]) >>
    [] ~cfg.megatron /\ Dynamic(job.call) -> << n, LocalMini >>
    [] OTHER -> << 1, LocalMini \div cfg.micro >>

(* The weight of one row in the gradient; Unit stands for one over the     *)
(* size of a local mini-batch.                                             *)
Unit == 12
RowWeight(n) == (Unit * LocalMini * LossScale(n)[1]) \div (n * LossScale(n)[2])

(* Where row i is in the micro-batches all ranks are at now: rank and      *)
(* position; ranks that share their rows count once.                       *)
Occurrences(i) ==
  {rp \in Ranks \X (1 .. Len(lens)) :
     /\ rp[1] \in TrainMesh.collect
     /\ rp[2] \in ToSet(job.micro[rp[1]][job.done + 1])
     /\ job.rows[rp[1]][rp[2]] = i}

ForwardBackward ==
  /\ job.call \in Updates /\ job.rows[0] # <<>> /\ AllRanksAtMicroBatch
  /\ grad' = [i \in Ids |-> grad[i] +
                MapThenSumSet(LAMBDA rp : RowWeight(Len(job.micro[rp[1]][job.done + 1])),
                              Occurrences(i))]
  /\ trained' = [i \in Ids |-> trained[i] + Cardinality(Occurrences(i))]
  /\ job' = [job EXCEPT !.done = @ + 1]
  /\ Draw("train")
  /\ UNCHANGED <<cfg, phase, policy, onGpu, engine, staged, baseSyncDone,
                 lens, pc, global_steps, batch, request, valOut>>

(* A step with a gradient that is not finite is skipped; Megatron raises.  *)
OptimizerStep ==
  /\ pc # "raised" /\ job.call \in Updates /\ job.rows[0] # <<>> /\ AllRanksFinished
  /\ \E m \in ModelOf(job.call) :
       policy' \in {[policy EXCEPT ![m] = @ + 1]} \cup (IF cfg.megatron THEN {} ELSE {policy})
  /\ job' = [job EXCEPT !.rows = [r \in Ranks |-> <<>>], !.micro = [r \in Ranks |-> <<>>],
                         !.done = 0]
  /\ UNCHANGED <<cfg, phase, onGpu, engine, staged, baseSyncDone, rng, drawn,
                 lens, pc, global_steps, batch, request, grad, trained, valOut>>

MegatronStepFails ==
  /\ job.call \in Updates /\ job.rows[0] # <<>> /\ AllRanksFinished
  /\ cfg.megatron /\ pc # "raised"
  /\ pc' = "raised"
  /\ UNCHANGED <<workerVars, lens, global_steps, batch, request, job, grad, trained, valOut>>

FinishUpdate ==
  /\ job.call \in Updates /\ job.rows[0] = <<>> /\ job.minis[0] = <<>>
  /\ Offload(ModelOf(job.call), TRUE)
  /\ job' = NoJob
  /\ pc' = NextCall[pc]
  /\ UNCHANGED <<cfg, phase, policy, engine, staged, baseSyncDone, rng, drawn,
                 lens, global_steps, batch, request, grad, trained, valOut>>

(* save_checkpoint of the worker: load, write, offload.                    *)
BeginSave ==
  /\ pc = "save" /\ job = NoJob
  /\ job' = [call |-> "save"]
  /\ Load(ModelOf("save"), FALSE)
  /\ UNCHANGED <<cfg, phase, policy, engine, staged, baseSyncDone, rng, drawn,
                 lens, pc, global_steps, batch, request, grad, trained, valOut>>

EndSave ==
  /\ job.call = "save"
  /\ Offload(ModelOf("save"), FALSE)
  /\ job' = NoJob
  /\ pc' = "endstep"
  /\ UNCHANGED <<cfg, phase, policy, engine, staged, baseSyncDone, rng, drawn,
                 lens, global_steps, batch, request, grad, trained, valOut>>

-----------------------------------------------------------------------------
Init ==
  /\ cfg \in Configs /\ lens \in LenProfiles
  /\ WorkerInit
  /\ pc = "val_before_train" /\ global_steps = 1
  /\ batch = FreshBatch
  /\ request = NoRequest /\ job = NoJob
  /\ grad = ZeroGrad /\ trained = ZeroGrad
  /\ valOut = <<>>

Rollout == SendPrompts \/ SwitchMode \/ Generate \/ LeaveRollout \/ ReceiveResponses
Driver == BalanceBatch \/ ComputeReward \/ ComputeAdvantage \/ SkipActorUpdate \/ EndStep
Compute == StartCall \/ Forward \/ FinishCall
Train ==
  \/ StartUpdate \/ BeginMiniBatch \/ ForwardBackward
  \/ OptimizerStep \/ MegatronStepFails \/ FinishUpdate
Save == BeginSave \/ EndSave

(* After the last step fit returns; a worker's exception ends it.          *)
Finished == pc \in {"done", "raised"} /\ UNCHANGED vars

Next == Rollout \/ Driver \/ Compute \/ Train \/ Save \/ Finished

Spec == Init /\ [][Next]_vars

-----------------------------------------------------------------------------
(* Properties *)

(* Whatever a worker group, an engine or the reward function computes for  *)
(* a row is joined to that row, through the driver's reordering, the split *)
(* over ranks and the rearranging into micro-batches; a validation keeps   *)
(* its rows in order and drops exactly the padding (union by position in   *)
(* fit and _validate).                                                     *)
ColumnsAligned ==
  /\ \A i \in DOMAIN batch, c \in Columns :
       batch[i][c] # NoCell => batch[i][c].of = batch[i].id
  /\ Len(batch) = Len(lens) /\ {batch[i].id : i \in DOMAIN batch} = Ids
  /\ valOut # <<>> => [i \in DOMAIN valOut |-> valOut[i].of] = Positions(ValRows)

Position(i) == CHOOSE p \in DOMAIN batch : batch[p].id = i
ScoreOf(i) == batch[Position(i)].score

(* A response in another language than the one asked for gets nothing; and *)
(* two responses in the languages asked for that are equally far above the *)
(* average similarity of their pair of languages get the same score, so no *)
(* language is easier to be rewarded in (calibrate_anchor_to_ref_cosine,   *)
(* after the reordering and in chunks).                                    *)
Excess(i) == LET r == Responses[i] IN r.sim - PairStats[{r.truth, r.appears}].mean
Calibratable(i) ==
  LET r == Responses[i]
  IN  LanguageMatches(r.appears, r.asked) /\ {r.truth, r.appears} \in DOMAIN PairStats

ScoresFair ==
  pc = "old_log_probs" /\ job = NoJob /\ ~cfg.rm =>
    \A i, j \in Ids :
      /\ Responses[i].appears # Responses[i].asked => ScoreOf(i) = 0
      /\ Calibratable(i) /\ Calibratable(j) /\ Excess(i) = Excess(j) => ScoreOf(i) = ScoreOf(j)

(* Over the rollouts of a prompt, wherever they are in the batch, the      *)
(* advantages cancel, weighted by length for OPO; pass@k gives a lead only *)
(* to a best row.  Whitened ones cancel over the batch, not over a prompt. *)
PeersCancel(peers, adv) ==
  IF cfg.adv = "grpo_passk"
    THEN \A i \in peers : /\ adv[i].num >= 0
                          /\ adv[i].num > 0 => ScoreOf(i) = Max({ScoreOf(j) : j \in peers})
    ELSE LET weight(i) == IF cfg.adv = "opo" THEN Cardinality(Generated(i)) ELSE 1
         IN  SumOf([i \in peers |-> weight(i) * adv[i].num], peers) = 0

OrderKept(peers, adv) ==
  \A i, j \in peers : /\ adv[i].den = adv[j].den
                      /\ ScoreOf(i) >= ScoreOf(j) /\ cfg.adv # "grpo_passk" =>
                           adv[i].num >= adv[j].num

(* The advantage of a generated token: the discounted temporal differences *)
(* of the tokens generated from there on, as if nothing lay between them.  *)
NextValueIn(i, t) ==
  LET after == {u \in Generated(i) : u > t}
  IN  IF after = {} THEN 0 ELSE TokenValues[i][Min(after)]

(* The powers of gamma * lam.                                              *)
Discount[k \in Nat] == IF k = 0 THEN 1 ELSE Gamma * Lam * Discount[k - 1]

DiscountedDifferences(i, t) ==
  LET later == {u \in Generated(i) : u >= t}
      between(u) == Cardinality({w \in Generated(i) : t <= w /\ w < u})
      difference(u) == TokenRewards(i, ScoreOf(i))[u] + Gamma * NextValueIn(i, u) - TokenValues[i][u]
  IN  SumOf([u \in later |-> Discount[between(u)] * difference(u)], later)

(* The advantages the updates use compare a response with the rollouts of  *)
(* its own prompt, and under GAE do not see the tokens that tools and      *)
(* users put in between (compute_advantage after _balance_batch).          *)
AdvantagesComparePeers ==
  pc = "update_actor" /\ job = NoJob =>
    LET adv == [i \in Ids |-> batch[Position(i)].advantages]
        peers(i) == {j \in Ids : Uid(j) = Uid(i)}
    IN  \A i \in Ids :
          IF cfg.adv = "gae"
            THEN \A t \in Generated(i) : adv[i][t] = DiscountedDifferences(i, t)
            ELSE /\ Cardinality(peers(i)) > 1 /\ cfg.adv # "reinforce_plus_plus_baseline" =>
                      PeersCancel(peers(i), adv)
                 /\ OrderKept(peers(i), adv)

(* When an update ends, every row has been in ppo_epochs micro-batches, on *)
(* one data parallel rank each time (update_policy, update_critic).        *)
EachRowTrained ==
  job.call \in Updates /\ job.rows[0] = <<>> /\ job.minis[0] = <<>> =>
    \A i \in Ids : trained[i] = cfg.epochs

(* At each optimizer step every row of the mini-batch has the same weight, *)
(* one over ppo_mini_batch_size, however the rows fell into micro-batches; *)
(* rows of other mini-batches have none (loss_scale_factor, sequence-mean  *)
(* aggregation).                                                           *)
EqualWeights ==
  job.call \in Updates /\ job.rows[0] # <<>> /\ AllRanksFinished =>
    \A i \in Ids :
      grad[i] = IF \E r \in Ranks : i \in ToSet(job.rows[r]) THEN Unit ELSE 0

(* The engine answers with the weights the actor has now: that is what     *)
(* rollout_mode and update_weights are for.                                *)
GeneratesWithCurrentPolicy ==
  request # NoRequest =>
    \A i \in DOMAIN request.output : request.output[i].by = policy["actor"]

(* When the actor's update begins, the responses and the old log-probs are *)
(* of the policy about to be updated, and the reference log-probs of the   *)
(* policy training began with (compute_log_prob, compute_ref_log_prob).    *)
PoliciesMatch ==
  pc = "update_actor" /\ job = NoJob =>
    \A i \in DOMAIN batch :
      /\ batch[i].responses.by = policy["actor"]
      /\ batch[i].old_log_probs.by = policy["actor"]
      /\ batch[i].ref_log_prob.by = 0

(* What is configured to be offloaded is off the GPU whenever the KV cache *)
(* is on it; the engine sleeps while a worker group computes or trains if  *)
(* its cache is to be freed; and whatever computes has its parameters, and *)
(* whatever trains its optimizer, on the GPU (load and offload calls of    *)
(* fsdp_workers.py).                                                       *)
MemoryShared ==
  /\ engine.kv /\ cfg.freeCache =>
       \A m \in Modules : /\ cfg.paramOffload => ~onGpu[m].params
                          /\ cfg.optOffload => ~onGpu[m].optim
  /\ job # NoJob =>
       /\ cfg.freeCache => ~engine.kv /\ ~engine.weights
       /\ \A m \in ModelOf(job.call) :
            onGpu[m].params /\ (job.call \in Updates => onGpu[m].optim)

(* Neither training nor generation ever sees a state of the generator      *)
(* twice: each continues where it stopped.  Both set out from the training *)
(* state, whatever generation was seeded with (torch_random_states and     *)
(* gen_random_states in rollout_mode and trainer_mode).                    *)
RandomnessContinues ==
  /\ rng.stream = (IF phase = "rollout" THEN "gen" ELSE "train")
  /\ rng.at = [seed |-> "train", drawn |-> drawn[rng.stream]]

(* After balancing, the total lengths of two data parallel ranks differ by *)
(* at most as many times the difference of the longest and shortest row as *)
(* ranks share their rows                                                  *)
(* (_balance_batch: "each dp rank gets similar total tokens").             *)
BalancedLoad ==
  pc = NextCall["balance"] /\ job = NoJob /\ cfg.balance =>
    LET load(r) == Total(lens, RankRows[r])
    IN  \A r, s \in Ranks :
          load(r) - load(s) <= cfg.sp * cfg.pp * (Max(Range(lens)) - Min(Range(lens)))

(* Under dynamic batching the ranks may need different numbers of          *)
(* micro-batches; still no rank waits in a collective operation for one    *)
(* that has already finished (all_reduce in rearrange_micro_batches).      *)
RanksInStep ==
  job.call \in Calls \cup Updates => AllRanksAtMicroBatch \/ AllRanksFinished
=============================================================================
