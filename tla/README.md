# A verification project for LRPO

LRPO trains multilingual language models with reinforcement learning. A driver
process (`RayPPOTrainer`, `verl/trainer/ppo/ray_trainer.py`) draws batches of
prompts, a *language router* chooses the language of each rollout, worker groups
generate responses, reward functions score them, the actor and the critic are
updated, and now and then everything is saved. This directory holds TLA+ models
of the parts of it that are hard to test, the TLC runs that check them on small
instances, and proofs of the most important results for all parameter values.
Paths below are relative to `src/`.

## How to run it

    tlc -config MCCkptAuto.cfg MCGroupedSampling          # any of the cfg files
    tlapm CheckpointedTraining_proofs.tla                 # any of the _proofs modules

`PROJECT.json` lists the runs with their properties, the source lines of each
definition (`map`), the hazards and the properties that cover them, the
theorems, and for each checked property a *mutant*: a plausible bug in one
definition under which that run reports the property as violated. The mutated
operators stand directly before the definition they replace, under a comment
that begins with "Mutation".

## Inventory

### The system

One driver process runs `RayPPOTrainer.fit` as a sequential thread. It calls the
worker groups of the roles (actor/rollout, critic, reference, reward model)
through Ray; a call is split over the ranks (dispatch), waited for, and its
results are put together (collect). Rollouts go through a rollout engine (vLLM
or SGLang), in agent mode through an `AgentLoopManager` with concurrent request
coroutines, which may call tools. Rewards come from a reward manager. State that
outlives the process is only in the checkpoint directory.

| Component | State it keeps | Operations | What is hard | What makes it correct |
| --- | --- | --- | --- | --- |
| Training loop and checkpointing (`ray_trainer.py` `fit`, `_save_checkpoint`, `_load_checkpoint`; `utils/checkpoint/`) | `global_steps`, weights, epoch, loader position, `previous_saved_paths`; on disk the directories `global_step_<n>/{actor,critic,data.pt}` and the tracker file | start, resume (three modes), train a step, rotate, save piece by piece, publish | death between any two writes, partial directories, rotation against the tracked checkpoint, restarts after the end | no step lost or applied twice, no mixing of saves, the tracked checkpoint can always be loaded, bounded loss, bounded disk |
| Language router (`ray_trainer.py:457-732`, `utils/lang_policy.py`) | step counter, buffer of rewarded rollouts, value of each arm (topic or region x language), temperature, epsilon | route a batch, buffer rewards, update arms, anneal, log | a quota per prompt over mixed batches, delayed updates, rows reordered before the rewards come, arms updated once for each region, schedules | quota kept, each rollout credited once and only to its own arm, values bounded, schedules followed |
| Grouped sampler and dataset (`utils/samplers.py`, `utils/dataset/multilingual_rl_dataset.py`) | epoch, permutation | `set_epoch`, iterate, `__getitem__` | resume in the middle of a permutation, constant 8 repeats against `rollout.n` | each prompt n times in a batch, each prompt once an epoch, across resumes |
| Batch reward manager, calibrated reward (`workers/reward_manager/batch.py`, `utils/reward_score/calibrated_rs.py`) | table of pair statistics | score a batch, calibrate, place rewards | empty responses, pairs without samples | reward on the last valid token, result in range |
| Agent loop (`experimental/agent_loop/agent_loop.py`) | heap of server counts, sticky cache, micro-batch queue, futures | choose server, generate, submit to the executor, run a micro batch, start servers | concurrent coroutines and a thread, a remainder smaller than a micro batch, restart of servers | spread of assignments, each future answered once, no waiting for ever |
| Tool agent loop (`tool_agent_loop.py`) | state of one conversation, turns, masks, messages | pending, generating, processing tools, interacting | turn and length limits, several tool answers at once | mask and ids of one length, limits kept, termination |
| SGLang rollout (`workers/rollout/sglang_rollout/`) | request states, completed count | request state machine, over-sampling, cancellation, padding | a request that finishes while it is cancelled, tools not released | exactly one result for each request |
| Tool rate limits, MCP clients (`tools/search_tool.py`, `tools/utils/mcp_clients/`) | semaphore, tokens and time | acquire, release | release without acquire, rate below one | never more than the limit, no starvation |
| Single controller (`single_controller/`), DataProto (`protocol.py`) | worker lists, batches | dispatch, collect, padding, reorder | batch sizes that do not divide | collect after dispatch is the identity, padding is removed |
| Sequence balancing (`utils/seqlen_balancing.py`) | none | partition | equal sizes together with balanced sums | a partition, sizes as asked |
| PPO algorithms, FSDP/Megatron workers, model code, other reward managers, SFT trainers, scripts, evaluation | tensors | numerical computation, file conversion | floating point | outside what a model checker can say |

Interactions: the driver calls workers and waits (no two training steps
overlap); the checkpoint manager in every worker rotates on its own list; the
dataset decides the rows the router sees; `_balance_batch` reorders a batch
between generation and reward; validation runs between training steps and goes
through the router with `is_train=False`.

`PROJECT.json` lists every component with its status and 39 hazards at their
lines, with the properties that cover them. In short:

| Part | Modules | Status |
| --- | --- | --- |
| Training loop and checkpoints | `ResumableTraining`, `CheckpointedTraining`, `TrainingStep` | partly |
| Grouped sampler, dataset order, uids | `GroupedSampling`, `Advantages` (groups) | partly |
| Language router | `LangRouter` | partly |
| Single controller, DataProto | `DispatchCollect`, `WorkerPlacement` | partly |
| Sequence length balancing | `SeqlenBalancing` | modelled |
| FSDP and Megatron workers | `HybridWorker`, `TrainingStep` | partly |
| PPO core algorithms | `Advantages` | partly |
| Batch reward manager, calibrated reward | `CalibratedReward`, `TrainingStep` | partly |
| Agent loop manager, workers, rewards | `ServerStart`, `ServerChoice`, `RewardBatching`, `AgentRollout` | partly |
| vLLM servers and engines | `ServerStart`, `HybridWorker` | partly |
| Tool agent loop | `ToolConversation`, `AgentRollout` | modelled |
| SGLang rollout | `AnsweredBatch`, `OverSampling` | partly |
| Tool rate limits and MCP client | `ToolLimits`, `AgentRollout` | modelled |
| Other reward managers, models, SFT, scripts | none | not modelled |

How the modules are composed:

    MCGroupedSampling -> GroupedSampling -> CheckpointedTraining == refines ==> ResumableTraining
    MCTrainingStep    -> TrainingStep    -> HybridWorker, Advantages, CalibratedReward,
                                            SeqlenBalancing -> DispatchCollect
    MCAgentRollout    -> AgentRollout    -> ServerStart -> WorkerPlacement,
                                            ServerChoice, ToolConversation, ToolLimits,
                                            RewardBatching -> DispatchCollect
    MCOverSampling    -> OverSampling                      == refines ==> AnsweredBatch
    MCLangRouter      -> LangRouter

The theorems are in modules of their own, which extend the module they are about:

    GroupedSampling_proofs -> CheckpointedTraining_proofs
    TrainingStep_proofs    -> SeqlenBalancing_proofs -> DispatchCollect_proofs
    AgentRollout_proofs    -> DispatchCollect_proofs
    LangRouter_proofs      -> DispatchCollect_proofs
    OverSampling_proofs

### Plan

Done, in this order:

1. `ResumableTraining`, `CheckpointedTraining`, `MCCheckpointedTraining`
2. `CheckpointedTraining_proofs`
3. `LangRouter`, `MCLangRouter`
4. `SeqlenBalancing`, `DispatchCollect`, `HybridWorker`, `TrainingStep`: one step of
   `fit` with the workers it calls
5. `ServerChoice`, `ToolConversation`, `RewardBatching`, `ToolLimits`,
   `WorkerPlacement`, `ServerStart`, `AgentRollout`, and `AgentRollout_proofs`
6. `AnsweredBatch`, `OverSampling`
7. `GroupedSampling`, `Advantages`, `CalibratedReward`
8. the refinement in `CheckpointedTraining_proofs`, `GroupedSampling_proofs`,
   `OverSampling_proofs`, `LangRouter_proofs`, `DispatchCollect_proofs`
9. `SeqlenBalancing_proofs`, `TrainingStep_proofs`
10. the lemmas about folds and sums in `DispatchCollect_proofs`, and with them
    `EachRowTrained`, `EqualWeights`, `ScoresFair` and `AdvantagesComparePeers` in
    `TrainingStep_proofs`, and `ArmsBounded` in `LangRouter_proofs`
11. `EnginesReachWorkers` in `AgentRollout_proofs`

None of the modules to be proved about declares a RECURSIVE operator; folds from
the community modules take their place.

## The training loop and its checkpoints

### `CheckpointedTraining`

The variables and what they stand for:

| Variable | Code |
| --- | --- |
| `pc` | where the driver is: in the epoch loop, deciding whether to save, in one of the steps of `_save_checkpoint`, at the end of the step, or gone (`down` died, `done` returned, `failed` raised at start) |
| `run` | how many times the program was started |
| `global_steps`, `epoch`, `pos` | `self.global_steps`, the `for epoch` loop, the batches the `StatefulDataLoader` has yielded in this epoch |
| `updates` | for each role the number of optimizer updates in its weights: all the properties need to know of a weight |
| `previous_saved_paths` | the list of that name in the checkpoint manager of each role |
| `disk` | for each piece (actor, critic, data) and step: absent, torn (a file is missing or cut short), whole, or mixed (whole files of the save below and of the one that overwrites it), with the process that wrote it and what it holds |
| `tracker` | `latest_checkpointed_iteration.txt`: a step, absent, or truncated and empty |
| `origin` | history: the process that wrote each piece that was loaded |

Starting is `StartFromScratch`, `Resume(n)` or `ResumeRaises`, from
`_load_checkpoint` and `find_latest_ckpt_path`; in mode `resume_path` the tracker
is read as well, so an empty tracker raises there too. One training step is
`TrainStep`; everything between drawing the batch and the decision to save
changes only memory that dies with the process, so it is one action. The save
sequence keeps every step that leaves a different disk behind: `Rotate` begins to
remove old directories, `WriteShards` has removed them and begins the new one,
`CommitShards` is after the last barrier. A directory that is overwritten has its files
replaced one by one, so a death may also leave one that loads (`BeingWritten`). Then the same for `data.pt`, then
truncating (`OpenTracker`) and writing (`WriteTracker`) the tracker. `Crash` is
possible at every `pc` of a running process. The condition of a save has the
expiry of the machine (`esi_close_to_expiration`) as a free choice. After a
resume the epoch counter starts at 0 again, as in `fit`.

External, modelled from how the code uses it: the data loader of torchdata. It
resumes at the position it saved, and at the end of an epoch it yields nothing
more and the loop goes to the next epoch.

### `ResumableTraining`

The promise without files: a training state is advanced step by step, is now and
then published (withdrawn for a moment, then replaced), and a process that starts
continues from exactly what was published last. `CheckpointedTraining` ends with
the refinement mapping: the state in memory is the step, the updates and the
place in the epoch; the published state is read piece by piece from the files of
the step the tracker names. That a start reads pieces of two saves, that rotation
touches a published file, or that a step is done twice would all be steps the
abstract specification does not have.

### Runs

`CkptAuto` (154 146 states, with `GroupedSampling`, below). Default mode `auto`, a critic, two checkpoints
kept, `save_freq` 2, six steps in two epochs of three batches, `critic_warmup` 2,
three starts. Three starts are needed for "save, die in the next save, resume,
die, resume" and for a start after the end; six steps give three regular saves, so
rotation happens in the first process and again in the second; three batches in
an epoch and saves at even steps make resumes fall into the middle and onto the
end of an epoch. It checks `OneLineage`,
`EpochServesEachPrompt` (which contains `DataFollowsSteps`), `TrackedIsWhole`,
`BoundedLoss`, `FinishedIsSaved`, the refinement and `RunEnds`.

`CkptModes` (about 237 000 states). Every start may use any of `auto`, `disable`
and `resume_path`, on the same directory, and the actor keeps a single
checkpoint. Here saves overwrite earlier ones, so pieces of different processes
do meet in one directory; `NoStepLostOrRepeated` (here the harder case), `PublishOnlyWhole`,
`RetentionPerRun` and `OvershootBound` hold nevertheless. `OneLineage` and
`TrackedIsWhole` are not claimed for these modes: a process that starts from
scratch over old directories and dies between two pieces leaves a mixture, which
`resume_path` would load.

Deadlock is not checked in the checkpointing runs: after the last of `MaxRuns`
starts the system stops.

Bounds: `TotalSteps`, `Epochs`, `BatchesPerEpoch`, `SaveFreq`, `MaxRuns` in the
cfg files. `global_steps` needs no other bound, because every start passes
`TotalSteps` at most once (`OvershootBounded` is a theorem).

Fairness. `FairSpec` (and `SampledFairSpec`, which `CkptAuto` runs) adds weak
fairness of the steps of a running process: the driver is one
sequential thread and a call that raises or never returns is a crash. Nothing is
assumed of starts or crashes. With it `RunEnds` holds: no resumed position and no
epoch boundary leaves the loop without a next step.

### `GroupedSampling`

Which rows the steps train. The dataset repeats a prompt `Repeats` times, the
sampler draws base indices in the order of a seeded permutation, takes
`RolloutN` neighbouring rows for each, and drops what does not fill a batch;
`fit` sets the sampler's epoch and the loader goes on at the position in
`data.pt`. The module extends `CheckpointedTraining`: `ServeBatch` is its
`TrainStep` with the rows of the batch, and `StartSampling` a start, after which
the weights contain what was trained up to the loaded step. The history variable
`served` holds the rows of the steps in the weights and the start that trained
them. The permutation of an epoch is a constant: any bijection.

`EpochServesEachPrompt` says that along the steps that made the weights no pass
over the data trains a prompt twice, however often the process died, and that the
groups of a batch are whole. It claims this across resumes for the first pass
only. After a resume in a later pass `fit` counts epochs from 0 again, so the
saved position is applied to the permutation of epoch 0: prompts are repeated and
others missed. That is in the hazards (`ray_trainer.py:1299`); nothing in the
documents contradicts it. The instance has 7 prompts with 2 repeats and groups of
2 in batches of 4: three batches an epoch and one group that is dropped.

### Where the code departs from what it says

Three runs are expected to find a violation.

- `CkptKeepOne`. With `max_actor_ckpt_to_keep=1` the only directory is removed
  before the new one is written and before the tracker moves
  (`fsdp_checkpoint_manager.py:204-214`). A death in between leaves a tracker that
  names a torn checkpoint. `ray_trainer.py:1142` calls the tracker "for atomic
  usage" and lines 1111-1112 advise this setting. With mode `auto`, `TrackedIsWhole` is proved for
  every other limit.
- `CkptRetention`. `previous_saved_paths` starts empty in each process
  (`checkpoint_manager.py:59`), so after a restart more than `max_ckpt_to_keep`
  checkpoints stay on disk; the docstring says "keeping at most
  `max_ckpt_to_keep`". `RetentionPerRun` is what does hold.
- `CkptTracker`. The tracker is rewritten in place. A death between `open(.., "w")`
  and the write leaves it empty, and `int("")` raises at every later automatic
  start, although whole checkpoints exist.

### What is proved

For every value of the constants that satisfies `ConstantsAssumption`:

- `TypeCorrect`: `Spec => []TypeOK`. `TypeOK` is not inductive. `TypeInv` adds
  `RunBound` (a running process belongs to a start, and has passed the total by
  less than the number of starts), `DiskBound` (no file of a step lies beyond what
  the starts so far can have reached; a resume begins one step after a file) and
  `PathsBound` (the remembered paths are such steps).
- `OvershootBounded`: `Spec => []OvershootBound`, from `RunBound`.
- `NoStepLost`: `Spec => []NoStepLostOrRepeated`, in every resume mode.
  `CountInv` says it of the memory at every `pc`, not only at the head of the
  loop, and of every directory on disk that loads, the mixed ones included; the lemmas `RotateDisk`,
  `WriteShardsDisk`, `CommitDisk` and `WriteDataDisk` say what each action does to
  one directory.
- `PublishesOnlyWhole`: `Spec => PublishOnlyWhole`. `DoneInv` says that the pieces
  the save sequence is past (`Done`, a function of `pc` and `saving`) are whole and
  by this process; no action before `WriteTracker` touches a piece in `Done`.
- `TrackedAlwaysWhole` and `OneLineageAlways`, under the assumption
  `SafeRetention`: resume mode `auto`, and no role limited to one checkpoint.
  `TrackInv` is the inductive invariant. Its heart is `PathsInv`: among the paths a
  manager remembers only the newest can be the tracked one, and rotation with a
  limit of two or more never takes the newest (`TrackedNotVictim`). For a limit of
  one this is exactly what fails in `CkptKeepOne`. `TrackerBehind` is needed so
  that the directory that is being written is never the tracked one.
- `RetentionHolds`: `Spec => []RetentionPerRun`, in every resume mode and for every
  limit. `ListInv` says that the directories a process has completed are among the
  paths it remembers, and that these are as few as the limit allows in each phase of
  the save; a set of list entries is no larger than the list (`SeqImage`). `ByInv`
  says that nothing on disk is from a later start, so a new process owns nothing.

Under `SafeRetention`, from `RecoveryInv`, whose conjuncts are proved one by one:

- `LossBounded`: `Spec => []BoundedLoss`. `LossInv` counts from the tracker to the
  last step the frequency has asked to save, at each `pc`.
- `FinishedAlwaysSaved`: `Spec => []FinishedIsSaved`. `PositionInv` relates the step
  to the epoch and the position, so that the data can only run out early when there
  is too little of it; `LastSavedInv` says that the last step is saved before `done`.
- `FilesImplementResumable`: `Spec => ImplementsResumableTraining`. The files the
  tracker names are frozen: rotation, partial saves and deaths leave `PublishedState`
  alone (`PublishedStays`), a start reads it (`StartContinues`), a training step
  advances it (`TrainAdvances`), and `WriteTracker` replaces it by the state in memory
  (`TrackerPublishes`, which needs `CountInv` for the weights and `DataInv` for
  `data.pt`). `ReadableInv` says that the tracker is empty only inside its own rewrite.

`GroupedSampling_proofs` proves about the data, from `SamplerAssumption` and under
`SafeRetention`:

- `PositionFollows`: the position in the loader moves with the step counter
  (`DataFollowsSteps`). `FollowInv` says it of the memory and of every whole `data.pt`.
- `PassesServeOnce`: `SampledFairSpec => []EpochServesEachPrompt`, if prompts are
  repeated as often as they are rolled out (`OwnGroups`). The code repeats 8 times
  whatever `rollout.n` is, and the script of the repository sets it to 8; with another
  value a batch has parts of groups or several groups of a prompt, and the property
  is false. `ServedInv` is inductive: the steps in the tracked checkpoint and in memory
  are known (`KnownInv`), steps of the first pass are from the first order
  (`OrderInv`), and what one process trained in one pass is from one order
  (`SameOrderInv`, by `RunInv`: the sampler of a resumed process is the same number of
  epochs behind in every pass). The rest is about the batches: the groups of a batch
  are a segment of the order (`SlotRange`), the rows of a prompt an interval
  (`GroupRows`), and two batches of one order have no prompt in common
  (`BatchesApart`), since the order has none twice.

Only model-checked: `RunEnds` (liveness under fairness is beyond the prover).

### Left out

HDFS copies and `del_local_ckpt_after_load`; `val_only`; the profiler;
`RolloutSkip`; the asynchronous save of Megatron; the clock arithmetic of
`should_save_ckpt_esi`. The shards of the ranks count as one directory, complete
when all ranks have passed the last barrier.

## The language router

### `LangRouter`

`RouteBatch` is `_maybe_apply_lang_policy` for a training batch together with the
annealing before it: rows with a fixed language (translations) keep it, the first
`OrigLangMin` free rows of each prompt keep their original language, the others
are sampled. `RouteRaises` is the same call when sampling is needed and there is
no policy. `Validate` is the pass through the router with `is_train=False`.
`RewardBatch` is `_update_lang_policy`: the rows arrive in any order (after
`_balance_batch`), each with any reward, are buffered, and when the buffer is due
they are aggregated by (topic, region, language), normalised in each (topic,
region) group, and moved into the arms in the order of the dict. `Restart` builds
the router anew: nothing of it is in a checkpoint.

Abstractions, and why they keep what the properties tell apart: sampling may
return any language, since the softmax gives each one a positive probability;
values are integers in a unit in which means and moving averages of centered rewards
are exact in the instance; z-scores, which need a square root, are rounded towards
zero (`Root`, `ZScore`), and `lang_policy_group_norm_eps` counts as infinitely small. A
row without topic or region is credited to a key of its own, as in the code; decays are one over an integer. The JSONL log and the image-processor branch are
left out. `MaxSteps` bounds the reward steps of one process.

### Runs

`RouterRouting` (1 478 states). A batch that mixes the rollouts of two prompts, and one that mixes
translations with routed rows, and one of a single prompt without region; with and without policy; validation and restarts
between steps; `update_every` 2, so that three steps cross an update. It checks
`OrigLangKept`, `BufferMatchesSteps` and `AnnealOnlyCools`.

`RouterUpdates` (120 592 states). Two updates, each of two batches, with every
choice of three languages, rewards and row orders; a prompt whose label names two
regions, prompts about one region, and translations, one of them beside a prompt with no
label at all; priors below zero; centered rewards and z-scores. Three languages are the least for which a z-score
exceeds one. It checks `ArmsBounded`, `CreditWhereDue` and `NeutralUpdate`.

`RouterEpsilon` is expected to find a violation: with a constant temperature
`_maybe_update_lang_policy_temperature` returns at line 507, before it comes to
epsilon, so the documented options `lang_policy_epsilon_init` and
`lang_policy_epsilon_decay` have no effect and epsilon stays at
`lang_policy_epsilon`.

No fairness is assumed and no liveness is claimed: each call of the router returns.

### What is proved (`LangRouter_proofs`)

For every set of batches, languages and rewards, every quota and update interval that
the module's assumptions allow:

- `OriginalsKept`: `Spec => []OrigLangKept`. `RouterInv` says that a batch in its
  rollout is a batch of the data with languages from `Languages`; the first free rows
  of a prompt are counted by their position, and are therefore the same rows in the
  guard of the sampling and in the property.
- `BufferComplete`: `Spec => []BufferMatchesSteps`, from arithmetic on the interval
  (`ModNext`) and from the entries of a batch being as many as its rows.

- `ArmsStayBounded`: `Spec => []ArmsBounded`. What a reward step adds to the buffer is of
  rows of the batch (`RewardEntries`); the credits of such entries are in `CreditSet`
  (`CreditsOfType`, `CreditsType`); a dict of them has each key once and all keys
  (`AggKeysComplete`); a mean of rewards lies between the least and the greatest reward
  and a mean of means too (`MeanRewardWithin`, `GroupMeanWithin`), so a centered credit
  is within the range of the rewards. A z-score of n values is at most the root of n - 1:
  the square of one deviation is at most n - 1 times the sum of the squares of the others,
  because the deviations sum to zero (`LargestSquare`, from `SquareOfSum`, an induction
  over the group), and the integer root grows with its argument (`RootIs`, `RootGrows`,
  `ZScoreWithin`). So each normalised credit is within `CreditBound` (`CreditWithin`); a moving average stays in an interval that
  holds both its arguments (`MovedWithin`), the same interval for every key and step. The
  inductive invariant is `ArmsInv`: the arms are in `BoundedArms` and the buffer holds
  credited entries only.
- `CreditIsDue`: `Spec => CreditWhereDue`, with the same invariant. A set of arms kept by
  the update of every key is kept by the whole fold (`FlushedStays`, `UpdateStays`); the
  set is `DueArms`, the arms that differ from those before the step only where a waiting
  row is credited (`KeyIsDue`, `UpdateStaysDue`).
- `SchedulesOnlyCool`: `Spec => AnnealOnlyCools`. `ScheduleInv` says which step the
  temperature in force belongs to in each phase; a larger power of the divisor gives no
  larger quotient (`LargerDivisor`, `AnnealedFalls`). The provers know nothing of `^`:
  `PowersAssumption` states its two recursion equations for the two divisors, and TLC
  evaluates it on every run of the module.

The update folds a LAMBDA over a sequence or a set. The provers cannot instantiate a
lemma with an operator, but they can expand the community modules' definition of the
fold, which is the value of a recursive function that CHOOSE picks. That the function
exists is proved once, by induction over subsets (`FoldExists`, `SubsetInduction` in
`DispatchCollect_proofs`), and for each fold of the model it is shown that its function
is the one the lemmas are about.

Only model-checked: `NeutralUpdate`. It is exact arithmetic on the values of an
instance: in another unit the divisions of the means leave remainders and the credits do
not sum to zero.

### Observations made while modelling

Not contradicted by any document, therefore no findings:

- A row without topic or region is credited to an arm with the key `"None"` or `"[]"`;
  sampling never reads that arm, because it looks up nothing then.
- With the router off and `lang_policy_orig_lang_min > 0`, the first batch with a
  free row beyond the quota raises `AttributeError` (action `RouteRaises`).
- Router step, buffer, arms and schedules are in no checkpoint: after a resume
  the weights continue, but annealing and the arms start over.
- A topic credited with several regions is moved once for each of them in one
  update, so its arm depends on the order of the rows (`ArmsBounded` holds in each
  order).
- A language that was tried alone in its group gets the normalised credit 0, so
  its arm decays towards 0 whatever the reward was.
- After a resume in a later epoch `set_epoch(0)` rebuilds the permutation of epoch
  0, while the loader's position belongs to another permutation.
- The dataset repeats each prompt 8 times whatever `rollout.n` is.

## One training step

### `TrainingStep` and its parts

`TrainingStep` is the body of the loop of `fit` between drawing a batch and
writing a checkpoint, with the worker groups it calls. A row of the batch is a
prompt with its response; it carries a cell for each column, and a cell says for
which row it was computed (`of`) and by which policy (`by`, the number of
optimizer steps in the weights). So a wrong permutation, a forgotten padding row,
a stale engine and an adapter left enabled all become visible in a cell.

| Module | Stands for |
| --- | --- |
| `DispatchCollect` | `DataProto.chunk`, `split`, `reorder`, padding and unpadding; `dispatch_nd_compute` and `collect_nd_compute_dataproto` over the device mesh of FSDP and over Megatron's, where tensor parallel ranks are inner, pipeline stages outer, and one rank of each group collects |
| `SeqlenBalancing` | Karmarkar-Karp with equal and unequal sizes, the micro-batches under a token budget, the number all ranks agree on, restoring the order |
| `HybridWorker` | the worker process: parameters and optimizers loaded and offloaded, `rollout_mode` in the steps that leave another GPU state behind, `trainer_mode`, the weights in the engine, adapter or base, the swapped random states, reached from the `trainer_mode` that follows `init_model`; the reference model, which Megatron moves by hand; Megatron's order of the same steps in actions of their own |
| `Advantages` | the estimators gae, grpo, grpo_passk, reinforce_plus_plus_baseline, rloo, opo, gpg in exact arithmetic |
| `CalibratedReward` | `compute_score_batch`: similarity, its correction by the mean of the pair of languages, the language gate, the chunks |
| `TrainingStep` | the driver's order of calls, the union of each result, balancing, the micro-batches and mini-batches of the ranks, gradients by row weight, optimizer steps, warmup, saving |

`pc` is the call the driver is at (`NextCall` is the order in `fit`), `request`
what was sent to the engine, `job` the call the ranks execute: rows, micro-batches
and progress. `grad` is the weight of each row in the accumulated gradient and
`trained` how often a row was used in this update. A Megatron step that reports no
success raises (`MegatronStepFails`), where FSDP only warns and goes on.
`MegatronAssumption` restricts the Megatron instances to fixed micro-batches that
divide a mini-batch, since its schedule takes the plain mean over micro-batches, and to
context parallelism of one.

What is kept and what is not. Ranks run in lockstep, micro-batch by micro-batch,
since sharded parameters are gathered by all of them; that they need the same
number of micro-batches is not assumed but checked (`RanksInStep`, and TLC's
deadlock check). An optimizer step with a non-finite gradient norm may be skipped.
`Unit` (12) makes the weights exact. Lengths are positive, since the agent loops
and vLLM return at least the end token. Gamma and lambda are integers in the
instance so that GAE is exact. The division by a standard deviation is left out: it
keeps order and zero sums of what it scales. So is the whitening of the
REINFORCE++ baseline, which takes the mean of the whole batch from each advantage: it
keeps their order, but they cancel over the batch and not over a prompt, which
`AdvantagesComparePeers` does not claim for it. The similarity of
two texts and the prediction of a language are neural models, hence external.
With a reward model its scores are taken as they are; it is external too.

### Run `TrainStep` (281 129 states)

One validation of three rows (padded to the number of ranks), then two steps of
four rows, for every length profile over {1, 2, 4} and seven configurations: (1)
dynamic micro-batches, critic, GAE and a reward model; (2) two ranks that share
sequences, mini-batches of 3 that do not divide the batch, pass@k; (3) Megatron on
four ranks with two pipeline stages, two shuffled epochs, fixed micro-batches of one
row, GRPO with n = 3; (4) LoRA
with layered summon, reference in the actor, RLOO; (5) agent mode, everything
resident but the optimizer; (6) an engine that keeps its cache, OPO with one group
of four; (7) four ranks, GPG. Two steps are the least after which stale engine
weights, a second use of a random state and the warmup of the actor can show. The
agent mode runs with as many agent loop workers as ranks.

The properties: `ColumnsAligned` (results belong to the rows they are joined to,
through balancing, dispatch, padding and micro-batching), `ScoresFair`,
`AdvantagesComparePeers` (groups found by uid wherever balancing put their rows;
GAE does not see observation tokens), `EachRowTrained`, `EqualWeights`,
`GeneratesWithCurrentPolicy`, `PoliciesMatch`, `MemoryShared`,
`RandomnessContinues`, `BalancedLoad`, `RanksInStep`. All are safety properties; no
fairness is assumed.

The configurations leave out two in which `GeneratesWithCurrentPolicy` fails, see
the observations: an adapter with sleep level 2 and without layered summon, and
agent mode with an engine that keeps its cache.

### What is proved (`TrainingStep_proofs`, `SeqlenBalancing_proofs`, `DispatchCollect_proofs`)

For every set of configurations and length profiles that satisfies the modules'
assumptions:

- `MemoryIsShared`: `Spec => []MemoryShared`. `FlowInv` says which phase of the engine,
  which call and which job go together; `MemInv` says which parameters and optimizer
  states are on the GPU for exactly as long as a call needs them (`Needed`).
- `RandomnessIsContinued`: `Spec => []RandomnessContinues`, if the engine is woken
  (`EngineWoken`: no configuration keeps the cache in agent mode). `RngInv` says where
  each of the two random states is in each phase, and that both come from the training
  state: the generation state is seeded by rank, and replaced by the first `trainer_mode`.
- `GenerationIsCurrent`: `Spec => []GeneratesWithCurrentPolicy`, under `EngineWoken` and
  `AdapterSurvives` (no adapter is sent to an engine that discards its base weights
  whenever it sleeps). `WeightsInv` follows the weights from the actor through the
  summoned and staged copies to the engine. The two assumptions exclude what the first
  two observations below describe, where the property is false.
- `RowsKeepTheirData`: `Spec => []ColumnsAligned`. `DataInv` says that the batch has each
  row once and each cell belongs to its row (`BatchOK`), that the engine answers the
  prompts that were sent, in their order (`AnswerInv`), which columns are filled at
  which call (`FilledInv`), and what the micro-batches of a running call are
  (`ComputeInv`: they cover the rows of their rank). The way of a row is then one
  chain: balancing permutes (`BalancedOK`, from `PartitionsCover`), the mesh dispatches
  and collects in order (`CollectedInOrder`), a rank puts its micro-batches back
  (`RestoredInOrder`), and the union leaves other columns alone (`UnionOK`).
- `ComparesItself`: `Spec => []PoliciesMatch`, under `EngineWoken` and `AdapterSurvives`.
  `PolicyInv` says with which weights each column is filled after its call.
- `RanksTogether`: `Spec => []RanksInStep`. `StepsInv` says that the ranks have as many
  micro-batches, are as far in them, and have the same sizes of mini-batches still
  before them. With dynamic micro-batches the number is agreed on (`AgreedWithin`), and
  no rank has fewer rows than that; with fixed ones it is the size that is the same.
- `LoadIsBalanced`: `Spec => []BalancedLoad`. A data parallel rank gets `sp * pp`
  consecutive parts of the balanced order, whose sums pairwise differ by no more than
  `PartitionsCover` says; sums over stretches of the rows are differences of the partial
  sums (`StretchesNear`).
- `RowsAreTrained`: `Spec => []EachRowTrained`. `RoundsInv` says of each collecting rank
  and each row it was dispatched that the times it was trained, and the times it still
  occurs in the micro-batch, the rows and the mini-batches at hand, add up to the number of epochs; that
  the mini-batches of an epoch have each row once, shuffled or not, makes it so when an
  update starts (`ToDo`, `EpochsKept`).
- `WeightsAreEqual`: `Spec => []EqualWeights`, under `MicroBatchesFill`. `GradInv` says
  that the ranks that share their data (`Twins`) have the same rows, and that `grad` of a
  row of the mini-batch is `Unit` once it was in a micro-batch, and 0 before
  (`Given`): the mean over a micro-batch and the factor on its loss cancel
  (`WeightIsUnit`), for dynamic micro-batches because the factor is their share of the
  mini-batch, for fixed ones because they are full. Of `MicroBatchesFill` the workers
  assert the half about mini-batches (`fsdp_workers.py:251`, 1151); nobody asserts it of
  a batch that the mini-batches do not divide, and there the last rows do get another
  weight (see the observations). `MCTrainingStep` assumes it, so TLC evaluates it on the
  instance.
- `ScoringIsFair`: `Spec => []ScoresFair`. `ScoredInv` says that after the reward's call
  each row has the score that its own response deserves (`FairScore`), which mentions
  neither the batch nor the chunk: the chunks put together are the batch
  (`SplitFlattens`), so the batch is scored response by response (`ScoreBatchIs`). Two
  responses with the same similarity above the mean of their pairs are then clamped and
  gated alike (`AlikeScored`). It uses that `K_SHRINK` is 0, so that the mean of a pair
  is taken whole however rare the pair is.
- `PeersAreCompared`: `Spec => []AdvantagesComparePeers`. `AdvancedInv` says that scores are
  integers from the reward's call on, that values are a row's own from the critic's call on,
  and that during the updates the advantages are those `AdvantageAt` computes from the
  columns of the batch, whichever other columns are filled meanwhile. What remains is
  about the estimators. Each one for outcomes turns a score s into a * s - b with a natural a
  and b the same over a group (`Centred`), where a times the weighted sum of the scores is b
  times the sum of the weights, so advantages cancel (`CentredCancels`) and are in the
  order of the scores (`CentredOrders`). A group is a set of positions of the balanced batch and
  the peers are rows; the sum is carried from one to the other along the bijection
  between them (`SumMoved`). Pass@k leads with the best score only if it is the best
  (`LeadersCompared`). For GAE the fold over the tokens is followed from the last one
  (`GaeFollows`), and the discounted differences, summed over the generated tokens from t on, satisfy the
  same recurrence (`TakenUp`, `PassedOver`), so the two agree (`GaeIsDiscounted`).
- `PartitionsCover`: the largest differencing method puts each index into exactly one
  part, for any lengths and any order in which equal states leave the heap; with equal
  sizes the parts are as long as each other, and no two sums differ by more than the
  longest and the shortest item do. The invariant of the merges (`HeapOK`) says that the
  states on the heap share the indices among them, that sets are in decreasing order,
  and that the spread of a state is bounded; that a merge keeps the bound is where the
  largest set must meet the smallest. `RestoredInOrder` inverts the order of
  the micro-batches.
- `CollectedInOrder`: what the ranks of a mesh compute row by row on what was
  dispatched to them comes back in the order of the batch, for each mesh in which the
  collecting ranks have the data parallel ranks in order; FSDP meshes and the meshes of
  Megatron are such meshes. Places in parts and in the whole are related by division
  with remainder.

Sums over finite sets are folds of the community modules. `DispatchCollect_proofs` proves
what is needed of them without an operator as an argument: a fold over subsets exists
(`FoldExists`), a sum splits off any element, and it is moved along a bijection.

`AdvantagesAssumption` says that GAE is configured with a critic (it reads the column
`values`, and stops where that is missing; `need_critic`, `trainer/ppo/utils.py:54`), that a mask has only 0 and 1, and that values,
gamma and lambda are integers, which makes GAE exact. `StatsAssumption` says that there are finitely
many pairs of languages, each with a positive count and an integer mean.
`RowsAssumption` is what the code asserts of its sizes: a batch divides by the number of
data parallel ranks (`protocol.py:765`) and of engines, a balanced one by the number of
ranks (`seqlen_balancing.py:102`), and a mini-batch has rows for each rank
(`fsdp_workers.py:236-242`). A batch for which they fail stops the program at once.

Every property that run `TrainStep` checks is thereby a theorem; what the run adds is
that the assumptions have instances in which the interesting cases happen.

### Observations

None of these contradicts a document, so none is a finding.

- LoRA on vLLM with sleep level 2 and without layered summon: `base_sync_done` is
  false after every generation (`fsdp_workers.py:613-619`, 647, 683), so only base
  weights are sent and the adapter never reaches the engine.
- In agent mode with `free_cache_engine=False` both `generate_sequences`
  (`agent_loop.py:861`) and `wake_up` (`vllm_async_server.py:374`) do nothing, so
  the weights are never sent to the engine.
- `vLLMAsyncRollout.update_weights` ignores `peft_config`.
- The seed of the generation random state, offset by rank, is overwritten by the
  first `trainer_mode` (`WorkerInit`), so generation draws from the training seed.
- Automatic padding of a dispatch pads the caller's batch in place, while the
  output is unpadded.
- Dynamic micro-batches may exceed `max_token_len`; it bounds their average.
- With fixed micro-batches a mini-batch that is not full gives its rows another
  weight, and `token-mean` aggregation weighs the tokens of micro-batches
  unequally. (`EqualWeights` is stated for sequence-mean aggregation, and proved under
  `MicroBatchesFill`.)
- Megatron weighs every micro-batch alike, so with dynamic micro-batches, or a last
  short one, rows count unequally in the gradient.
- The Megatron critic masks its value loss with a part of the attention mask
  instead of the response mask, so it also trains on observation tokens.
- A `_validate` that returns `{}` trips `assert val_metrics` in `fit`.
- A row alone in its group (n not a divisor of the 8 repeats, or n = 1) has its raw
  score as GRPO, RLOO and OPO advantage.
- REINFORCE++ resets the running return at observation tokens, so earlier turns of
  a multi-turn response get no credit.
- The dataset draws uids in each copy of it; they agree within a batch because one
  loader worker fetches a whole batch.
- `compute_score` calibrates with the routed language and has no language gate;
  `compute_score_batch` uses the language in `extra_info` and has one. Pairs
  without statistics are neither corrected nor clamped. A pair with count 0 divides
  by zero, because `K_SHRINK` is 0; the model assumes positive counts.

## Agent loops

### `AgentRollout` and its parts

Before the first batch, `WorkerPlacement` puts the workers of the resource pools on
nodes: the driver's check, then one placement group after the other on any node with
room (Ray, external), then ranks and actor names in the order of the nodes' addresses.
`ServerStart` is the loop that starts a server for each data parallel rank until all
have told an address. `server_ready` is set when the application's lifespan begins, so
a server whose port turns out to be in use has three ways to go: it exits before the
manager has its address and is started again, or it exits later, which makes
`init_engine`, `wake_up`, a request or `sleep` raise. An engine finds its workers by
name. The modelled lookup is vLLM's; SGLang's computes the same numbers.

`AgentLoopManager.generate_sequences` divides a batch over workers; each runs an
agent loop for each row, all at once. `ServerChoice` is the heap of counts and the
LRU cache of `AsyncLLMServerManager`, one for each worker. `ToolConversation` has an
operator for each handler of `ToolAgentLoop` (and the single turn loop), which
gives the conversation after it; a token is known by who wrote it. `RewardBatching`
is the way of a row to its reward: the worker's `RewardManagerWorker` puts the row
on a thread of the default pool, the thread submits it to the `BatchExecutor` and
waits, the executor collects rows until their number is a multiple of the ranks of
the reward model, runs the batch, and hands the results to the futures. `ToolLimits`
is where the up to `max_parallel_calls` tool calls of one turn are: a search call
waits for a thread of its worker's pool, then for a permit of the semaphore that all
workers share, and its release is only sent, to be executed some time later; an MCP
call waits for a token of its worker's bucket, which is counted in halves because it
fills up by fractions. `AgentRollout` composes them; the manager raises if a row has failed. The handlers
are atomic between their awaits, since they are coroutines of one event loop;
interleaving happens at the engine, the tools, the users, the threads and the
executor. A turn goes on when all its calls are done (`CallTools`, `CallStep`,
`ToolStep`, `ToolsAnswer`). `EngineAnswers`, `ToolsAnswer` and `InteractionAnswers` return any answer
of the configured lengths, the engine no more than the model's length leaves room for.

What fails: a server that is gone or a prompt as long as the model's length, a batch of
the reward model, a reward function, an interaction, a tool when it is released or that
answers with what is no text; each fails its row, and with it the call (`Raises`,
`RaiseRound`). Any other failure of a tool, and a call that cannot be parsed, becomes a
text answer. A batch that the ranks of the reward model do not divide is refused
whenever the manager was given one, also if the driver asks it later.

Run `AgentRollout` (290 374 states): tools and single turns; one and two workers;
reward model, reward function, or none until later; rewards, users and tools
that may fail; a prompt the engine refuses; a batch that is not divisible; limits on tokens, assistant turns and user turns; one
and two rounds; a log probability for each token or none; plain tools, a search tool
with two parallel calls a turn, two threads and a limit of one on two workers, one
without limit on a single thread, an MCP tool. Three more
place workers on up to four nodes, with servers that span nodes, two addresses in use,
and a pool that does not fit. `EnginesReachWorkers` says that each engine drives the
ranks of its tensor parallel group, found by names and counted in three places, and,
where its size divides the processes of a node, that workers listening on a file are
on their server's node. `ToolsWithinLimit` says that no more
search calls run than the limit and that no permit is lost or given twice, across
calls that raise and releases that come late. Two or three rows on two
servers are enough for a third request to meet an uneven load, for two rows to race for a thread and
for two answers to be exchanged.

Fairness: weak fairness of `Next`. Processes, threads and the event loop run on,
and the engine, tools and users answer in the end; a conversation has only finitely
many turns and no state can be entered twice, so one condition says it. `RolloutEnds`
covers the start as well. It
is checked for pools with at least as many threads as a worker has rows, and for MCP
limits of at least one call a second: with a smaller limit the bucket never holds a
whole token, every call waits for ever (`mcp_clients/utils.py:36`), and TLC refutes
`RolloutEnds`. The instances place the pool with the larger groups first: with a
small-group pool first, two nodes of three GPUs and groups of one and of two, the check
passes, Ray may put both small groups on one node, and the start never ends.
How often an address is in use is bounded (`collisions`).

Run `RewardStall` is expected to find a violation, without that condition. Each
submitted row keeps its thread in `ray.get` until it is answered
(`agent_loop.py:371`), and the executor waits for a multiple of the ranks
(`agent_loop.py:302`). If all threads are taken before a multiple is complete, rows,
threads and executor wait for each other for ever. With 8 ranks and two workers of 32
threads each, for example, 33 rows left on one worker and 7 on the other are 40 rows,
but at most 39 of them have a thread, and the executor waits for the 40th. The docstring of `submit_task`
(`agent_loop.py:272-277`) promises the function's output.

### What is proved (`AgentRollout_proofs`)

For every number of rows, workers, servers, rounds, and every answer of the
environment that satisfies `RolloutConfigsAssumption`:

- `RolloutBalances`: `Spec => []ServersBalanced`. The invariant `LoadOK` adds that
  loads are natural numbers; the step is that the chosen server has the least load.
- `ConversationsEnd`: `Spec => []TurnsBounded`.
- `MasksMatch`: `Spec => []MaskMatchesTokens`. Both follow from `RolloutOK`: each
  conversation satisfies `ConversationOK`, which has its type, `TurnsOK` (in a state
  after the checks the limits are not reached yet; this is why the limit plus one is
  reached and not more) and `MaskOK` (the last tokens of the prompt are the ones the
  mask is about, in order, and the log probabilities are as many). It needs that only
  a row that is generating is in flight and that an idle manager has none.
- `LimitKept`: `Spec => []ToolsWithinLimit`, for every limit and number of threads.
  `PermitsOK` adds to it that there are finitely many calls, each in its table, and
  that permits and releases are natural numbers, without which a count of the running
  calls says nothing; each step moves a call by one stage.

- `SessionsStick`: `Spec => []OneServerPerRequest`. `SessionsInv` says of each worker
  that its cache has an entry for each row of the round that has been sent (`CacheOK`),
  with the server it was sent to, and that these fit; so what is dropped for a new row
  belongs to an earlier round.
- `RewardsAreOwn`: `Spec => []OwnScores`. `ScoreInv` says that a row waits in one place
  only: in the pool of its worker, in the executor's queue, or among what the executor
  has taken, each without repetition and apart from the others. The reward model
  answers in the order of what was taken (`CollectedInOrder` of the dispatch), the
  answers meet the futures in this order, and the parts of the workers are put together
  in the order of the rows.
- `EnginesFindWorkers`: `Spec => []EnginesReachWorkers`. A place in the sorted names is
  the number of names before it (`IndexOf`); the order by group and local rank is the order
  of the ranks (`RankOrder`, division with remainder), so a worker's place is its rank
  (`IndexIsRank`), and the slice of an engine holds its ranks whatever nodes Ray chose, for
  any tensor parallel size. If the size divides the processes of a node, a tensor parallel
  group is in one placement group (`SameGroup`), which the claim about files needs.
  `PlacesInv` adds that engines are made only at the end of the start, after which no
  group is placed.

Only model-checked: `RolloutEnds` (liveness).

### Observations

- `max_assistant_turns` is compared before the turn is counted, so one turn more is
  generated (`TurnsBounded` states the exact bound).
- `_handle_interacting_state` does not append the user's message to
  `agent_data.messages`, and with several tool calls `messages` gets earlier answers
  again (`tool_agent_loop.py:300`), and with an interaction configured a tool's answer
  is put into them twice (270 and 300); the token sequences are right.
- The release of a permit is registered before the permit is acquired
  (`search_tool.py:92`), so a failing `acquire` would give back what it never got;
  `acquire` of the semaphore does not fail in the model.
- With its rate limit off, the sandbox tool's `ExecutionWorker` registers the release
  of a limiter that is `None`, so every call fails and is only logged.
- All search and sandbox tools share the actor named `rate-limiter`: the limit of the
  first that is created holds for all.
- A server whose address is in use may answer `get_server_address` before it exits. It
  is then not started again, though that is what the loop is for; the start raises.
- Workers listen on a file if a tensor parallel group is no larger than a node. Groups
  of two on nodes of three GPUs may span nodes, and then a worker listens on a file of
  another node than its server; nothing checks it, and `EnginesReachWorkers` makes its
  claim about files only where the size divides the processes of a node.
- The check of resources counts one group of a pool for each node, so it also rejects
  pools that Ray could place.
- `MCPBaseTool._call_tool` uses an unbound result after an error; `execute` catches
  what that raises, so the answer is an error text either way.
- Shuffling the server handles does not change the heap, which orders ties by hash,
  and the managers of several workers do not see each other's loads.
- If the engine returns no token, the response `prompt_ids[-0:]` is the whole
  prompt; the model's `genLens` are positive.

## SGLang over-sampling

`OverSampling` is `_req_level_generate_sequences` on the first tensor-parallel rank:
each request is a task with the state machine of `_async_rollout_a_request`, the main
task waits for the tasks in the order they end and cancels the others when enough
have completed, waits for all, and tells the engine to abort. A cancelled task answers with padding at
whatever await it is; a failed one raises. Lengths are counted, with the generation
prompt and the room asked of the engine. `AnsweredBatch` is the promise: every
request is answered once, padding only after enough own answers, and a batch is
returned only if all are answered. It is implemented (`AnswersOnce`), with
`AnswersFit` for the asserts on the answers and `BatchEnds` for liveness.

The message of a tool call is tokenized again from the parsed calls, so up to
`Retokenized` tokens more than the engine returned may be appended; `Finalize` cuts
them off.

Run `OverSampling` (132 084 states): three requests, of which two must complete, or
none (which counts as one, since the count is compared after it is increased), or
all (validation); tools, a user, failures. Three requests with a target of two are
the least in which one is cancelled while another still runs. Fairness is weak
fairness of `Next`: the event loop runs whatever is ready, and no step can be taken
twice.

### What is proved (`OverSampling_proofs`)

For every number of requests, every target and all limits:

- `AnswersAlwaysFit`: `Spec => []AnswersFit`. `RequestInv` says of each request how far
  it may be from its limits in each state (`Conversing`), so that the engine has room
  for a token when it is asked, and what a finished one has (`Answered`).
- `BatchAnsweredOnce`: `Spec => AnswersOnce`, the refinement. `CountInv` says that each
  task ends once and that the count is of requests answered by themselves whose end was
  taken from the queue; `MainInv` that the others are cancelled only when enough
  completed or one raised. The mapping reads the answers and the result; every step of
  a task, of the main task and of the engine is a step of `AnsweredBatch` or none.

Only model-checked: `BatchEnds` (liveness).

### Observations on over-sampling

- `len(_req.input_ids) >= max_model_len` (866, 995) compares the number of rows of a
  tensor, 1, so it never holds; the check before the engine is called does the work.
- `rollout_log_probs[-len(req.response_ids):]` uses the length of a tensor with one row
  and takes only the last value; with `calculate_log_probs` padding requests have none.
- Cancelled requests never release their tools. (`AnswersFit` says that answered ones do.)
- An exception on the first rank leaves the other ranks in `dist.barrier`, and an
  exception among the results fails their sorting. A failed validation leaves the
  other requests running in the engine.
- The tokens of a tool's creation responses shift the border between prompt and
  response by the generation prompt.

## Not modelled, and why

- Tensor programs (losses, KL estimators and controllers, kernels, model code,
  sharding of parameters, weight conversion, vocabulary parallelism): their
  correctness is numerical. What rows, tokens and weights they get is modelled.
- REMAX baselines, REINFORCE++, whitening and scaling of advantages.
- The batch level rollout of SGLang, the broadcast of its results to the other ranks,
  and the tensors built from them.
- The HTTP servers of SGLang and their client's retries, the OpenAI endpoint: calls whose
  failures the code only counts. Fused workers, and attaching to detached ones.
- Connecting to MCP servers, and what search and sandbox services answer.
- Ray, HDFS: external.
- Other reward managers and score functions, SFT trainers, scripts and evaluation:
  sequential code without shared state.
