---------------------------- MODULE HybridWorker ----------------------------
(***************************************************************************)
(* The hybrid engine: worker processes that hold the trained actor (and    *)
(* critic) and, on the same GPUs, a rollout engine that generates with a   *)
(* copy of the actor's weights.  workers/fsdp_workers.py, and              *)
(* workers/megatron_workers.py where its order differs; the engine is vLLM *)
(* behind workers/rollout/vllm_rollout.  All ranks run the same calls in   *)
(* lockstep, so one record stands for all of them.                         *)
(***************************************************************************)
EXTENDS Integers

VARIABLES
  cfg,          \* configuration of the behaviour, never changed
  phase,        \* where the worker is between rollout_mode and trainer_mode
  policy,       \* number of optimizer steps in the weights of each model
  onGpu,        \* for each module: are its parameters, its optimizer on the GPU
  engine,       \* weights the rollout engine holds, and what is resident
  staged,       \* weights collected from the actor for the engine
  baseSyncDone, \* self.base_sync_done
  rng,          \* the current and the two saved states of the random generator
  drawn         \* history: draws made so far in training and in generation

workerVars == <<cfg, phase, policy, onGpu, engine, staged, baseSyncDone, rng, drawn>>

Models == {"actor", "critic"}
Modules == Models \cup {"ref"}  \* and the reference model, which no update changes
NoWeights == -1  \* a dummy load, discarded weights, or no adapter

(* VLLM_SLEEP_LEVEL == 2 and not layered_summon.                           *)
ForceReload(c) == c.sleepLevel = 2 /\ ~c.layered

(* With mode "async" the agent loop manager calls wake_up and sleep only   *)
(* if the engine's cache is to be freed.                                   *)
SkipsWakeUp == cfg.async /\ ~cfg.freeCache

(* The policy the engine generates with.  A base model without adapter is  *)
(* the policy of step 0: a new adapter changes nothing.                    *)
EnginePolicy == IF engine.adapter # NoWeights THEN engine.adapter ELSE engine.base

(* After init_model, which offloads parameters and optimizer if so         *)
(* configured, and the trainer_mode after it, called by init_model or the  *)
(* agent loop manager: the engine sleeps, and the state of the generator   *)
(* seeded for generation is replaced by the current one, that of training. *)
WorkerInit ==
  /\ phase = "trainer"
  /\ policy = [m \in Models |-> 0]
  /\ onGpu = [m \in Modules |-> [params |-> ~cfg.paramOffload,
                                 optim |-> m # "ref" /\ ~cfg.optOffload]]
  /\ engine = [base |-> IF cfg.dummyLoad THEN NoWeights ELSE 0, adapter |-> NoWeights,
               weights |-> ~cfg.freeCache, kv |-> ~cfg.freeCache]
  /\ staged = NoWeights
  /\ baseSyncDone = (~cfg.dummyLoad /\ ~ForceReload(cfg))
  /\ LET fresh(seed) == [seed |-> seed, drawn |-> 0]
     IN  rng = [stream |-> "train", at |-> fresh("train"), train |-> fresh("train"),
                gen |-> fresh(IF SkipsWakeUp THEN "gen" ELSE "train")]
  /\ drawn = [train |-> 0, gen |-> 0]

-----------------------------------------------------------------------------
(* Moving parameters and optimizers *)

(* load_fsdp_model_to_gpu, load_fsdp_optimizer, and their like of Megatron.*)
Load(ms, withOptim) ==
  onGpu' = [m \in Modules |->
              IF m \in ms THEN [params |-> TRUE, optim |-> onGpu[m].optim \/ withOptim]
                          ELSE onGpu[m]]

(* offload_fsdp_model_to_cpu, offload_fsdp_optimizer, each if configured.  *)
\* Mutation: the parameters stay where they are
OffloadNothing(ms, withOptim) == onGpu' = onGpu

Offload(ms, withOptim) ==
  onGpu' = [m \in Modules |->
              IF m \in ms
                THEN [params |-> onGpu[m].params /\ ~cfg.paramOffload,
                      optim  |-> onGpu[m].optim /\ ~(withOptim /\ cfg.optOffload)]
                ELSE onGpu[m]]

-----------------------------------------------------------------------------
(* rollout_mode, in the steps that leave a different GPU behind.  The      *)
(* phase is "offloaded" before the engine's weights are resumed, although  *)
(* Megatron's parameters are still loaded then.                            *)

(* The parameters are loaded and collected: the adapter, if the base model *)
(* is already in the engine, and the (base) model otherwise.               *)
Summon ==
  /\ phase = "trainer" /\ ~SkipsWakeUp /\ ~cfg.megatron
  /\ phase' = "summoned"
  /\ Load({"actor"}, FALSE)
  /\ staged' = IF cfg.lora /\ ~baseSyncDone THEN 0 ELSE policy["actor"]
  /\ UNCHANGED <<cfg, policy, engine, baseSyncDone, rng, drawn>>

(* The weights FSDP sends are collected copies: it offloads at once.       *)
OffloadSummoned ==
  /\ phase = "summoned"
  /\ phase' = "offloaded"
  /\ Offload({"actor"}, FALSE)
  /\ UNCHANGED <<cfg, policy, engine, staged, baseSyncDone, rng, drawn>>

(* rollout.resume(tags=["weights"]).                                       *)
ResumeWeights ==
  /\ phase = "offloaded"
  /\ phase' = "awake"
  /\ engine' = [engine EXCEPT !.weights = TRUE]
  /\ UNCHANGED <<cfg, policy, onGpu, staged, baseSyncDone, rng, drawn>>

(* rollout.update_weights: an adapter if there is one to send and the base *)
(* is done, and the parameters of the model otherwise.                     *)
\* Mutation: weights that were loaded once are taken to be the same still
UpdateWeightsOnce ==
  /\ phase = "awake" /\ ~cfg.megatron
  /\ phase' = "updated"
  /\ engine' = IF cfg.lora /\ baseSyncDone THEN [engine EXCEPT !.adapter = staged]
               ELSE IF engine.base = NoWeights THEN [engine EXCEPT !.base = staged] ELSE engine
  /\ staged' = NoWeights
  /\ UNCHANGED <<cfg, policy, onGpu, baseSyncDone, rng, drawn>>

UpdateWeights ==
  /\ phase = "awake" /\ ~cfg.megatron
  /\ phase' = "updated"
  /\ engine' = IF cfg.lora /\ baseSyncDone THEN [engine EXCEPT !.adapter = staged]
                                           ELSE [engine EXCEPT !.base = staged]
  /\ staged' = NoWeights
  /\ UNCHANGED <<cfg, policy, onGpu, baseSyncDone, rng, drawn>>

(* Megatron sends from a generator over the parameters: it offloads them   *)
(* when they are sent.                                                     *)
MegatronSummon ==
  /\ phase = "trainer" /\ ~SkipsWakeUp /\ cfg.megatron
  /\ phase' = "offloaded"
  /\ Load({"actor"}, FALSE)
  /\ staged' = policy["actor"]
  /\ UNCHANGED <<cfg, policy, engine, baseSyncDone, rng, drawn>>

MegatronUpdateWeights ==
  /\ phase = "awake" /\ cfg.megatron
  /\ phase' = "updated"
  /\ engine' = [engine EXCEPT !.base = staged]
  /\ staged' = NoWeights
  /\ Offload({"actor"}, FALSE)
  /\ UNCHANGED <<cfg, policy, baseSyncDone, rng, drawn>>

(* rollout.resume(tags=["kv_cache"]), and the generator changes over.      *)
ResumeCache ==
  /\ phase = "updated"
  /\ phase' = "rollout"
  /\ engine' = [engine EXCEPT !.kv = TRUE]
  /\ baseSyncDone' = ~ForceReload(cfg)
  /\ rng' = [rng EXCEPT !.stream = "gen", !.at = rng.gen, !.train = rng.at]
  /\ UNCHANGED <<cfg, policy, onGpu, staged, drawn>>

(* One generation draws from whatever state of the generator is current.   *)
Draw(kind) ==
  /\ rng' = [rng EXCEPT !.at.drawn = @ + 1]
  /\ drawn' = [drawn EXCEPT ![kind] = @ + 1]

CanGenerate == phase = "rollout" \/ (phase = "trainer" /\ SkipsWakeUp)

(* trainer_mode: the engine gives its memory back, at sleep level 2 with   *)
(* the weights in it; the generator changes back.                          *)
\* Mutation: the state generation stopped at is not kept
TrainerModeForgetsGen ==
  /\ phase = "rollout"
  /\ phase' = "trainer"
  /\ engine' = [engine EXCEPT !.weights = ~cfg.freeCache, !.kv = ~cfg.freeCache,
                              !.base = IF cfg.freeCache /\ ForceReload(cfg) THEN NoWeights ELSE @]
  /\ rng' = [rng EXCEPT !.stream = "train", !.at = rng.train]
  /\ UNCHANGED <<cfg, policy, onGpu, staged, baseSyncDone, drawn>>

TrainerMode ==
  /\ phase = "rollout"
  /\ phase' = "trainer"
  /\ engine' = [engine EXCEPT !.weights = ~cfg.freeCache, !.kv = ~cfg.freeCache,
                              !.base = IF cfg.freeCache /\ ForceReload(cfg) THEN NoWeights ELSE @]
  /\ rng' = [rng EXCEPT !.stream = "train", !.at = rng.train, !.gen = rng.at]
  /\ UNCHANGED <<cfg, policy, onGpu, staged, baseSyncDone, drawn>>
=============================================================================
