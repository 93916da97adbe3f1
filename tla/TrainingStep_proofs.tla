-------------------------- MODULE TrainingStep_proofs --------------------------
(***************************************************************************)
(* Proofs about the training step: what the hybrid worker keeps on the     *)
(* GPU, which random states it draws from, which weights the engine        *)
(* answers with, that what is computed for a row stays with it, by which   *)
(* policies it was computed, that the ranks stay in step, that an update   *)
(* trains every row as often and with the same weight, that scores are     *)
(* fair, and that advantages compare the rollouts of a prompt.             *)
(***************************************************************************)
EXTENDS TrainingStep, SeqlenBalancing_proofs

-----------------------------------------------------------------------------
(* Where the driver, the engine and the ranks are. *)

GenerateCalls == {"val_before_train", "generate", "testing"}
Phases == {"trainer", "summoned", "offloaded", "awake", "updated", "rollout"}

(* A call that is executed knows its rows, its micro-batches and, if it is *)
(* an update, the mini-batches that are left.                              *)
IsComputing(j) == j.call \in Calls /\ DOMAIN j = {"call", "rows", "micro", "done"}
IsUpdating(j) == j.call \in Updates /\ DOMAIN j = {"call", "minis", "rows", "micro", "done"}

FlowInv ==
  /\ cfg \in Configs /\ phase \in Phases /\ global_steps \in Int
  /\ phase # "trainer" => request # NoRequest
  /\ request # NoRequest =>
       /\ pc \in GenerateCalls
       /\ \E prompts, output : request = [purpose |-> pc, prompts |-> prompts, output |-> output]
  /\ job # NoJob =>
       /\ IsComputing(job) \/ IsUpdating(job) \/ job = [call |-> "save"]
       /\ pc \in {job.call, "raised"}
       /\ job.call = "update_actor" => global_steps >= cfg.warmup

LEMMA FlowInit == Init => FlowInv
BY DEF Init, FlowInv, WorkerInit, Phases

(* The parts of the step that exclude each other.                          *)
LEMMA OneAtATime ==
  ASSUME FlowInv
  PROVE  /\ job # NoJob => request = NoRequest /\ phase = "trainer" /\ pc \notin GenerateCalls
         /\ pc \notin GenerateCalls => request = NoRequest /\ phase = "trainer"
         /\ pc \notin Calls \cup Updates \cup {"save", "raised"} => job = NoJob
         /\ job.call \in Calls => job # NoJob /\ IsComputing(job)
         /\ job.call \in Updates => job # NoJob /\ IsUpdating(job)
         /\ job.call = "save" => job = [call |-> "save"]
<1>1. /\ NoJob.call = "none" /\ [call |-> "save"].call = "save"
  BY DEF NoJob
<1> QED
  BY <1>1 DEF FlowInv, GenerateCalls, IsComputing, IsUpdating, Calls, Updates

LEMMA FlowStep == FlowInv /\ [Next]_vars => FlowInv'
<1> SUFFICES ASSUME FlowInv, [Next]_vars PROVE FlowInv'
  OBVIOUS
<1> USE DEF workerVars
<1>1. CASE UNCHANGED vars
  BY <1>1 DEF vars, FlowInv
<1>2. CASE SendPrompts
  <2>1. request' = [purpose |-> pc, prompts |-> Prompts(pc), output |-> <<>>]
        /\ pc \in GenerateCalls /\ UNCHANGED <<cfg, phase, pc, job, global_steps>>
    BY <1>2 DEF SendPrompts, GenerateCalls
  <2>2. request'.purpose # "none"
    BY <2>1 DEF GenerateCalls
  <2> HIDE DEF Prompts
  <2>3. request' # NoRequest
    BY <2>2 DEF NoRequest
  <2> QED
    BY <2>1, <2>3 DEF FlowInv
<1>3. CASE SwitchMode
  BY <1>3 DEF SwitchMode, FlowInv, Phases, Summon, OffloadSummoned, ResumeWeights, UpdateWeights,
              ResumeCache, MegatronSummon, MegatronUpdateWeights
<1>4. CASE Generate
  <2>1. /\ request # NoRequest /\ \E o : request' = [request EXCEPT !.output = o]
        /\ UNCHANGED <<cfg, phase, pc, job, global_steps>>
    BY <1>4 DEF Generate
  <2>2. PICK prompts, output : request = [purpose |-> pc, prompts |-> prompts, output |-> output]
    BY <2>1 DEF FlowInv
  <2>3. PICK o : request' = [request EXCEPT !.output = o]
    BY <2>1
  <2>4. request' = [purpose |-> pc, prompts |-> prompts, output |-> o] /\ pc \in GenerateCalls
    BY <2>1, <2>2, <2>3 DEF FlowInv
  <2>5. request'.purpose # "none"
    BY <2>4 DEF GenerateCalls
  <2>6. request' # NoRequest
    BY <2>5 DEF NoRequest
  <2> QED
    BY <2>1, <2>4, <2>6 DEF FlowInv
<1>5. CASE LeaveRollout
  BY <1>5 DEF LeaveRollout, TrainerMode, FlowInv, Phases
<1>6. CASE ReceiveResponses
  <2>1. /\ pc \in GenerateCalls /\ job = NoJob
    BY <1>6, OneAtATime DEF ReceiveResponses, FlowInv
  <2> QED
    BY <1>6, <2>1 DEF ReceiveResponses, FlowInv
<1>7. CASE BalanceBatch \/ ComputeReward \/ ComputeAdvantage
  <2>1. /\ pc \in {"balance", "rewards", "adv"}
        /\ UNCHANGED <<cfg, phase, request, job, global_steps>>
    BY <1>7 DEF BalanceBatch, ComputeReward, ComputeAdvantage
  <2>2. request = NoRequest /\ phase = "trainer" /\ job = NoJob
    BY <2>1, OneAtATime DEF GenerateCalls, Calls, Updates
  <2> QED
    BY <2>1, <2>2 DEF FlowInv
<1>8. CASE SkipActorUpdate
  <2>1. /\ pc = "update_actor" /\ global_steps < cfg.warmup
        /\ UNCHANGED <<cfg, phase, request, job, global_steps>>
    BY <1>8 DEF SkipActorUpdate
  <2>2. request = NoRequest /\ phase = "trainer"
    BY <2>1, OneAtATime DEF GenerateCalls
  <2>3. job = NoJob
    BY <2>1, ConfigsAssumption DEF FlowInv
  <2> QED
    BY <2>1, <2>2, <2>3 DEF FlowInv
<1>9. CASE EndStep
  <2>1. pc = "endstep" /\ UNCHANGED <<cfg, phase, request, job>> /\ global_steps' \in Int
    BY <1>9 DEF EndStep, FlowInv
  <2>2. request = NoRequest /\ phase = "trainer" /\ job = NoJob
    BY <2>1, OneAtATime DEF GenerateCalls, Calls, Updates
  <2> QED
    BY <2>1, <2>2 DEF FlowInv
<1>10. CASE StartCall
  <2>1. /\ pc \in Calls /\ UNCHANGED <<cfg, phase, request, pc, global_steps>>
        /\ job' = [call |-> pc, rows |-> RankRows, micro |-> MicroBatches(RankRows, pc), done |-> 0]
    BY <1>10 DEF StartCall
  <2>2. job'.call = pc /\ IsComputing(job')
    BY <2>1 DEF IsComputing
  <2>3. job'.call # "update_actor"
    BY <2>1, <2>2 DEF Calls
  <2>4. request = NoRequest /\ phase = "trainer"
    BY <2>1, OneAtATime DEF Calls, GenerateCalls
  <2> QED
    BY <2>1, <2>2, <2>3, <2>4 DEF FlowInv
<1>11. CASE Forward
  <2>1. /\ job.call \in Calls /\ job' = [job EXCEPT !.done = @ + 1]
        /\ UNCHANGED <<cfg, phase, request, pc, global_steps>>
    BY <1>11 DEF Forward
  <2>2. IsComputing(job) /\ job # NoJob
    BY <2>1, OneAtATime
  <2>5. job'.call = job.call /\ IsComputing(job')
    BY <2>1, <2>2 DEF IsComputing
  <2> QED
    BY <2>1, <2>2, <2>5 DEF FlowInv
<1>12. CASE FinishCall \/ FinishUpdate \/ EndSave
  <2>1. /\ job.call \in Calls \cup Updates \cup {"save"} /\ job' = NoJob
        /\ UNCHANGED <<cfg, phase, request, global_steps>>
    BY <1>12 DEF FinishCall, FinishUpdate, EndSave
  <2>2. request = NoRequest /\ phase = "trainer"
    <3>1. NoJob.call \notin Calls \cup Updates \cup {"save"}
      BY DEF NoJob, Calls, Updates
    <3> QED
      BY <2>1, <3>1, OneAtATime
  <2> QED
    BY <2>1, <2>2 DEF FlowInv
<1>13. CASE StartUpdate
  <2>1. /\ pc \in Updates /\ UNCHANGED <<cfg, phase, request, pc, global_steps>>
        /\ pc = "update_actor" => global_steps >= cfg.warmup
        /\ \E minis, rows, micro :
             job' = [call |-> pc, minis |-> minis, rows |-> rows, micro |-> micro, done |-> 0]
    BY <1>13 DEF StartUpdate
  <2>2. PICK minis, rows, micro :
          job' = [call |-> pc, minis |-> minis, rows |-> rows, micro |-> micro, done |-> 0]
    BY <2>1
  <2>3. job'.call = pc /\ IsUpdating(job')
    BY <2>1, <2>2 DEF IsUpdating
  <2>4. request = NoRequest /\ phase = "trainer"
    BY <2>1, OneAtATime DEF Updates, GenerateCalls
  <2> QED
    BY <2>1, <2>3, <2>4 DEF FlowInv
<1>14. CASE BeginMiniBatch \/ ForwardBackward \/ OptimizerStep
  <2>1. job.call \in Updates /\ UNCHANGED <<cfg, phase, request, pc, global_steps>>
    BY <1>14 DEF BeginMiniBatch, ForwardBackward, OptimizerStep
  <2>2. IsUpdating(job) /\ job # NoJob
    BY <2>1, OneAtATime
  <2>3. job'.call = job.call /\ IsUpdating(job')
    <3>1. CASE BeginMiniBatch
      <4>1. PICK m, r, b : job' = [job EXCEPT !.rows = r, !.micro = b, !.done = 0, !.minis = m]
        BY <3>1 DEF BeginMiniBatch
      <4> QED
        BY <2>2, <4>1 DEF IsUpdating
    <3>2. CASE ForwardBackward
      BY <2>2, <3>2 DEF ForwardBackward, IsUpdating
    <3>3. CASE OptimizerStep
      <4>1. PICK r, b : job' = [job EXCEPT !.rows = r, !.micro = b, !.done = 0]
        BY <3>3 DEF OptimizerStep
      <4> QED
        BY <2>2, <4>1 DEF IsUpdating
    <3> QED
      BY <1>14, <3>1, <3>2, <3>3
  <2> QED
    BY <2>1, <2>2, <2>3 DEF FlowInv
<1>15. CASE MegatronStepFails
  <2>1. /\ job.call \in Updates /\ pc' = "raised" /\ UNCHANGED <<cfg, phase, request, job, global_steps>>
    BY <1>15 DEF MegatronStepFails
  <2>2. request = NoRequest /\ phase = "trainer"
    BY <2>1, OneAtATime
  <2> QED
    BY <2>1, <2>2 DEF FlowInv
<1>16. CASE BeginSave
  <2>1. pc = "save" /\ job' = [call |-> "save"] /\ UNCHANGED <<cfg, phase, request, pc, global_steps>>
    BY <1>16 DEF BeginSave
  <2>2. request = NoRequest /\ phase = "trainer"
    BY <2>1, OneAtATime DEF GenerateCalls
  <2> QED
    BY <2>1, <2>2 DEF FlowInv
<1> QED
  BY <1>1, <1>2, <1>3, <1>4, <1>5, <1>6, <1>7, <1>8, <1>9, <1>10, <1>11, <1>12, <1>13, <1>14,
     <1>15, <1>16
     DEF Next, Rollout, Driver, Compute, Train, Save, Finished

-----------------------------------------------------------------------------
(* Memory. *)

Placements == [Modules -> [params : BOOLEAN, optim : BOOLEAN]]

(* What has its parameters on the GPU although they may be offloaded: the  *)
(* model of the call, and the actor until its weights are collected.       *)
Needed(m) ==
  \/ job # NoJob /\ m \in ModelOf(job.call)
  \/ m = "actor" /\ (phase = "summoned" \/ (cfg.megatron /\ phase \in {"offloaded", "awake"}))

MemInv ==
  /\ onGpu \in Placements
  /\ DOMAIN engine = {"base", "adapter", "weights", "kv"}
  /\ cfg.freeCache => /\ engine.kv => phase = "rollout"
                      /\ engine.weights => phase \in {"awake", "updated", "rollout"}
  /\ \A m \in Modules :
       /\ cfg.paramOffload /\ onGpu[m].params => Needed(m)
       /\ cfg.optOffload /\ onGpu[m].optim => job.call \in Updates /\ m \in ModelOf(job.call)
  /\ job # NoJob =>
       \A m \in ModelOf(job.call) :
         onGpu[m].params /\ (job.call \in Updates => onGpu[m].optim)

LEMMA Switches ==
  ASSUME cfg \in Configs
  PROVE  /\ cfg.paramOffload \in BOOLEAN /\ cfg.optOffload \in BOOLEAN
         /\ cfg.freeCache \in BOOLEAN /\ cfg.megatron \in BOOLEAN
BY ConfigsAssumption

LEMMA LoadEffect ==
  ASSUME onGpu \in Placements, NEW ms, NEW w \in BOOLEAN, Load(ms, w)
  PROVE  /\ onGpu' \in Placements
         /\ \A m \in Modules : /\ m \in ms => onGpu'[m].params /\ onGpu'[m].optim = (onGpu[m].optim \/ w)
                               /\ m \notin ms => onGpu'[m] = onGpu[m]
BY DEF Load, Placements

LEMMA OffloadEffect ==
  ASSUME onGpu \in Placements, cfg \in Configs, NEW ms, NEW w \in BOOLEAN, Offload(ms, w)
  PROVE  /\ onGpu' \in Placements
         /\ \A m \in Modules :
              /\ m \in ms => /\ onGpu'[m].params = (onGpu[m].params /\ ~cfg.paramOffload)
                             /\ onGpu'[m].optim = (onGpu[m].optim /\ ~(w /\ cfg.optOffload))
              /\ m \notin ms => onGpu'[m] = onGpu[m]
BY Switches DEF Offload, Placements

LEMMA MemInit == Init => MemInv
<1> SUFFICES ASSUME Init PROVE MemInv
  OBVIOUS
<1>1. cfg \in Configs /\ job = NoJob /\ WorkerInit
  BY DEF Init
<1> DEFINE optim(m) == m # "ref" /\ ~cfg.optOffload
<1>2. onGpu = [m \in Modules |-> [params |-> ~cfg.paramOffload, optim |-> optim(m)]]
  BY <1>1 DEF WorkerInit
<1>3. \A m : optim(m) \in BOOLEAN /\ (optim(m) => ~cfg.optOffload)
  OBVIOUS
<1> HIDE DEF optim
<1>4. onGpu \in Placements /\ \A m \in Modules : /\ onGpu[m].params = ~cfg.paramOffload
                                                 /\ onGpu[m].optim => ~cfg.optOffload
  BY <1>1, <1>2, <1>3, Switches, Zenon DEF Placements
<1>5. /\ DOMAIN engine = {"base", "adapter", "weights", "kv"}
      /\ engine.kv = ~cfg.freeCache /\ engine.weights = ~cfg.freeCache
  BY <1>1 DEF WorkerInit
<1> QED
  BY <1>1, <1>4, <1>5, Switches DEF MemInv

(* An execution goes on: the same call, and nothing is moved.              *)
LEMMA MemUnmoved ==
  ASSUME MemInv, UNCHANGED <<cfg, phase, onGpu, engine>>,
         job'.call = job.call, job' = NoJob <=> job = NoJob
  PROVE  MemInv'
<1>1. ModelOf(job.call)' = ModelOf(job.call) /\ \A m : Needed(m)' <=> Needed(m)
  BY DEF ModelOf, Needed
<1> QED
  BY <1>1 DEF MemInv

(* A call starts: its models are loaded, for an update with the optimizer. *)
LEMMA MemLoaded ==
  ASSUME FlowInv, MemInv, job = NoJob, phase = "trainer", UNCHANGED <<cfg, phase, engine>>,
         NEW w \in BOOLEAN, Load(ModelOf(job'.call), w), w <=> job'.call \in Updates, job' # NoJob
  PROVE  MemInv'
<1> DEFINE ms == ModelOf(job'.call)
<1>1. ModelOf(job.call)' = ms /\ ms \subseteq Modules
  BY DEF ModelOf, Modules, Models
<1>2. ModelOf(job.call) = {}
  BY DEF NoJob, ModelOf
<1>3. \A m \in Modules : /\ Needed(m) <=> FALSE
                         /\ Needed(m)' <=> m \in ms
  BY <1>1 DEF Needed
<1>4. /\ onGpu' \in Placements
      /\ \A m \in Modules : /\ m \in ms => onGpu'[m].params /\ onGpu'[m].optim = (onGpu[m].optim \/ w)
                            /\ m \notin ms => onGpu'[m] = onGpu[m]
  BY LoadEffect DEF MemInv
<1> HIDE DEF ms
<1>5. \A m \in Modules : cfg.paramOffload /\ onGpu'[m].params => Needed(m)'
  BY <1>3, <1>4 DEF MemInv
<1>6. \A m \in Modules : cfg.optOffload /\ onGpu'[m].optim => job'.call \in Updates /\ m \in ms
  <2> SUFFICES ASSUME NEW m \in Modules, cfg.optOffload, onGpu'[m].optim
               PROVE  job'.call \in Updates /\ m \in ms
    OBVIOUS
  <2>1. ~ onGpu[m].optim
    BY <1>2 DEF MemInv
  <2> QED
    BY <1>4, <2>1
<1>7. \A m \in ms : onGpu'[m].params /\ (job'.call \in Updates => onGpu'[m].optim)
  BY <1>1, <1>4
<1> QED
  BY <1>1, <1>4, <1>5, <1>6, <1>7 DEF MemInv

(* A call ends: what was loaded for it is offloaded.                       *)
LEMMA MemOffloaded ==
  ASSUME FlowInv, MemInv, job # NoJob, phase = "trainer", UNCHANGED <<cfg, phase, engine>>,
         NEW w \in BOOLEAN, Offload(ModelOf(job.call), w), w <=> job.call \in Updates, job' = NoJob
  PROVE  MemInv'
<1> DEFINE ms == ModelOf(job.call)
<1>1. /\ onGpu' \in Placements
      /\ \A m \in Modules :
           /\ m \in ms => /\ onGpu'[m].params = (onGpu[m].params /\ ~cfg.paramOffload)
                          /\ onGpu'[m].optim = (onGpu[m].optim /\ ~(w /\ cfg.optOffload))
           /\ m \notin ms => onGpu'[m] = onGpu[m]
  BY OffloadEffect DEF MemInv, FlowInv
<1>2. \A m \in Modules : Needed(m) <=> m \in ms
  BY DEF Needed
<1> HIDE DEF ms
<1>3. \A m \in Modules : ~ (cfg.paramOffload /\ onGpu'[m].params)
  BY <1>1, <1>2, Switches DEF MemInv, FlowInv
<1>4. \A m \in Modules : ~ (cfg.optOffload /\ onGpu'[m].optim)
  BY <1>1, Switches DEF MemInv, FlowInv, ms
<1> QED
  BY <1>1, <1>3, <1>4 DEF MemInv

(* The engine takes the GPU over, in the order of rollout_mode.            *)
LEMMA MemSwitched ==
  ASSUME FlowInv, MemInv, SwitchMode
  PROVE  MemInv'
<1>1. job = NoJob /\ job' = NoJob /\ request # NoRequest /\ cfg' = cfg
  <2>1. job = NoJob
    BY OneAtATime DEF SwitchMode
  <2> QED
    BY <2>1 DEF SwitchMode, Summon, OffloadSummoned, ResumeWeights, UpdateWeights, ResumeCache,
                MegatronSummon, MegatronUpdateWeights
<1>2. \A m \in Modules : /\ Needed(m) <=> m = "actor" /\ (phase = "summoned" \/ (cfg.megatron /\ phase \in {"offloaded", "awake"}))
                         /\ Needed(m)' <=> m = "actor" /\ (phase' = "summoned" \/ (cfg.megatron /\ phase' \in {"offloaded", "awake"}))
  BY <1>1 DEF Needed
<1>3. NoJob.call \notin Updates
  BY DEF NoJob, Updates
<1>4. \A m \in Modules : ~ (cfg.optOffload /\ onGpu[m].optim)
  BY <1>1, <1>3 DEF MemInv
<1>5. ASSUME UNCHANGED onGpu,
             DOMAIN engine' = {"base", "adapter", "weights", "kv"},
             cfg.freeCache => /\ engine'.kv => phase' = "rollout"
                              /\ engine'.weights => phase' \in {"awake", "updated", "rollout"},
             \A m \in Modules : Needed(m) => Needed(m)'
      PROVE  MemInv'
  BY <1>1, <1>3, <1>4, <1>5 DEF MemInv
<1>6. ASSUME UNCHANGED engine, onGpu' \in Placements,
             cfg.freeCache => /\ engine.kv => phase' = "rollout"
                              /\ engine.weights => phase' \in {"awake", "updated", "rollout"},
             \A m \in Modules : /\ onGpu'[m].optim = onGpu[m].optim
                                /\ cfg.paramOffload /\ onGpu'[m].params => Needed(m)'
      PROVE  MemInv'
  BY <1>1, <1>3, <1>4, <1>6 DEF MemInv
<1>7. CASE Summon \/ MegatronSummon
  <2>1. Load({"actor"}, FALSE) /\ UNCHANGED engine /\ phase = "trainer"
        /\ phase' = (IF cfg.megatron THEN "offloaded" ELSE "summoned")
    BY <1>7 DEF Summon, MegatronSummon
  <2>2. /\ onGpu' \in Placements
        /\ \A m \in Modules : /\ m = "actor" => onGpu'[m].params /\ onGpu'[m].optim = (onGpu[m].optim \/ FALSE)
                              /\ m # "actor" => onGpu'[m] = onGpu[m]
    BY <2>1, LoadEffect, ZenonT(30) DEF MemInv
  <2>3. \A m \in Modules : onGpu[m].optim \in BOOLEAN
    BY DEF MemInv, Placements
  <2>4. cfg.megatron \in BOOLEAN
    BY Switches DEF FlowInv
  <2>5. \A m \in Modules : onGpu'[m].optim = onGpu[m].optim
    BY <2>2, <2>3
  <2>6. \A m \in Modules : cfg.paramOffload /\ onGpu'[m].params => Needed(m)'
    <3> SUFFICES ASSUME NEW m \in Modules, cfg.paramOffload, onGpu'[m].params PROVE Needed(m)'
      OBVIOUS
    <3>1. CASE m = "actor"
      <4>1. phase' = "summoned" \/ (cfg.megatron /\ phase' = "offloaded")
        BY <2>1, <2>4
      <4> QED
        BY <1>1, <3>1, <4>1 DEF Needed
    <3>2. CASE m # "actor"
      <4>1. Needed(m)
        BY <2>2, <3>2 DEF MemInv
      <4> QED
        BY <1>2, <3>2, <4>1
    <3> QED
      BY <3>1, <3>2
  <2> QED
    BY <1>6, <2>1, <2>2, <2>5, <2>6 DEF MemInv
<1>8. CASE OffloadSummoned
  <2>1. Offload({"actor"}, FALSE) /\ UNCHANGED engine /\ phase = "summoned" /\ phase' = "offloaded"
    BY <1>8 DEF OffloadSummoned
  <2>2. /\ onGpu' \in Placements
        /\ \A m \in Modules :
             /\ m \in {"actor"} => /\ onGpu'[m].params = (onGpu[m].params /\ ~cfg.paramOffload)
                                   /\ onGpu'[m].optim = (onGpu[m].optim /\ ~(FALSE /\ cfg.optOffload))
             /\ m \notin {"actor"} => onGpu'[m] = onGpu[m]
    BY <2>1, OffloadEffect DEF MemInv, FlowInv
  <2>3. \A m \in Modules : onGpu[m].optim \in BOOLEAN
    BY DEF MemInv, Placements
  <2>4. \A m \in Modules : onGpu'[m].optim = onGpu[m].optim
    BY <2>2, <2>3
  <2>5. \A m \in Modules : cfg.paramOffload /\ onGpu'[m].params => Needed(m)'
    BY <1>2, <2>1, <2>2 DEF MemInv
  <2> QED
    BY <1>6, <2>1, <2>2, <2>4, <2>5 DEF MemInv
<1>9. CASE ResumeWeights
  BY <1>2, <1>5, <1>9 DEF ResumeWeights, MemInv
<1>10. CASE UpdateWeights
  <2>1. UNCHANGED onGpu /\ phase = "awake" /\ phase' = "updated" /\ ~cfg.megatron
    BY <1>10 DEF UpdateWeights
  <2>2. DOMAIN engine' = DOMAIN engine /\ engine'.kv = engine.kv
    BY <1>10 DEF UpdateWeights, MemInv
  <2> QED
    BY <1>2, <1>5, <2>1, <2>2 DEF MemInv
<1>11. CASE ResumeCache
  <2>1. UNCHANGED onGpu /\ phase = "updated" /\ phase' = "rollout" /\ DOMAIN engine' = DOMAIN engine
    BY <1>11 DEF ResumeCache
  <2> QED
    BY <1>2, <1>5, <2>1 DEF MemInv
<1>12. CASE MegatronUpdateWeights
  <2>1. Offload({"actor"}, FALSE) /\ phase = "awake" /\ phase' = "updated"
    BY <1>12 DEF MegatronUpdateWeights
  <2>2. DOMAIN engine' = DOMAIN engine /\ engine'.kv = engine.kv
    BY <1>12 DEF MegatronUpdateWeights, MemInv
  <2>3. /\ onGpu' \in Placements
        /\ \A m \in Modules :
             /\ m \in {"actor"} => /\ onGpu'[m].params = (onGpu[m].params /\ ~cfg.paramOffload)
                                   /\ onGpu'[m].optim = (onGpu[m].optim /\ ~(FALSE /\ cfg.optOffload))
             /\ m \notin {"actor"} => onGpu'[m] = onGpu[m]
    BY <2>1, OffloadEffect DEF MemInv, FlowInv
  <2>4. \A m \in Modules : onGpu[m].optim \in BOOLEAN
    BY DEF MemInv, Placements
  <2>5. \A m \in Modules : onGpu'[m].optim = onGpu[m].optim
    BY <2>3, <2>4
  <2>6. \A m \in Modules : ~ (cfg.paramOffload /\ onGpu'[m].params)
    BY <1>2, <2>1, <2>3 DEF MemInv
  <2>7. cfg.freeCache => /\ engine'.kv => phase' = "rollout"
                         /\ engine'.weights => phase' \in {"awake", "updated", "rollout"}
    BY <2>1, <2>2 DEF MemInv
  <2>8. \A m \in Modules : ~ (cfg.optOffload /\ onGpu'[m].optim)
    BY <1>4, <2>5
  <2>9. onGpu' \in Placements /\ DOMAIN engine' = {"base", "adapter", "weights", "kv"}
    BY <2>2, <2>3 DEF MemInv
  <2> QED
    BY <1>1, <2>6, <2>7, <2>8, <2>9 DEF MemInv
<1> QED
  BY <1>7, <1>8, <1>9, <1>10, <1>11, <1>12 DEF SwitchMode

LEMMA MemReleased ==
  ASSUME FlowInv, MemInv, LeaveRollout
  PROVE  MemInv'
<1>1. job = NoJob /\ phase = "rollout" /\ phase' = "trainer" /\ UNCHANGED <<cfg, job, onGpu>>
  BY OneAtATime DEF LeaveRollout, TrainerMode
<1>2. ModelOf(NoJob.call) = {} /\ NoJob.call \notin Updates
  BY DEF NoJob, ModelOf, Updates
<1>3. \A m \in Modules : ~ Needed(m)
  BY <1>1 DEF Needed
<1>4. /\ DOMAIN engine' = {"base", "adapter", "weights", "kv"}
      /\ engine'.kv = ~cfg.freeCache /\ engine'.weights = ~cfg.freeCache
  BY DEF LeaveRollout, TrainerMode, MemInv
<1> QED
  BY <1>1, <1>2, <1>3, <1>4 DEF MemInv

LEMMA MemStep == FlowInv /\ FlowInv' /\ MemInv /\ [Next]_vars => MemInv'
<1> SUFFICES ASSUME FlowInv, FlowInv', MemInv, [Next]_vars PROVE MemInv'
  OBVIOUS
<1> USE DEF workerVars
<1>1. CASE UNCHANGED <<cfg, phase, onGpu, engine, job>>
  BY <1>1, MemUnmoved
<1>2. CASE Forward \/ BeginMiniBatch \/ ForwardBackward \/ OptimizerStep
  <2>1. UNCHANGED <<cfg, phase, onGpu, engine>> /\ job # NoJob
    BY <1>2, OneAtATime DEF Forward, BeginMiniBatch, ForwardBackward, OptimizerStep
  <2>2. "call" \in DOMAIN job
    BY <1>2, OneAtATime
       DEF Forward, BeginMiniBatch, ForwardBackward, OptimizerStep, IsComputing, IsUpdating
  <2>3. job'.call = job.call
    <3>1. CASE Forward
      BY <2>2, <3>1 DEF Forward
    <3>2. CASE BeginMiniBatch
      <4>1. PICK m, r, b : job' = [job EXCEPT !.rows = r, !.micro = b, !.done = 0, !.minis = m]
        BY <3>2 DEF BeginMiniBatch
      <4> QED
        BY <2>2, <4>1
    <3>3. CASE ForwardBackward
      BY <2>2, <3>3 DEF ForwardBackward
    <3>4. CASE OptimizerStep
      <4>1. PICK r, b : job' = [job EXCEPT !.rows = r, !.micro = b, !.done = 0]
        BY <3>4 DEF OptimizerStep
      <4> QED
        BY <2>2, <4>1
    <3> QED
      BY <1>2, <3>1, <3>2, <3>3, <3>4
  <2>4. job' # NoJob
    <3>1. job.call # "none"
      BY <1>2 DEF Forward, BeginMiniBatch, ForwardBackward, OptimizerStep, Calls, Updates
    <3> QED
      BY <2>3, <3>1 DEF NoJob
  <2> QED
    BY <2>1, <2>3, <2>4, MemUnmoved
<1>3. CASE StartCall \/ BeginSave
  <2>1. /\ job = NoJob /\ UNCHANGED <<cfg, phase, engine>> /\ pc \in Calls \cup {"save"}
        /\ job'.call = pc /\ Load(ModelOf(pc), FALSE)
    <3>1. CASE StartCall
      <4>1. PICK rows, micro : job' = [call |-> pc, rows |-> rows, micro |-> micro, done |-> 0]
        BY <3>1 DEF StartCall
      <4>2. job'.call = pc
        BY <4>1
      <4> QED
        BY <3>1, <4>2 DEF StartCall
    <3>2. CASE BeginSave
      <4>1. job'.call = pc
        BY <3>2 DEF BeginSave
      <4> QED
        BY <3>2, <4>1 DEF BeginSave
    <3> QED
      BY <1>3, <3>1, <3>2
  <2>2. job' # NoJob /\ job'.call \notin Updates
    BY <2>1 DEF NoJob, Calls, Updates
  <2>3. phase = "trainer"
    BY <2>1, OneAtATime DEF Calls, GenerateCalls
  <2> QED
    BY <2>1, <2>2, <2>3, MemLoaded
<1>4. CASE StartUpdate
  <2>1. /\ job = NoJob /\ UNCHANGED <<cfg, phase, engine>> /\ pc \in Updates
        /\ job'.call = pc /\ Load(ModelOf(pc), TRUE)
    <3>1. PICK m, r, b : job' = [call |-> pc, minis |-> m, rows |-> r, micro |-> b, done |-> 0]
      BY <1>4 DEF StartUpdate
    <3>2. job'.call = pc
      BY <3>1
    <3> QED
      BY <1>4, <3>2 DEF StartUpdate
  <2>2. job' # NoJob
    BY <2>1 DEF NoJob, Updates
  <2>3. phase = "trainer"
    BY <2>1, OneAtATime DEF Updates, GenerateCalls
  <2> QED
    BY <2>1, <2>2, <2>3, MemLoaded
<1>5. CASE FinishCall \/ EndSave
  <2>1. /\ job.call \in Calls \cup {"save"} /\ job' = NoJob /\ UNCHANGED <<cfg, phase, engine>>
        /\ Offload(ModelOf(job.call), FALSE)
    BY <1>5 DEF FinishCall, EndSave
  <2>2. job # NoJob /\ job.call \notin Updates
    BY <2>1 DEF NoJob, Calls, Updates
  <2>3. phase = "trainer"
    BY <2>2, OneAtATime
  <2> QED
    BY <2>1, <2>2, <2>3, MemOffloaded
<1>6. CASE FinishUpdate
  <2>1. /\ job.call \in Updates /\ job' = NoJob /\ UNCHANGED <<cfg, phase, engine>>
        /\ Offload(ModelOf(job.call), TRUE)
    BY <1>6 DEF FinishUpdate
  <2>2. job # NoJob
    BY <2>1, OneAtATime
  <2>3. phase = "trainer"
    BY <2>2, OneAtATime
  <2> QED
    BY <2>1, <2>2, <2>3, MemOffloaded
<1>7. \/ UNCHANGED <<cfg, phase, onGpu, engine, job>>
      \/ SwitchMode \/ LeaveRollout
      \/ Forward \/ BeginMiniBatch \/ ForwardBackward \/ OptimizerStep
      \/ StartCall \/ BeginSave \/ StartUpdate \/ FinishCall \/ EndSave \/ FinishUpdate
  BY DEF Next, vars, Rollout, Driver, Compute, Train, Save, Finished, SendPrompts, Generate,
         ReceiveResponses, BalanceBatch, ComputeReward, ComputeAdvantage, SkipActorUpdate,
         EndStep, MegatronStepFails
<1> QED
  BY <1>1, <1>2, <1>3, <1>4, <1>5, <1>6, <1>7, MemSwitched, MemReleased

(* Weights, optimizer and KV cache take turns on the GPU in every          *)
(* configuration of offloading, cache and backend, and what computes or    *)
(* trains has what it needs (rollout_mode, trainer_mode, and the load and  *)
(* offload calls around each call of fsdp_workers.py, megatron_workers.py).*)
THEOREM MemoryIsShared == Spec => []MemoryShared
<1>1. Init => FlowInv /\ MemInv
  BY FlowInit, MemInit
<1>2. FlowInv /\ MemInv /\ [Next]_vars => FlowInv' /\ MemInv'
  BY FlowStep, MemStep
<1>3. FlowInv /\ MemInv => MemoryShared
  <2> SUFFICES ASSUME FlowInv, MemInv PROVE MemoryShared
    OBVIOUS
  <2>1. ASSUME engine.kv, cfg.freeCache, NEW m \in Modules
        PROVE  /\ cfg.paramOffload => ~onGpu[m].params
               /\ cfg.optOffload => ~onGpu[m].optim
    <3>1. phase = "rollout"
      BY <2>1 DEF MemInv
    <3>2. job = NoJob /\ NoJob.call \notin Updates
      BY <3>1, OneAtATime DEF NoJob, Updates
    <3>3. ~ Needed(m)
      BY <3>1, <3>2 DEF Needed
    <3> QED
      BY <3>2, <3>3 DEF MemInv
  <2>2. ASSUME job # NoJob, cfg.freeCache PROVE ~engine.kv /\ ~engine.weights
    BY <2>2, OneAtATime DEF MemInv
  <2> QED
    BY <2>1, <2>2 DEF MemoryShared, MemInv
<1> QED
  BY <1>1, <1>2, <1>3, PTL DEF Spec

-----------------------------------------------------------------------------
(* Random states. *)

(* No configuration keeps the KV cache in agent mode: the manager would    *)
(* then never call wake_up, and the engine generate with the weights and   *)
(* the random state it happens to have.                                    *)
EngineWoken == \A c \in Configs : ~ (c.async /\ ~c.freeCache)

(* The training state after the draws of a stream.                         *)
Training(kind) == [seed |-> "train", drawn |-> drawn[kind]]

RngInv ==
  /\ DOMAIN drawn = {"train", "gen"} /\ DOMAIN rng = {"stream", "at", "train", "gen"}
  /\ phase = "rollout" => rng.stream = "gen" /\ rng.at = Training("gen") /\ rng.train = Training("train")
  /\ phase # "rollout" => rng.stream = "train" /\ rng.at = Training("train") /\ rng.gen = Training("gen")

LEMMA RngStep == EngineWoken /\ FlowInv /\ RngInv /\ [Next]_vars => RngInv'
<1> SUFFICES ASSUME EngineWoken, FlowInv, RngInv, [Next]_vars PROVE RngInv'
  OBVIOUS
<1> USE DEF workerVars
<1>1. CASE UNCHANGED <<phase, rng, drawn>>
  BY <1>1 DEF RngInv, Training
<1>2. CASE SwitchMode
  <2>1. CASE ResumeCache
    BY <2>1 DEF ResumeCache, RngInv, Training
  <2>2. CASE ~ ResumeCache
    <3>1. UNCHANGED <<rng, drawn>> /\ phase # "rollout" /\ phase' # "rollout"
      BY <1>2, <2>2 DEF SwitchMode, Summon, OffloadSummoned, ResumeWeights, UpdateWeights,
                        MegatronSummon, MegatronUpdateWeights
    <3> QED
      BY <3>1 DEF RngInv, Training
  <2> QED
    BY <2>1, <2>2
<1>3. CASE Generate
  <2>1. phase = "rollout" /\ phase' = phase /\ Draw("gen")
    BY <1>3 DEF Generate, CanGenerate, SkipsWakeUp, EngineWoken, FlowInv
  <2> QED
    BY <2>1 DEF Draw, RngInv, Training
<1>4. CASE LeaveRollout
  BY <1>4 DEF LeaveRollout, TrainerMode, RngInv, Training
<1>5. CASE ForwardBackward
  <2>1. phase = "trainer" /\ phase' = phase /\ Draw("train")
    BY <1>5, OneAtATime DEF ForwardBackward
  <2> QED
    BY <2>1 DEF Draw, RngInv, Training
<1>6. \/ UNCHANGED <<phase, rng, drawn>> \/ SwitchMode \/ Generate \/ LeaveRollout
      \/ ForwardBackward
  BY DEF Next, vars, Rollout, Driver, Compute, Train, Save, Finished, SendPrompts,
         ReceiveResponses, BalanceBatch, ComputeReward, ComputeAdvantage, SkipActorUpdate,
         EndStep, StartCall, Forward, FinishCall, StartUpdate, BeginMiniBatch, OptimizerStep,
         MegatronStepFails, FinishUpdate, BeginSave, EndSave
<1> QED
  BY <1>1, <1>2, <1>3, <1>4, <1>5, <1>6

(* Training and generation each continue their own random state, whatever  *)
(* the order of rollouts, validations and updates (torch_random_states and *)
(* gen_random_states in rollout_mode and trainer_mode).                    *)
THEOREM RandomnessIsContinued ==
  ASSUME EngineWoken
  PROVE  Spec => []RandomnessContinues
<1>1. Init => FlowInv /\ RngInv
  <2>1. Init => RngInv
    <3> SUFFICES ASSUME Init PROVE RngInv
      OBVIOUS
    <3>1. ~ SkipsWakeUp
      BY DEF Init, EngineWoken, SkipsWakeUp
    <3> QED
      BY <3>1 DEF Init, WorkerInit, RngInv, Training
  <2> QED
    BY <2>1, FlowInit
<1>2. FlowInv /\ RngInv /\ [Next]_vars => FlowInv' /\ RngInv'
  BY FlowStep, RngStep
<1>3. RngInv => RandomnessContinues
  BY DEF RngInv, RandomnessContinues, Training
<1> QED
  BY <1>1, <1>2, <1>3, PTL DEF Spec

-----------------------------------------------------------------------------
(* The weights the engine answers with. *)

(* No adapter is sent to an engine whose base weights are discarded by     *)
(* each sleep: only the adapter would come back.                           *)
AdapterSurvives == \A c \in Configs : ~ (c.lora /\ ForceReload(c))

(* The engine of an adapter waits for the base model, which is sent once.  *)
BaseMissing == cfg.lora /\ ~cfg.megatron /\ ~baseSyncDone

EngineTypes ==
  /\ lens \in LenProfiles /\ policy \in [Models -> Nat] /\ baseSyncDone \in BOOLEAN
  /\ DOMAIN engine = {"base", "adapter", "weights", "kv"}

(* Until the base model is there nothing has been trained or generated; on *)
(* the way to the engine, and in it, are the weights the actor has.        *)
WeightsInv ==
  /\ engine.adapter # NoWeights => cfg.lora /\ ~cfg.megatron
  /\ BaseMissing =>
       /\ pc = "val_before_train" /\ policy["actor"] = 0 /\ engine.adapter = NoWeights
       /\ phase # "rollout" /\ (request # NoRequest => request.output = <<>>)
  /\ phase \in {"summoned", "offloaded", "awake"} =>
       staged = IF BaseMissing THEN 0 ELSE policy["actor"]
  /\ phase \in {"updated", "rollout"} => EnginePolicy = policy["actor"]

AnswersInv ==
  /\ pc \in {"val_before_train", "generate"} => batch = FreshBatch
  /\ request # NoRequest =>
       /\ \E S : request.prompts \in Seq(S)
       /\ \A i \in DOMAIN request.output : request.output[i].by = policy["actor"]

EngineInv == EngineTypes /\ WeightsInv /\ AnswersInv

LEMMA ConfigNumbers ==
  ASSUME cfg \in Configs
  PROVE  /\ cfg.world \in Nat \ {0} /\ cfg.sp \in Nat \ {0} /\ cfg.pp \in Nat \ {0}
         /\ cfg.tp \in Nat \ {0} /\ cfg.mini \in Nat \ {0} /\ cfg.epochs \in Nat \ {0}
         /\ cfg.maxTokens \in Nat \ {0} /\ cfg.micro \in Nat /\ cfg.logMicro \in Nat
         /\ cfg.world % (cfg.sp * cfg.pp) = 0 /\ cfg.world % cfg.tp = 0
         /\ cfg.lora \in BOOLEAN /\ cfg.layered \in BOOLEAN /\ cfg.dummyLoad \in BOOLEAN
BY ConfigsAssumption

LEMMA EngineMeshed ==
  ASSUME cfg \in Configs
  PROVE  /\ WellMeshed(EngineMesh, cfg.world \div cfg.tp)
         /\ DOMAIN EngineMesh.dpRank = Ranks
<1>1. cfg.world \in Nat \ {0} /\ cfg.tp \in Nat \ {0} /\ cfg.world % cfg.tp = 0
  BY ConfigNumbers
<1>2. WellMeshed(DeviceMesh(cfg.world, cfg.tp), cfg.world \div cfg.tp)
  BY <1>1, DeviceMeshed
<1>3. DOMAIN DeviceMesh(cfg.world, cfg.tp).dpRank = 0 .. cfg.world - 1
  BY DEF DeviceMesh
<1> QED
  BY <1>2, <1>3 DEF EngineMesh, Ranks

LEMMA PromptsType ==
  ASSUME cfg \in Configs, EngineTypes, NEW c \in GenerateCalls, c = "generate" => batch = FreshBatch
  PROVE  \E S : Prompts(c) \in Seq(S)
<1>1. CASE c = "generate"
  <2> DEFINE n == Len(lens)
             S == {batch[i].id : i \in 1 .. n}
             X == {FreshRow(i) : i \in 1 .. n}
  <2>1. lens \in Seq(Nat \ {0})
    BY ConfigsAssumption DEF EngineTypes
  <2>2. n \in Nat /\ DOMAIN lens = 1 .. n
    BY <2>1
  <2>3. batch = [i \in 1 .. n |-> FreshRow(i)]
    BY <1>1, <2>2 DEF FreshBatch, Ids
  <2> HIDE DEF n
  <2>4. batch \in [1 .. n -> X]
    BY <2>3
  <2> HIDE DEF X
  <2>5. Len(batch) = n
    BY <2>2, <2>4
  <2>6. IdsOf(batch) \in [1 .. n -> S]
    BY <2>5 DEF IdsOf
  <2> HIDE DEF S
  <2>7. IdsOf(batch) \in Seq(S)
    BY <2>2, <2>6
  <2> QED
    BY <1>1, <2>7 DEF Prompts
<1>2. CASE c # "generate"
  <2> DEFINE rows == Positions(ValRows)
             w == cfg.world
             k == PadSize(rows, w)
             pad == [i \in 1 .. k |-> rows[((i - 1) % Len(rows)) + 1]]
  <2>1. ValRows \in Nat \ {0} /\ w \in Nat \ {0}
    BY ConfigNumbers, ConfigsAssumption
  <2>2. rows \in [1 .. ValRows -> Nat]
    BY <2>1 DEF Positions
  <2> HIDE DEF rows, w
  <2>3. rows \in Seq(Nat) /\ Len(rows) = ValRows
    BY <2>1, <2>2
  <2>4. k \in Nat
    <3>1. ValRows % w \in 0 .. w - 1
      BY <2>1, DivMod
    <3> QED
      BY <2>1, <2>3, <3>1 DEF PadSize
  <2> HIDE DEF k
  <2>5. pad \in [1 .. k -> Nat]
    <3> SUFFICES ASSUME NEW i \in 1 .. k PROVE rows[((i - 1) % Len(rows)) + 1] \in Nat
      OBVIOUS
    <3>1. i - 1 \in Nat
      BY <2>4
    <3>2. (i - 1) % ValRows \in 0 .. ValRows - 1
      BY <2>1, <3>1, DivMod
    <3>3. ((i - 1) % ValRows) + 1 \in 1 .. ValRows
      BY <2>1, <3>2
    <3> QED
      BY <2>2, <2>3, <3>3
  <2> HIDE DEF pad
  <2>6. pad \in Seq(Nat)
    BY <2>4, <2>5
  <2>7. rows \o pad \in Seq(Nat)
    BY <2>3, <2>6, ConcatProperties
  <2>8. PadToDivisor(rows, w) = rows \o pad
    BY DEF PadToDivisor, pad, k
  <2>9. Prompts(c) = PadToDivisor(rows, w)
    BY <1>2 DEF Prompts, rows, w
  <2> QED
    BY <2>7, <2>8, <2>9
<1> QED
  BY <1>1, <1>2

(* Every answer of an engine comes from the weights it holds.              *)
LEMMA AnswersBy ==
  ASSUME cfg \in Configs, NEW S, request.prompts \in Seq(S), Generate,
         "output" \in DOMAIN request
  PROVE  \A i \in DOMAIN request'.output : request'.output[i].by = EnginePolicy
<1> DEFINE parts == DispatchNd(request.prompts, EngineMesh)
           answers == [r \in Ranks |-> [i \in 1 .. Len(parts[r]) |->
                                          [of |-> parts[r][i], by |-> EnginePolicy]]]
           order == InOrder(EngineMesh.collect)
           dp == cfg.world \div cfg.tp
           A == [of : S, by : {EnginePolicy}]
           pieces == [i \in 1 .. Len(order) |-> answers[order[i]]]
<1>1. request'.output = CollectNd(answers, EngineMesh)
  BY DEF Generate
<1>2. WellMeshed(EngineMesh, dp) /\ DOMAIN EngineMesh.dpRank = Ranks
  BY EngineMeshed
<1> HIDE DEF dp
<1>3. dp \in Nat \ {0} /\ order \in [1 .. dp -> Ranks] /\ Len(order) = dp
  BY <1>2 DEF WellMeshed
<1>4. \A r \in Ranks : parts[r] \in Seq(S)
  BY <1>2, DispatchType
<1> HIDE DEF parts, order
<1>5. \A r \in Ranks : answers[r] \in Seq(A)
  BY <1>4
<1> HIDE DEF answers, A
<1>6. pieces \in [1 .. dp -> Seq(A)]
  BY <1>3, <1>5
<1>7. CollectNd(answers, EngineMesh) = FlattenSeq(pieces)
  BY DEF CollectNd, order
<1> HIDE DEF pieces
<1>8. pieces \in Seq(Seq(A))
  BY <1>3, <1>6
<1>9. FlattenSeq(pieces) \in Seq(A)
  BY <1>8, FlattenType
<1> DEFINE whole == FlattenSeq(pieces)
<1> HIDE DEF whole
<1>10. \A i \in DOMAIN whole : whole[i] \in A
  BY <1>9 DEF whole
<1>11. \A i \in DOMAIN whole : whole[i].by = EnginePolicy
  BY <1>10 DEF A
<1> QED
  BY <1>1, <1>7, <1>11 DEF whole

(* Only the first validation leads to a rollout, and no call back to it.   *)
LEMMA NextCalls ==
  \A c \in DOMAIN NextCall : /\ NextCall[c] # "val_before_train"
                             /\ NextCall[c] = "generate" => c = "val_before_train"
BY DEF NextCall

(* A step that leaves worker, engine and request alone.                    *)
LEMMA EngineQuiet ==
  ASSUME EngineInv, UNCHANGED <<cfg, phase, policy, engine, staged, baseSyncDone, lens, request>>,
         pc = "val_before_train" => pc' = pc,
         pc' \in {"val_before_train", "generate"} => batch' = FreshBatch
  PROVE  EngineInv'
<1>1. EngineTypes'
  BY DEF EngineInv, EngineTypes
<1>2. FreshBatch' = FreshBatch
  BY DEF FreshBatch, Ids, FreshRow
<1>3. WeightsInv'
  BY DEF EngineInv, WeightsInv, BaseMissing, EnginePolicy
<1>4. AnswersInv'
  BY <1>2 DEF EngineInv, AnswersInv
<1> QED
  BY <1>1, <1>3, <1>4 DEF EngineInv

LEMMA EngineSwitched ==
  ASSUME AdapterSurvives, FlowInv, EngineInv, SwitchMode
  PROVE  EngineInv'
<1>1. /\ request # NoRequest /\ request' = request /\ request.output = <<>>
      /\ UNCHANGED <<cfg, lens, pc, batch, policy>>
  BY DEF SwitchMode, Summon, OffloadSummoned, ResumeWeights, UpdateWeights, ResumeCache,
         MegatronSummon, MegatronUpdateWeights
<1>2. AnswersInv'
  <2>1. FreshBatch' = FreshBatch
    BY <1>1 DEF FreshBatch, Ids, FreshRow
  <2> QED
    BY <1>1, <2>1 DEF EngineInv, AnswersInv
<1>3. /\ cfg.lora \in BOOLEAN /\ cfg.layered \in BOOLEAN /\ cfg.megatron \in BOOLEAN
      /\ cfg \in Configs
  BY ConfigNumbers, Switches DEF FlowInv
<1>4. policy["actor"] \in Nat
  BY DEF EngineInv, EngineTypes, Models
<1>5. EngineTypes'
  <2>1. DOMAIN engine' = DOMAIN engine
    BY DEF SwitchMode, Summon, OffloadSummoned, ResumeWeights, UpdateWeights, ResumeCache,
           MegatronSummon, MegatronUpdateWeights
  <2>2. baseSyncDone' \in BOOLEAN
    BY DEF SwitchMode, Summon, OffloadSummoned, ResumeWeights, UpdateWeights, ResumeCache,
           MegatronSummon, MegatronUpdateWeights, EngineInv, EngineTypes, ForceReload
  <2> QED
    BY <1>1, <2>1, <2>2 DEF EngineInv, EngineTypes
<1>6. WeightsInv'
  <2> USE DEF EngineInv, WeightsInv
  <2>1. CASE Summon \/ MegatronSummon
    <3>1. /\ UNCHANGED <<engine, baseSyncDone>>
          /\ phase' \in {"summoned", "offloaded"}
          /\ staged' = IF BaseMissing THEN 0 ELSE policy["actor"]
      BY <1>3, <2>1 DEF Summon, MegatronSummon, BaseMissing
    <3> QED
      BY <1>1, <3>1 DEF BaseMissing, EnginePolicy
  <2>2. CASE OffloadSummoned
    BY <1>1, <2>2 DEF OffloadSummoned, BaseMissing, EnginePolicy
  <2>3. CASE ResumeWeights
    <3>1. /\ engine'.adapter = engine.adapter /\ engine'.base = engine.base
          /\ UNCHANGED <<staged, baseSyncDone>> /\ phase = "offloaded" /\ phase' = "awake"
      BY <2>3 DEF ResumeWeights, EngineTypes
    <3> QED
      BY <1>1, <3>1 DEF BaseMissing
  <2>4. CASE UpdateWeights
    <3>1. phase = "awake" /\ phase' = "updated" /\ ~cfg.megatron /\ UNCHANGED baseSyncDone
      BY <2>4 DEF UpdateWeights
    <3>2. CASE cfg.lora /\ baseSyncDone
      <4>1. staged = policy["actor"] /\ ~BaseMissing
        BY <3>1, <3>2 DEF BaseMissing
      <4>2. engine'.adapter = policy["actor"]
        BY <2>4, <3>2, <4>1 DEF UpdateWeights, EngineTypes
      <4>3. EnginePolicy' = policy["actor"]
        BY <1>4, <4>2 DEF EnginePolicy, NoWeights
      <4> QED
        BY <1>1, <3>1, <3>2, <4>1, <4>2, <4>3 DEF BaseMissing
    <3>3. CASE ~ (cfg.lora /\ baseSyncDone)
      <4>1. engine'.base = staged /\ engine'.adapter = engine.adapter
        BY <2>4, <3>3 DEF UpdateWeights, EngineTypes
      <4>2. engine.adapter = NoWeights
        BY <1>3, <3>1, <3>3 DEF BaseMissing, EngineTypes
      <4>3. staged = policy["actor"]
        BY <3>1, <3>3 DEF BaseMissing
      <4>4. EnginePolicy' = policy["actor"]
        BY <4>1, <4>2, <4>3 DEF EnginePolicy
      <4> QED
        BY <1>1, <3>1, <3>3, <4>1, <4>2, <4>4 DEF BaseMissing
    <3> QED
      BY <3>2, <3>3
  <2>5. CASE MegatronUpdateWeights
    <3>1. /\ phase = "awake" /\ phase' = "updated" /\ cfg.megatron /\ UNCHANGED baseSyncDone
          /\ engine'.base = staged /\ engine'.adapter = engine.adapter
      BY <2>5 DEF MegatronUpdateWeights, EngineTypes
    <3>2. staged = policy["actor"] /\ engine.adapter = NoWeights
      BY <3>1 DEF BaseMissing
    <3>3. EnginePolicy' = policy["actor"]
      BY <3>1, <3>2 DEF EnginePolicy
    <3> QED
      BY <1>1, <3>1, <3>2, <3>3 DEF BaseMissing
  <2>6. CASE ResumeCache
    <3>1. /\ phase = "updated" /\ phase' = "rollout"
          /\ engine'.base = engine.base /\ engine'.adapter = engine.adapter
          /\ baseSyncDone' = ~ForceReload(cfg)
      BY <2>6 DEF ResumeCache, EngineTypes
    <3>2. ~ BaseMissing'
      <4>1. cfg.lora => ~ForceReload(cfg)
        BY <1>3 DEF AdapterSurvives
      <4> QED
        BY <1>1, <3>1, <4>1 DEF BaseMissing
    <3>3. EnginePolicy' = EnginePolicy
      BY <3>1 DEF EnginePolicy
    <3> QED
      BY <1>1, <3>1, <3>2, <3>3
  <2> QED
    BY <2>1, <2>2, <2>3, <2>4, <2>5, <2>6 DEF SwitchMode
<1> QED
  BY <1>2, <1>5, <1>6 DEF EngineInv

LEMMA EngineRequest ==
  ASSUME EngineWoken, FlowInv, EngineInv,
         SendPrompts \/ Generate \/ LeaveRollout \/ ReceiveResponses
  PROVE  EngineInv'
<1>1. UNCHANGED <<cfg, policy, lens, baseSyncDone>> /\ policy["actor"] \in Nat
  BY DEF SendPrompts, Generate, LeaveRollout, ReceiveResponses, TrainerMode, workerVars,
         EngineInv, EngineTypes, Models
<1>2. FreshBatch' = FreshBatch
  BY <1>1 DEF FreshBatch, Ids, FreshRow
<1>3. CASE SendPrompts
  <2>1. /\ request = NoRequest /\ pc \in GenerateCalls
        /\ request' = [purpose |-> pc, prompts |-> Prompts(pc), output |-> <<>>]
        /\ UNCHANGED <<phase, engine, staged, pc, batch>>
    BY <1>3 DEF SendPrompts, GenerateCalls, workerVars
  <2>2. \E S : Prompts(pc) \in Seq(S)
    BY <2>1, PromptsType DEF EngineInv, AnswersInv, FlowInv
  <2> HIDE DEF Prompts
  <2>3. request'.prompts = Prompts(pc) /\ request'.output = <<>>
    BY <2>1
  <2>4. EngineTypes' /\ WeightsInv'
    BY <1>1, <2>1, <2>3 DEF EngineInv, EngineTypes, WeightsInv, BaseMissing, EnginePolicy
  <2>5. AnswersInv'
    BY <1>2, <2>1, <2>2, <2>3 DEF EngineInv, AnswersInv
  <2> QED
    BY <2>4, <2>5 DEF EngineInv
<1>4. CASE Generate
  <2>1. /\ request # NoRequest /\ phase = "rollout" /\ \E o : request' = [request EXCEPT !.output = o]
        /\ UNCHANGED <<phase, engine, staged, pc, batch>>
    BY <1>4 DEF Generate, CanGenerate, SkipsWakeUp, EngineWoken, FlowInv
  <2>2. DOMAIN request = {"purpose", "prompts", "output"}
    <3>1. PICK prompts, output : request = [purpose |-> pc, prompts |-> prompts, output |-> output]
      BY <2>1 DEF FlowInv
    <3> QED
      BY <3>1
  <2>3. PICK S : request.prompts \in Seq(S)
    BY <2>1 DEF EngineInv, AnswersInv
  <2>4. \A i \in DOMAIN request'.output : request'.output[i].by = EnginePolicy
    BY <1>4, <2>2, <2>3, AnswersBy DEF FlowInv
  <2>5. request'.prompts = request.prompts
    <3>1. PICK o : request' = [request EXCEPT !.output = o]
      BY <2>1
    <3> QED
      BY <2>2, <3>1
  <2>6. EnginePolicy = policy["actor"] /\ ~ BaseMissing
    BY <2>1 DEF EngineInv, WeightsInv
  <2>7. EngineTypes' /\ WeightsInv'
    BY <1>1, <2>1, <2>6 DEF EngineInv, EngineTypes, WeightsInv, BaseMissing, EnginePolicy
  <2>8. AnswersInv'
    BY <1>1, <1>2, <2>1, <2>3, <2>4, <2>5, <2>6 DEF EngineInv, AnswersInv
  <2> QED
    BY <2>7, <2>8 DEF EngineInv
<1>5. CASE LeaveRollout
  <2>1. /\ phase = "rollout" /\ phase' = "trainer" /\ engine'.adapter = engine.adapter
        /\ DOMAIN engine' = DOMAIN engine /\ UNCHANGED <<pc, batch, request>>
    BY <1>5 DEF LeaveRollout, TrainerMode, EngineInv, EngineTypes
  <2>2. ~ BaseMissing
    BY <2>1 DEF EngineInv, WeightsInv
  <2>3. EngineTypes' /\ WeightsInv'
    BY <1>1, <2>1, <2>2 DEF EngineInv, EngineTypes, WeightsInv, BaseMissing
  <2>4. AnswersInv'
    BY <1>1, <1>2, <2>1 DEF EngineInv, AnswersInv
  <2> QED
    BY <2>3, <2>4 DEF EngineInv
<1>6. CASE ReceiveResponses
  <2>1. /\ request # NoRequest /\ request.output # <<>> /\ request' = NoRequest
        /\ pc' = NextCall[request.purpose] /\ phase = "trainer"
        /\ request.purpose # "generate" => batch' = batch
        /\ UNCHANGED <<phase, engine, staged>>
    BY <1>6 DEF ReceiveResponses, workerVars
  <2>2. request.purpose = pc /\ pc \in GenerateCalls
    <3>1. PICK prompts, output : request = [purpose |-> pc, prompts |-> prompts, output |-> output]
      BY <2>1 DEF FlowInv
    <3> QED
      BY <2>1, <3>1 DEF FlowInv
  <2>3. pc \in DOMAIN NextCall
    BY <2>2 DEF GenerateCalls, NextCall
  <2>4. pc' # "val_before_train" /\ (pc' = "generate" => pc = "val_before_train")
    BY <2>1, <2>2, <2>3, NextCalls
  <2>5. ~ BaseMissing
    BY <2>1 DEF EngineInv, WeightsInv
  <2>6. EngineTypes' /\ WeightsInv'
    BY <1>1, <2>1, <2>5 DEF EngineInv, EngineTypes, WeightsInv, BaseMissing, EnginePolicy
  <2>7. AnswersInv'
    BY <1>2, <2>1, <2>2, <2>4 DEF EngineInv, AnswersInv
  <2> QED
    BY <2>6, <2>7 DEF EngineInv
<1> QED
  BY <1>3, <1>4, <1>5, <1>6

LEMMA EngineTrained ==
  ASSUME FlowInv, EngineInv, OptimizerStep
  PROVE  EngineInv'
<1>1. /\ job.call \in Updates
      /\ UNCHANGED <<cfg, phase, engine, staged, baseSyncDone, lens, pc, batch, request>>
  BY DEF OptimizerStep
<1>2. request = NoRequest /\ phase = "trainer" /\ pc \notin GenerateCalls
  BY <1>1, OneAtATime
<1>3. policy' \in [Models -> Nat]
  <2>1. PICK m \in ModelOf(job.call) :
          policy' \in {[policy EXCEPT ![m] = @ + 1]} \cup (IF cfg.megatron THEN {} ELSE {policy})
    BY DEF OptimizerStep
  <2>2. m \in Models
    BY <1>1, <2>1 DEF ModelOf, Models, Updates
  <2>3. policy' = [policy EXCEPT ![m] = @ + 1] \/ policy' = policy
    BY <2>1
  <2> QED
    BY <2>2, <2>3 DEF EngineInv, EngineTypes
<1>4. EngineTypes' /\ WeightsInv'
  BY <1>1, <1>2, <1>3 DEF EngineInv, EngineTypes, WeightsInv, BaseMissing, GenerateCalls
<1>5. AnswersInv'
  BY <1>1, <1>2 DEF EngineInv, AnswersInv, GenerateCalls
<1> QED
  BY <1>4, <1>5 DEF EngineInv

(* After an exception the update stays where it was.                       *)
RaisedInv == pc = "raised" => job.call \in Updates /\ job.rows[0] # <<>>

LEMMA RaisedStep == FlowInv /\ RaisedInv /\ [Next]_vars => RaisedInv'
<1> SUFFICES ASSUME FlowInv, RaisedInv, [Next]_vars, pc' = "raised"
             PROVE  (job.call \in Updates /\ job.rows[0] # <<>>)'
  BY DEF RaisedInv
<1> USE DEF workerVars
<1>1. CASE MegatronStepFails
  BY <1>1 DEF MegatronStepFails
<1>2. CASE pc = "raised" /\ UNCHANGED job
  BY <1>2 DEF RaisedInv
<1>3. CASE pc = "raised" /\ ForwardBackward
  <2>1. job' = [job EXCEPT !.done = @ + 1] /\ IsUpdating(job)
    BY <1>3, OneAtATime DEF ForwardBackward
  <2>2. job'.call = job.call /\ job'.rows = job.rows
    BY <2>1 DEF IsUpdating
  <2> QED
    BY <1>3, <2>2 DEF RaisedInv
<1>4. CASE pc # "raised" /\ pc' = NextCall[pc] /\ pc \in DOMAIN NextCall
  BY <1>4 DEF NextCall
<1>5. pc = "raised" => job.call \in Updates /\ job.rows[0] # <<>>
  BY DEF RaisedInv
<1>6. CASE ReceiveResponses
  <2>1. request # NoRequest /\ pc' = NextCall[request.purpose]
    BY <1>6 DEF ReceiveResponses
  <2>2. request.purpose = pc /\ pc \in GenerateCalls
    <3>1. PICK prompts, output : request = [purpose |-> pc, prompts |-> prompts, output |-> output]
      BY <2>1 DEF FlowInv
    <3> QED
      BY <2>1, <3>1 DEF FlowInv
  <2> QED
    BY <1>4, <2>1, <2>2 DEF GenerateCalls, NextCall
<1>7. CASE BalanceBatch \/ ComputeReward \/ ComputeAdvantage \/ SkipActorUpdate \/ EndStep
  BY <1>4, <1>7 DEF BalanceBatch, ComputeReward, ComputeAdvantage, SkipActorUpdate, EndStep, NextCall
<1>8. CASE FinishCall \/ FinishUpdate
  <2>1. pc' = NextCall[pc] /\ job.call \in Calls \cup Updates /\ pc # "raised"
    BY <1>5, <1>8 DEF FinishCall, FinishUpdate, Calls, Updates
  <2>2. pc \in Calls \cup Updates
    BY <2>1, OneAtATime DEF FlowInv
  <2> QED
    BY <1>4, <2>1, <2>2 DEF NextCall, Calls, Updates
<1>9. CASE StartCall \/ Forward \/ StartUpdate \/ BeginMiniBatch \/ OptimizerStep \/ BeginSave
           \/ EndSave
  <2>1. pc # "raised"
    BY <1>5, <1>9 DEF StartCall, Forward, StartUpdate, BeginMiniBatch, OptimizerStep, BeginSave,
                      EndSave, Calls, Updates
  <2>2. pc' = pc \/ pc' = "endstep"
    BY <1>9 DEF StartCall, Forward, StartUpdate, BeginMiniBatch, OptimizerStep, BeginSave, EndSave
  <2> QED
    BY <2>1, <2>2
<1>10. CASE SendPrompts \/ SwitchMode \/ Generate \/ LeaveRollout \/ ForwardBackward \/ UNCHANGED vars
  BY <1>2, <1>3, <1>10 DEF SendPrompts, SwitchMode, Generate, LeaveRollout, ForwardBackward, vars
<1> QED
  BY <1>1, <1>6, <1>7, <1>8, <1>9, <1>10 DEF Next, Rollout, Driver, Compute, Train, Save, Finished

LEMMA EngineStep ==
  /\ EngineWoken /\ AdapterSurvives
  /\ FlowInv /\ RaisedInv /\ EngineInv /\ [Next]_vars
  => EngineInv'
<1> SUFFICES ASSUME EngineWoken, AdapterSurvives, FlowInv, RaisedInv, EngineInv, [Next]_vars
             PROVE  EngineInv'
  OBVIOUS
<1> USE DEF workerVars
<1>1. CASE UNCHANGED vars
  BY <1>1, EngineQuiet DEF vars, EngineInv, AnswersInv
<1>2. CASE BalanceBatch \/ ComputeReward \/ ComputeAdvantage \/ SkipActorUpdate
  <2>1. /\ UNCHANGED <<cfg, phase, policy, engine, staged, baseSyncDone, lens, request>>
        /\ pc' = NextCall[pc] /\ pc \in {"balance", "rewards", "adv", "update_actor"}
    BY <1>2 DEF BalanceBatch, ComputeReward, ComputeAdvantage, SkipActorUpdate
  <2>2. pc \in DOMAIN NextCall /\ pc # "val_before_train"
    BY <2>1 DEF NextCall
  <2>3. pc' \notin {"val_before_train", "generate"}
    BY <2>1, <2>2, NextCalls
  <2> QED
    BY <2>1, <2>2, <2>3, EngineQuiet
<1>3. CASE FinishCall \/ FinishUpdate
  <2>1. /\ UNCHANGED <<cfg, phase, policy, engine, staged, baseSyncDone, lens, request>>
        /\ pc' = NextCall[pc] /\ job.call \in Calls \cup Updates
    BY <1>3 DEF FinishCall, FinishUpdate
  <2>2. pc \in Calls \cup Updates \cup {"raised"}
    BY <2>1, OneAtATime DEF FlowInv
  <2>3. pc # "raised"
    BY <1>3 DEF FinishCall, FinishUpdate, RaisedInv, Calls, Updates
  <2>4. pc \in DOMAIN NextCall /\ pc # "val_before_train"
    BY <2>2, <2>3 DEF NextCall, Calls, Updates
  <2>5. pc' \notin {"val_before_train", "generate"}
    BY <2>1, <2>4, NextCalls
  <2> QED
    BY <2>1, <2>4, <2>5, EngineQuiet
<1>4. CASE EndStep
  <2>1. /\ UNCHANGED <<cfg, phase, policy, engine, staged, baseSyncDone, lens, request>>
        /\ pc = "endstep" /\ pc' \in {"done", "generate"} /\ (pc' = "generate" => batch' = FreshBatch)
    BY <1>4 DEF EndStep
  <2> QED
    BY <2>1, EngineQuiet
<1>5. CASE StartCall \/ Forward \/ StartUpdate \/ BeginMiniBatch \/ ForwardBackward \/ BeginSave
  <2>1. /\ UNCHANGED <<cfg, phase, policy, engine, staged, baseSyncDone, lens, request, pc, batch>>
    BY <1>5 DEF StartCall, Forward, StartUpdate, BeginMiniBatch, ForwardBackward, BeginSave
  <2> QED
    BY <2>1, EngineQuiet DEF EngineInv, AnswersInv
<1>6. CASE MegatronStepFails \/ EndSave
  <2>1. /\ UNCHANGED <<cfg, phase, policy, engine, staged, baseSyncDone, lens, request>>
        /\ pc' \in {"raised", "endstep"} /\ job.call \in Updates \cup {"save"}
    BY <1>6 DEF MegatronStepFails, EndSave
  <2>2. pc \notin GenerateCalls
    <3>1. job # NoJob
      BY <2>1 DEF NoJob, Updates
    <3> QED
      BY <3>1, OneAtATime
  <2> QED
    BY <2>1, <2>2, EngineQuiet DEF GenerateCalls
<1> QED
  BY <1>1, <1>2, <1>3, <1>4, <1>5, <1>6, EngineSwitched, EngineRequest, EngineTrained
     DEF Next, Rollout, Driver, Compute, Train, Save, Finished

LEMMA EngineInit == Init => EngineInv
<1> SUFFICES ASSUME Init PROVE EngineInv
  OBVIOUS
<1>1. /\ cfg \in Configs /\ lens \in LenProfiles /\ pc = "val_before_train"
      /\ batch = FreshBatch /\ request = NoRequest /\ WorkerInit
  BY DEF Init
<1>2. EngineTypes
  BY <1>1, ConfigNumbers DEF WorkerInit, EngineTypes, ForceReload, Models
<1>3. WeightsInv /\ AnswersInv
  BY <1>1 DEF WorkerInit, WeightsInv, AnswersInv, Models
<1> QED
  BY <1>1, <1>2, <1>3 DEF EngineInv

(* The engine answers with the weights of the actor, in every rollout and  *)
(* validation: full weights or adapter, FSDP or Megatron, whether the      *)
(* engine sleeps and whatever it gives up then (rollout_mode, which the    *)
(* two assumptions say is reached and sends what the engine lacks).        *)
THEOREM GenerationIsCurrent ==
  ASSUME EngineWoken, AdapterSurvives
  PROVE  Spec => []GeneratesWithCurrentPolicy
<1>1. Init => FlowInv /\ RaisedInv /\ EngineInv
  BY FlowInit, EngineInit DEF Init, RaisedInv
<1>2. FlowInv /\ RaisedInv /\ EngineInv /\ [Next]_vars => FlowInv' /\ RaisedInv' /\ EngineInv'
  BY FlowStep, RaisedStep, EngineStep
<1>3. EngineInv => GeneratesWithCurrentPolicy
  BY DEF EngineInv, AnswersInv, GeneratesWithCurrentPolicy
<1> QED
  BY <1>1, <1>2, <1>3, PTL DEF Spec

-----------------------------------------------------------------------------
(* The rows of the driver's batch. *)

RowCount == Len(lens)

HasRows(rows) ==
  /\ rows = [i \in 1 .. RowCount |-> rows[i]]
  /\ \A i \in 1 .. RowCount : DOMAIN rows[i] = RowFields /\ rows[i].id \in 1 .. RowCount

EachOnce(rows) ==
  /\ \A i, j \in 1 .. RowCount : rows[i].id = rows[j].id => i = j
  /\ \A x \in 1 .. RowCount : \E i \in 1 .. RowCount : rows[i].id = x

Aligned(rows) ==
  \A i \in 1 .. RowCount, c \in Columns : rows[i][c] # NoCell => rows[i][c].of = rows[i].id

BatchOK(rows) == HasRows(rows) /\ EachOnce(rows) /\ Aligned(rows)

(* Each row has its own cell in a column, computed with some weights.      *)
Filled(rows, column, weights) ==
  \A i \in 1 .. RowCount : rows[i][column] = [of |-> rows[i].id, by |-> weights]

LEMMA LensType ==
  ASSUME cfg \in Configs, lens \in LenProfiles
  PROVE  /\ lens \in Lengths /\ RowCount \in Nat \ {0} /\ Ids = 1 .. RowCount
<1>1. lens \in Lengths
  BY ConfigsAssumption DEF Lengths
<1>3. lens # <<>>
  BY RowsAssumption
<1>2. lens \in Lengths /\ RowCount \in Nat \ {0} /\ DOMAIN lens = 1 .. RowCount
  BY <1>1, <1>3 DEF Lengths, RowCount
<1> QED
  BY <1>2 DEF Ids

LEMMA RowsLen ==
  ASSUME RowCount \in Nat, NEW rows, HasRows(rows)
  PROVE  Len(rows) = RowCount /\ DOMAIN rows = 1 .. RowCount
BY DEF HasRows

LEMMA FreshFields ==
  ASSUME NEW i
  PROVE  /\ DOMAIN FreshRow(i) = RowFields /\ FreshRow(i).id = i
         /\ \A c \in Columns : FreshRow(i)[c] = NoCell
<1>1. "id" \notin Columns /\ "score" \notin Columns /\ "advantages" \notin Columns
  BY DEF Columns
<1> QED
  BY <1>1 DEF FreshRow, RowFields

LEMMA FreshOK ==
  ASSUME cfg \in Configs, lens \in LenProfiles
  PROVE  BatchOK(FreshBatch)
<1>1. FreshBatch = [i \in 1 .. RowCount |-> FreshRow(i)]
  BY LensType DEF FreshBatch
<1>2. \A i \in 1 .. RowCount : FreshBatch[i] = FreshRow(i)
  BY <1>1
<1>3. FreshBatch = [i \in 1 .. RowCount |-> FreshBatch[i]]
  BY <1>1
<1> HIDE DEF FreshBatch
<1>4. HasRows(FreshBatch) /\ EachOnce(FreshBatch) /\ Aligned(FreshBatch)
  <2>1. \A i \in 1 .. RowCount : FreshBatch[i].id = i /\ DOMAIN FreshBatch[i] = RowFields
                                 /\ \A c \in Columns : FreshBatch[i][c] = NoCell
    BY <1>2, FreshFields
  <2> QED
    BY <1>3, <2>1 DEF HasRows, EachOnce, Aligned
<1> QED
  BY <1>4 DEF BatchOK

(* One field of each row gets a new value.                                 *)
SetsField(new, rows, field, values) ==
  new = [i \in 1 .. RowCount |-> [rows[i] EXCEPT ![field] = values[i]]]

LEMMA FieldSet ==
  ASSUME NEW rows, HasRows(rows), EachOnce(rows), NEW field \in RowFields, field # "id",
         NEW values, NEW new, SetsField(new, rows, field, values)
  PROVE  /\ HasRows(new) /\ EachOnce(new)
         /\ \A i \in 1 .. RowCount : /\ new[i].id = rows[i].id /\ new[i][field] = values[i]
                                     /\ \A f \in RowFields \ {field} : new[i][f] = rows[i][f]
<1>1. \A i \in 1 .. RowCount : new[i] = [rows[i] EXCEPT ![field] = values[i]]
  BY DEF SetsField
<1>2. new = [i \in 1 .. RowCount |-> new[i]]
  BY DEF SetsField
<1>3. \A i \in 1 .. RowCount : DOMAIN rows[i] = RowFields
  BY DEF HasRows
<1>4. \A i \in 1 .. RowCount : /\ DOMAIN new[i] = RowFields
                               /\ new[i][field] = values[i]
                               /\ \A f \in RowFields \ {field} : new[i][f] = rows[i][f]
  BY <1>1, <1>3
<1>5. "id" \in RowFields \ {field}
  BY DEF RowFields
<1>6. \A i \in 1 .. RowCount : new[i].id = rows[i].id
  BY <1>4, <1>5
<1> QED
  BY <1>2, <1>4, <1>6 DEF HasRows, EachOnce

(* Identity and the other columns of each row are kept.                    *)
KeepsOthers(new, rows, column) ==
  \A i \in 1 .. RowCount :
    new[i].id = rows[i].id /\ \A c \in Columns \ {column} : new[i][c] = rows[i][c]

(* DataProto.union with one cell for each row.                             *)
LEMMA UnionOK ==
  ASSUME NEW rows, BatchOK(rows), RowCount \in Nat, NEW column \in Columns, NEW weights,
         NEW cells, \A i \in 1 .. RowCount : cells[i] = [of |-> rows[i].id, by |-> weights]
  PROVE  /\ BatchOK(Union(rows, column, cells))
         /\ Filled(Union(rows, column, cells), column, weights)
         /\ KeepsOthers(Union(rows, column, cells), rows, column)
<1> DEFINE new == Union(rows, column, cells)
<1>1. SetsField(new, rows, column, cells)
  BY RowsLen DEF Union, SetsField, BatchOK
<1>2. column \in RowFields /\ column # "id" /\ Columns \subseteq RowFields
  BY DEF RowFields, Columns
<1> HIDE DEF new
<1>3. /\ HasRows(new) /\ EachOnce(new)
      /\ \A i \in 1 .. RowCount : /\ new[i].id = rows[i].id /\ new[i][column] = cells[i]
                                  /\ \A f \in RowFields \ {column} : new[i][f] = rows[i][f]
  BY <1>1, <1>2, FieldSet DEF BatchOK
<1>4. Filled(new, column, weights)
  BY <1>3 DEF Filled
<1>5. \A c \in Columns \ {column} : \A i \in 1 .. RowCount : new[i][c] = rows[i][c]
  BY <1>2, <1>3
<1>6. Aligned(new)
  <2> SUFFICES ASSUME NEW i \in 1 .. RowCount, NEW c \in Columns, new[i][c] # NoCell
               PROVE  new[i][c].of = new[i].id
    BY DEF Aligned
  <2>1. CASE c = column
    <3>1. new[i][column] = [of |-> new[i].id, by |-> weights]
      BY <1>4 DEF Filled
    <3>2. new[i][column].of = new[i].id
      BY <3>1
    <3> QED
      BY <2>1, <3>2
  <2>2. CASE c # column
    <3>1. new[i][c] = rows[i][c] /\ new[i].id = rows[i].id
      BY <1>3, <1>5, <2>2
    <3> QED
      BY <3>1 DEF BatchOK, Aligned
  <2> QED
    BY <2>1, <2>2
<1>7. KeepsOthers(new, rows, column)
  BY <1>3, <1>5 DEF KeepsOthers
<1> QED
  BY <1>3, <1>4, <1>6, <1>7 DEF BatchOK, new

(* Fields that are no columns.                                             *)
LEMMA OwnFieldOK ==
  ASSUME NEW rows, BatchOK(rows), NEW field \in {"score", "advantages"}, NEW values,
         NEW new, SetsField(new, rows, field, values)
  PROVE  /\ BatchOK(new)
         /\ \A i \in 1 .. RowCount : new[i].id = rows[i].id
         /\ \A c \in Columns : \A i \in 1 .. RowCount : new[i][c] = rows[i][c]
<1>1. field \in RowFields /\ field # "id" /\ Columns \subseteq RowFields \ {field}
  BY DEF RowFields, Columns
<1>2. /\ HasRows(new) /\ EachOnce(new)
      /\ \A i \in 1 .. RowCount : /\ new[i].id = rows[i].id
                                  /\ \A f \in RowFields \ {field} : new[i][f] = rows[i][f]
  BY <1>1, FieldSet DEF BatchOK
<1>3. \A c \in Columns : \A i \in 1 .. RowCount : new[i][c] = rows[i][c]
  BY <1>1, <1>2
<1>4. Aligned(new)
  BY <1>2, <1>3 DEF BatchOK, Aligned
<1> QED
  BY <1>2, <1>3, <1>4 DEF BatchOK

LEMMA ReorderedOK ==
  ASSUME NEW rows, BatchOK(rows), RowCount \in Nat, NEW e, Permutes(e, RowCount), Len(e) = RowCount
  PROVE  /\ BatchOK(Reorder(rows, e))
         /\ \A c, w : Filled(rows, c, w) => Filled(Reorder(rows, e), c, w)
<1> DEFINE new == Reorder(rows, e)
<1>1. new = [i \in 1 .. RowCount |-> rows[e[i]]]
  BY DEF Reorder
<1>2. /\ \A i \in 1 .. RowCount : e[i] \in 1 .. RowCount
      /\ \A i, j \in 1 .. RowCount : e[i] = e[j] => i = j
      /\ \A x \in 1 .. RowCount : \E i \in 1 .. RowCount : e[i] = x
  BY DEF Permutes, Bijection, Injection, Surjection, IsInjective
<1>3. new = [i \in 1 .. RowCount |-> new[i]] /\ \A i \in 1 .. RowCount : new[i] = rows[e[i]]
  BY <1>1
<1> HIDE DEF new
<1>4. HasRows(new)
  <2>1. \A i \in 1 .. RowCount : DOMAIN rows[i] = RowFields /\ rows[i].id \in 1 .. RowCount
    BY DEF BatchOK, HasRows
  <2>2. \A i \in 1 .. RowCount : DOMAIN new[i] = RowFields /\ new[i].id \in 1 .. RowCount
    <3> TAKE i \in 1 .. RowCount
    <3>1. new[i] = rows[e[i]] /\ e[i] \in 1 .. RowCount
      BY <1>2, <1>3
    <3> QED
      BY <2>1, <3>1
  <2> QED
    BY <1>3, <2>2 DEF HasRows
<1>5. EachOnce(new)
  <2>1. /\ \A i, j \in 1 .. RowCount : rows[i].id = rows[j].id => i = j
        /\ \A x \in 1 .. RowCount : \E i \in 1 .. RowCount : rows[i].id = x
    BY DEF BatchOK, EachOnce
  <2>2. ASSUME NEW i \in 1 .. RowCount, NEW j \in 1 .. RowCount, new[i].id = new[j].id
        PROVE  i = j
    <3>1. /\ new[i] = rows[e[i]] /\ e[i] \in 1 .. RowCount
          /\ new[j] = rows[e[j]] /\ e[j] \in 1 .. RowCount
      BY <1>2, <1>3
    <3>2. e[i] = e[j]
      <4>1. rows[e[i]].id = rows[e[j]].id
        BY <2>2, <3>1
      <4>2. \A a, b \in 1 .. RowCount : rows[a].id = rows[b].id => a = b
        BY <2>1
      <4> QED
        BY <3>1, <4>1, <4>2, Zenon
    <3> QED
      BY <1>2, <3>2
  <2>3. ASSUME NEW x \in 1 .. RowCount PROVE \E i \in 1 .. RowCount : new[i].id = x
    <3>1. PICK j \in 1 .. RowCount : rows[j].id = x
      BY <2>1
    <3>2. PICK i \in 1 .. RowCount : e[i] = j
      BY <1>2
    <3>3. new[i].id = x
      BY <1>3, <3>1, <3>2
    <3> QED
      BY <3>3
  <2> QED
    BY <2>2, <2>3 DEF EachOnce
<1>6. Aligned(new)
  BY <1>2, <1>3 DEF BatchOK, Aligned
<1>7. \A c, w : Filled(rows, c, w) => Filled(new, c, w)
  <2> SUFFICES ASSUME NEW c, NEW w, Filled(rows, c, w), NEW i \in 1 .. RowCount
               PROVE  new[i][c] = [of |-> new[i].id, by |-> w]
    BY DEF Filled
  <2>1. new[i] = rows[e[i]] /\ e[i] \in 1 .. RowCount
    BY <1>2, <1>3
  <2> QED
    BY <2>1 DEF Filled
<1> QED
  BY <1>4, <1>5, <1>6, <1>7 DEF BatchOK, new

LEMMA IdsType ==
  ASSUME NEW rows, BatchOK(rows), RowCount \in Nat
  PROVE  /\ IdsOf(rows) \in Seq(1 .. RowCount) /\ Len(IdsOf(rows)) = RowCount
         /\ \A i \in 1 .. RowCount : IdsOf(rows)[i] = rows[i].id
<1> DEFINE ids == IdsOf(rows)
           T == 1 .. RowCount
<1>1. ids = [i \in 1 .. RowCount |-> rows[i].id]
  BY RowsLen DEF IdsOf, BatchOK
<1>2. ids \in [1 .. RowCount -> T] /\ \A i \in 1 .. RowCount : ids[i] = rows[i].id
  BY <1>1 DEF BatchOK, HasRows
<1> HIDE DEF ids, T
<1>3. ids \in Seq(T) /\ Len(ids) = RowCount
  BY <1>2
<1> QED
  BY <1>2, <1>3 DEF ids, T

LEMMA LensOfType ==
  ASSUME lens \in Lengths, NEW ids \in Seq(1 .. RowCount)
  PROVE  /\ LensOf(ids) \in Lengths /\ Len(LensOf(ids)) = Len(ids)
         /\ \A i \in 1 .. Len(ids) : LensOf(ids)[i] = lens[ids[i]]
<1> DEFINE T == Nat \ {0}
           X == 1 .. RowCount
           m == Len(ids)
           l == LensOf(ids)
<1>1. \A x \in X : lens[x] \in T
  BY DEF Lengths, RowCount
<1> HIDE DEF X
<1>0. ids \in Seq(X)
  BY DEF X
<1>2. m \in Nat /\ \A i \in 1 .. m : ids[i] \in X
  BY <1>0
<1>3. l = [i \in 1 .. m |-> lens[ids[i]]]
  BY DEF LensOf
<1> HIDE DEF T, m
<1>4. l \in [1 .. m -> T] /\ \A i \in 1 .. m : l[i] = lens[ids[i]]
  BY <1>1, <1>2, <1>3
<1> HIDE DEF l
<1>5. l \in Seq(T) /\ Len(l) = m
  BY <1>2, <1>4
<1> QED
  BY <1>4, <1>5 DEF Lengths, T, m, l

(* The data parallel ranks of training.                                    *)
DpSize == cfg.world \div (cfg.sp * cfg.pp)

LEMMA TrainMeshed ==
  ASSUME cfg \in Configs
  PROVE  WellMeshed(TrainMesh, DpSize) /\ DOMAIN TrainMesh.dpRank = Ranks
<1>1. /\ cfg.world \in Nat \ {0} /\ cfg.sp \in Nat \ {0} /\ cfg.pp \in Nat \ {0}
      /\ cfg.world % (cfg.sp * cfg.pp) = 0
  BY ConfigNumbers
<1> DEFINE w == cfg.world
           s == cfg.sp
           p == cfg.pp
<1>2. CASE cfg.megatron
  <2>1. TrainMesh = MegatronMesh(w, s, p)
    BY <1>2 DEF TrainMesh
  <2>2. DOMAIN MegatronMesh(w, s, p).dpRank = 0 .. w - 1
    BY DEF MegatronMesh
  <2>3. WellMeshed(MegatronMesh(w, s, p), w \div (s * p))
    <3> HIDE DEF w, s, p
    <3>1. w \in Nat \ {0} /\ s \in Nat \ {0} /\ p \in Nat \ {0} /\ w % (s * p) = 0
      BY <1>1 DEF w, s, p
    <3> QED
      BY <3>1, MegatronMeshed
  <2> QED
    BY <2>1, <2>2, <2>3 DEF DpSize, Ranks
<1>3. CASE ~cfg.megatron
  <2>1. TrainMesh = DeviceMesh(w, s)
    BY <1>3 DEF TrainMesh
  <2>2. DOMAIN DeviceMesh(w, s).dpRank = 0 .. w - 1
    BY DEF DeviceMesh
  <2>3. p = 1
    BY <1>3, MegatronAssumption
  <2>4. s * p = s
    BY <1>1, <2>3
  <2>5. WellMeshed(DeviceMesh(w, s), w \div s)
    <3>1. w \in Nat \ {0} /\ s \in Nat \ {0} /\ w % s = 0
      BY <1>1, <2>4
    <3> HIDE DEF w, s, p
    <3> QED
      BY <3>1, DeviceMeshed
  <2> QED
    BY <2>1, <2>2, <2>4, <2>5 DEF DpSize, Ranks
<1> QED
  BY <1>2, <1>3

(* What is left of n rows for each of d ranks.                             *)
LEMMA Share ==
  ASSUME NEW n \in Nat \ {0}, NEW d \in Nat \ {0}, n % d = 0
  PROVE  n \div d \in Nat \ {0} /\ n = (n \div d) * d
<1> DEFINE q == n \div d
<1>1. n = q * d + (n % d) /\ q \in Nat
  BY DivMod
<1> HIDE DEF q
<1> DEFINE x == q * d
<1>2. x \in Nat /\ n = x + 0
  BY <1>1, Product
<1> HIDE DEF x
<1>3. n = x
  BY <1>2
<1>4. q # 0
  BY <1>1, <1>3 DEF x
<1> QED
  BY <1>1, <1>3, <1>4 DEF q, x

LEMMA RankRowsType ==
  ASSUME cfg \in Configs, lens \in LenProfiles, BatchOK(batch)
  PROVE  /\ RowCount % DpSize = 0 /\ DpSize \in Nat \ {0} /\ RowCount \div DpSize \in Nat \ {0}
         /\ \A r \in Ranks : /\ RankRows[r] \in Seq(1 .. RowCount)
                             /\ Len(RankRows[r]) = RowCount \div DpSize
<1>1. RowCount \in Nat \ {0}
  BY LensType
<1>2. WellMeshed(TrainMesh, DpSize) /\ DOMAIN TrainMesh.dpRank = Ranks
  BY TrainMeshed
<1>3. DpSize \in Nat \ {0} /\ RowCount % DpSize = 0
  BY <1>2, RowsAssumption DEF WellMeshed, DpSize, RowCount
<1>4. RowCount \div DpSize \in Nat \ {0}
  BY <1>1, <1>3, Share
<1> DEFINE ids == IdsOf(batch)
           T == 1 .. RowCount
<1>5. ids \in Seq(T) /\ Len(ids) = RowCount
  BY <1>1, IdsType
<1>6. RankRows = DispatchNd(ids, TrainMesh)
  BY DEF RankRows
<1> HIDE DEF ids, T
<1>7. \A r \in Ranks : RankRows[r] \in Seq(T) /\ Len(RankRows[r]) = RowCount \div DpSize
  BY <1>2, <1>5, <1>6, DispatchType
<1> QED
  BY <1>3, <1>4, <1>7 DEF T

(* The batch in the order of the balanced partitions.                      *)
LEMMA BalancedOK ==
  ASSUME cfg \in Configs, lens \in LenProfiles, BatchOK(batch), cfg.balance
  PROVE  /\ BatchOK(BalancedOrder(batch))
         /\ \A c, w : Filled(batch, c, w) => Filled(BalancedOrder(batch), c, w)
<1> DEFINE l == LensOf(IdsOf(batch))
           parts == BalancedPartitions(l, cfg.world, TRUE)
           e == FlattenSeq(parts)
<1>1. lens \in Lengths /\ RowCount \in Nat \ {0}
  BY LensType
<1>2. l \in Lengths /\ Len(l) = RowCount
  <2>1. IdsOf(batch) \in Seq(1 .. RowCount) /\ Len(IdsOf(batch)) = RowCount
    BY <1>1, IdsType
  <2> QED
    BY <1>1, <2>1, LensOfType
<1>3. cfg.world \in Nat \ {0} /\ RowCount % cfg.world = 0
  BY ConfigNumbers, RowsAssumption DEF RowCount
<1> HIDE DEF l
<1>4. Covers(parts, RowCount, cfg.world)
  <2> DEFINE k == cfg.world
  <2>1. k \in Nat \ {0} /\ RowCount % k = 0 /\ k <= RowCount
    <3>1. k \in Nat \ {0} /\ RowCount % k = 0
      BY <1>3
    <3> HIDE DEF k
    <3> DEFINE q == RowCount \div k
    <3>2. q \in Nat \ {0} /\ RowCount = q * k
      BY <1>1, <3>1, Share
    <3> HIDE DEF q
    <3>3. q * k = k + (q - 1) * k /\ (q - 1) * k \in Nat
      <4>1. q - 1 \in Nat /\ q = 1 + (q - 1)
        BY <3>2
      <4> QED
        BY <3>1, <4>1
    <3> DEFINE d == (q - 1) * k
    <3>4. RowCount = k + d /\ d \in Nat
      BY <3>2, <3>3
    <3> HIDE DEF d
    <3> QED
      BY <3>1, <3>4
  <2>2. PICK D \in Nat : \A i \in 1 .. Len(l) : l[i] <= D
    BY <1>2, LengthsBounded
  <2>3. LengthsWithin(l, TRUE, D)
    <3>1. \A i \in 1 .. Len(l) : l[i] \in Nat
      BY <1>2 DEF Lengths
    <3>2. \A i, j \in 1 .. Len(l) : l[i] - l[j] <= D
      BY <2>2, <3>1
    <3> QED
      BY <3>2 DEF LengthsWithin
  <2> HIDE DEF k
  <2>4. Covers(BalancedPartitions(l, k, TRUE), Len(l), k)
    BY <1>2, <2>1, <2>3, PartitionsCover
  <2> QED
    BY <1>2, <2>4 DEF k
<1> HIDE DEF parts
<1>5. Permutes(e, RowCount) /\ Len(e) = RowCount
  BY <1>1, <1>4, CoversPermutes
<1>6. BalancedOrder(batch) = Reorder(batch, e)
  BY DEF BalancedOrder, parts, l
<1> HIDE DEF e
<1> QED
  BY <1>1, <1>5, <1>6, ReorderedOK

-----------------------------------------------------------------------------
(* What engines and worker groups compute, and where it is joined. *)

(* One cell for each row that was sent, in the order they were sent.       *)
Answers(output, prompts, weights) ==
  output = [i \in 1 .. Len(prompts) |-> [of |-> prompts[i], by |-> weights]]

EngineDp == cfg.world \div cfg.tp

LEMMA GeneratedInOrder ==
  ASSUME cfg \in Configs, NEW S, request.prompts \in Seq(S),
         Len(request.prompts) % EngineDp = 0, Generate, "output" \in DOMAIN request
  PROVE  Answers(request'.output, request.prompts, EnginePolicy)
<1> DEFINE prompts == request.prompts
           parts == DispatchNd(prompts, EngineMesh)
           outputs == [r \in Ranks |-> [i \in 1 .. Len(parts[r]) |->
                                          [of |-> parts[r][i], by |-> EnginePolicy]]]
           cell == [x \in S |-> [of |-> x, by |-> EnginePolicy]]
           C == {cell[x] : x \in S}
<1>1. request'.output = CollectNd(outputs, EngineMesh)
  BY DEF Generate
<1>2. WellMeshed(EngineMesh, EngineDp) /\ DOMAIN EngineMesh.dpRank = Ranks
  BY EngineMeshed DEF EngineDp
<1>3. prompts \in Seq(S) /\ Len(prompts) % EngineDp = 0
  OBVIOUS
<1> HIDE DEF prompts
<1>4. \A r \in Ranks : parts[r] \in Seq(S) /\ Len(parts[r]) = Len(prompts) \div EngineDp
  BY <1>2, <1>3, DispatchType
<1> DEFINE size == Len(prompts) \div EngineDp
<1>5. ASSUME NEW r \in Ranks
      PROVE  outputs[r] = [j \in 1 .. size |-> cell[parts[r][j]]]
  <2> DEFINE part == parts[r]
  <2>1. part \in Seq(S) /\ Len(part) = size
    BY <1>4
  <2> HIDE DEF parts, size
  <2>2. outputs[r] = [j \in 1 .. size |-> [of |-> part[j], by |-> EnginePolicy]]
    BY <2>1
  <2> HIDE DEF part
  <2>3. \A j \in 1 .. size : part[j] \in S
    BY <2>1
  <2>4. \A j \in 1 .. size : cell[part[j]] = [of |-> part[j], by |-> EnginePolicy]
    BY <2>3
  <2> HIDE DEF cell, outputs
  <2>5. outputs[r] = [j \in 1 .. size |-> cell[part[j]]]
    BY <2>2, <2>4
  <2> QED
    BY <2>5 DEF part
<1>6. cell \in [S -> C]
  OBVIOUS
<1>7. \A x \in S : cell[x] = [of |-> x, by |-> EnginePolicy]
  OBVIOUS
<1> HIDE DEF cell, C, outputs
<1>8. RowByRow(outputs, prompts, EngineMesh, EngineDp, cell, S, C)
  BY <1>2, <1>3, <1>5, <1>6 DEF RowByRow
<1> HIDE DEF parts, size
<1>9. CollectNd(outputs, EngineMesh) = Cells(prompts, cell)
  BY <1>2, <1>8, CollectedInOrder
<1>10. Cells(prompts, cell) = [i \in 1 .. Len(prompts) |-> [of |-> prompts[i], by |-> EnginePolicy]]
  <2>1. \A i \in 1 .. Len(prompts) : prompts[i] \in S
    BY <1>3
  <2>2. \A i \in 1 .. Len(prompts) : cell[prompts[i]] = [of |-> prompts[i], by |-> EnginePolicy]
    BY <1>7, <2>1
  <2> QED
    BY <2>2 DEF Cells
<1> QED
  BY <1>1, <1>9, <1>10 DEF Answers, prompts

LEMMA MultipleOf ==
  ASSUME NEW n \in Nat, NEW a \in Nat \ {0}, NEW b \in Nat \ {0}, n % (a * b) = 0
  PROVE  n % a = 0
<1> DEFINE c == a * b
           q == n \div c
<1>1. c \in Nat \ {0} /\ n % c = 0
  <2>1. a * b \in Nat /\ a * b # 0
    BY Product
  <2> QED
    BY <2>1
<1>2. n = q * c + (n % c) /\ q \in Nat
  <2> HIDE DEF c
  <2> QED
    BY <1>1, DivMod
<1> HIDE DEF q
<1>3. n = q * c
  <2> DEFINE x == q * c
  <2>1. x \in Nat /\ n = x + (n % c)
    BY <1>1, <1>2, Product
  <2> HIDE DEF x, c
  <2>2. n = x
    BY <1>1, <2>1
  <2> QED
    BY <2>2 DEF x
<1>4. q * c = (q * b) * a /\ q * b \in Nat
  BY <1>2, Product
<1> DEFINE y == q * b
<1>5. n = y * a + 0 /\ y \in Nat /\ 0 \in 0 .. a - 1
  BY <1>3, <1>4
<1> HIDE DEF y, c
<1>6. (y * a + 0) % a = 0
  BY <1>5, PlaceOf
<1> QED
  BY <1>5, <1>6

(* The prompts of a batch, or of a validation, padded.                     *)
LEMMA PromptsKnown ==
  ASSUME cfg \in Configs, lens \in LenProfiles, BatchOK(batch), NEW c
  PROVE  /\ Prompts(c) \in Seq(Nat) /\ Len(Prompts(c)) % EngineDp = 0 /\ EngineDp \in Nat \ {0}
         /\ c = "generate" => /\ Len(Prompts(c)) = RowCount
                              /\ \A i \in 1 .. RowCount : Prompts(c)[i] = batch[i].id
         /\ c # "generate" =>
              /\ Len(Prompts(c)) = ValRows + PadSize(Positions(ValRows), cfg.world)
              /\ PadSize(Positions(ValRows), cfg.world) \in Nat
              /\ \A i \in 1 .. ValRows : Prompts(c)[i] = i
<1>0. RowCount \in Nat \ {0}
  BY LensType
<1>1. /\ cfg.world \in Nat \ {0} /\ cfg.tp \in Nat \ {0} /\ cfg.world % cfg.tp = 0
      /\ EngineDp \in Nat \ {0} /\ cfg.world = EngineDp * cfg.tp
  <2>1. cfg.world \in Nat \ {0} /\ cfg.tp \in Nat \ {0} /\ cfg.world % cfg.tp = 0
    BY ConfigNumbers
  <2> QED
    BY <2>1, Share DEF EngineDp
<1>2. CASE c = "generate"
  <2>1. Prompts(c) = IdsOf(batch)
    BY <1>2 DEF Prompts
  <2> DEFINE ids == IdsOf(batch)
             X == 1 .. RowCount
  <2>2. ids \in Seq(X) /\ Len(ids) = RowCount /\ \A i \in 1 .. RowCount : ids[i] = batch[i].id
    BY <1>0, IdsType
  <2>3. X \subseteq Nat
    OBVIOUS
  <2> HIDE DEF ids, X
  <2>4. ids \in Seq(Nat)
    <3>1. ids \in [1 .. RowCount -> X] /\ RowCount \in Nat
      BY <1>0, <2>2
    <3>2. ids \in [1 .. RowCount -> Nat]
      BY <2>3, <3>1
    <3> QED
      BY <3>1, <3>2
  <2>5. RowCount % EngineDp = 0
    BY RowsAssumption DEF EngineDp, RowCount
  <2> QED
    BY <1>1, <1>2, <2>1, <2>2, <2>4, <2>5 DEF ids
<1>3. CASE c # "generate"
  <2> DEFINE rows == Positions(ValRows)
             w == cfg.world
             k == PadSize(rows, w)
             pad == [i \in 1 .. k |-> rows[((i - 1) % Len(rows)) + 1]]
             all == rows \o pad
  <2>1. ValRows \in Nat \ {0} /\ w \in Nat \ {0}
    BY <1>1, ConfigsAssumption
  <2>2. rows \in [1 .. ValRows -> Nat] /\ \A i \in 1 .. ValRows : rows[i] = i
    BY <2>1 DEF Positions
  <2> HIDE DEF rows, w
  <2>3. rows \in Seq(Nat) /\ Len(rows) = ValRows
    BY <2>1, <2>2
  <2>4. k \in Nat /\ (ValRows + k) % w = 0
    <3> DEFINE v == ValRows
               q == v \div w
               r == v % w
    <3>1. v = q * w + r /\ q \in Nat /\ r \in 0 .. w - 1
      BY <2>1, DivMod
    <3>2. k = IF r = 0 THEN 0 ELSE w - r
      BY <2>3 DEF PadSize
    <3> HIDE DEF k
    <3>3. v % w = r
      OBVIOUS
    <3>4. v \in Nat
      BY <2>1
    <3> HIDE DEF q, r, v
    <3>5. CASE r = 0
      BY <3>2, <3>3, <3>4, <3>5 DEF v
    <3>6. CASE r # 0
      <4> DEFINE x == q * w
      <4>1. k = w - r /\ k \in Nat /\ x \in Nat /\ v = x + r
        BY <2>1, <3>1, <3>2, <3>6, Product
      <4>2. v + k = x + w
        <5> HIDE DEF x
        <5> QED
          BY <2>1, <3>1, <4>1
      <4>3. x + w = (q + 1) * w /\ q + 1 \in Nat
        BY <2>1, <3>1
      <4> DEFINE y == q + 1
      <4>4. v + k = y * w + 0 /\ y \in Nat /\ 0 \in 0 .. w - 1
        BY <2>1, <4>2, <4>3
      <4> HIDE DEF y
      <4>5. (y * w + 0) % w = 0
        BY <2>1, <4>4, PlaceOf
      <4> QED
        BY <4>1, <4>4, <4>5 DEF v
    <3> QED
      BY <3>5, <3>6
  <2>5. ASSUME NEW i \in 1 .. k PROVE rows[((i - 1) % Len(rows)) + 1] \in Nat
    <3>1. i - 1 \in Nat
      BY <2>4
    <3>2. (i - 1) % ValRows \in 0 .. ValRows - 1
      BY <2>1, <3>1, DivMod
    <3>3. ((i - 1) % ValRows) + 1 \in 1 .. ValRows
      BY <2>1, <3>2
    <3> QED
      BY <2>2, <2>3, <3>3
  <2> HIDE DEF k
  <2>6. pad \in [1 .. k -> Nat]
    BY <2>5
  <2> HIDE DEF pad
  <2>7. pad \in Seq(Nat) /\ Len(pad) = k
    BY <2>4, <2>6
  <2>8. /\ all \in Seq(Nat) /\ Len(all) = Len(rows) + Len(pad)
        /\ \A i \in 1 .. Len(rows) + Len(pad) :
             all[i] = IF i <= Len(rows) THEN rows[i] ELSE pad[i - Len(rows)]
    BY <2>3, <2>7, ConcatProperties
  <2>9. Prompts(c) = all
    BY <1>3 DEF Prompts, PadToDivisor, rows, w, k, pad
  <2> HIDE DEF all
  <2>10. Len(all) = ValRows + k
    BY <2>3, <2>7, <2>8
  <2>11. \A i \in 1 .. ValRows : all[i] = i
    <3> TAKE i \in 1 .. ValRows
    <3>1. i \in 1 .. Len(rows) + Len(pad) /\ i <= Len(rows)
      BY <2>1, <2>3, <2>4, <2>7
    <3>2. all[i] = rows[i]
      BY <2>8, <3>1
    <3> QED
      BY <2>2, <3>2
  <2>12. (ValRows + k) % EngineDp = 0
    <3> DEFINE v == ValRows + k
    <3>1. v \in Nat /\ v % (EngineDp * cfg.tp) = 0
      BY <1>1, <2>1, <2>4 DEF w
    <3> HIDE DEF v
    <3>2. v % EngineDp = 0
      BY <1>1, <3>1, MultipleOf
    <3> QED
      BY <3>2 DEF v
  <2> QED
    BY <1>1, <1>3, <2>4, <2>8, <2>9, <2>10, <2>11, <2>12 DEF k, rows, w
<1> QED
  BY <1>2, <1>3

(* The micro-batches of ranks with m rows each: each row is in one, and    *)
(* all ranks have as many.                                                 *)
MicroOK(micro, m, call) ==
  IF Dynamic(call) THEN \E count : Covers(micro, m, count)
                   ELSE micro = Split(Positions(m), MicroSize(call))

LEMMA MicroBatchesOK ==
  ASSUME cfg \in Configs, lens \in LenProfiles, NEW call \in Calls \cup Updates,
         NEW m \in Nat \ {0}, NEW rows,
         \A r \in Ranks : rows[r] \in Seq(1 .. RowCount) /\ Len(rows[r]) = m
  PROVE  /\ \A r \in Ranks : MicroOK(MicroBatches(rows, call)[r], m, call)
         /\ \E count \in Nat : \A r \in Ranks : Len(MicroBatches(rows, call)[r]) = count
<1>1. lens \in Lengths /\ RowCount \in Nat \ {0}
  BY LensType
<1>2. cfg.world \in Nat \ {0} /\ 0 \in Ranks /\ cfg.micro \in Nat /\ cfg.logMicro \in Nat
      /\ cfg.maxTokens \in Nat \ {0} /\ cfg.sp \in Nat \ {0}
  BY ConfigNumbers DEF Ranks
<1> DEFINE micro == MicroBatches(rows, call)
<1>3. CASE Dynamic(call)
  <2> DEFINE rankLens == [r \in Ranks |-> LensOf(rows[r])]
             count == AgreedCount(rankLens, TokenLimit)
  <2>1. TokenLimit \in Nat \ {0}
    <3>1. CASE cfg.megatron
      BY <1>2, <3>1 DEF TokenLimit
    <3>2. CASE ~cfg.megatron
      <4> DEFINE a == cfg.maxTokens
                 b == cfg.sp
      <4>1. a \in Nat \ {0} /\ b \in Nat \ {0} /\ TokenLimit = a * b
        BY <1>2, <3>2 DEF TokenLimit
      <4> HIDE DEF a, b
      <4>2. a * b \in Nat \ {0}
        BY <4>1
      <4> QED
        BY <4>1, <4>2
    <3> QED
      BY <3>1, <3>2
  <2>2. \A r \in Ranks : LensOf(rows[r]) \in Lengths /\ Len(LensOf(rows[r])) = m
    <3> TAKE r \in Ranks
    <3> DEFINE ids == rows[r]
    <3>1. ids \in Seq(1 .. RowCount) /\ Len(ids) = m
      OBVIOUS
    <3> HIDE DEF ids
    <3>2. LensOf(ids) \in Lengths /\ Len(LensOf(ids)) = m
      BY <1>1, <3>1, LensOfType
    <3> QED
      BY <3>2 DEF ids
  <2>3. /\ DOMAIN rankLens # {} /\ DOMAIN rankLens = Ranks
        /\ \A r \in DOMAIN rankLens : rankLens[r] \in Lengths /\ Len(rankLens[r]) = m
    BY <1>2, <2>2
  <2>4. micro = [r \in Ranks |-> RearrangeMicroBatches(rankLens[r], count)]
    BY <1>3 DEF MicroBatches
  <2> HIDE DEF rankLens
  <2>5. count \in 1 .. m
    BY <2>1, <2>3, AgreedWithin
  <2> HIDE DEF count
  <2>6. \A r \in Ranks : Covers(micro[r], m, count)
    <3> TAKE r \in Ranks
    <3> DEFINE l == rankLens[r]
    <3>1. l \in Lengths /\ Len(l) = m /\ count \in Nat \ {0} /\ count <= m
      BY <2>3, <2>5
    <3>2. micro[r] = RearrangeMicroBatches(l, count)
      BY <2>4
    <3> HIDE DEF l, micro
    <3>3. Covers(RearrangeMicroBatches(l, count), Len(l), count)
      BY <3>1, MicroBatchesCover
    <3> QED
      BY <3>1, <3>2, <3>3
  <2>7. \A r \in Ranks : Len(micro[r]) = count
    BY <2>6 DEF Covers, Shares
  <2>8. count \in Nat
    BY <2>5
  <2> HIDE DEF micro
  <2> QED
    BY <1>3, <2>6, <2>7, <2>8 DEF MicroOK, micro
<1>4. CASE ~ Dynamic(call)
  <2>1. MicroSize(call) \in Nat \ {0}
    BY <1>2, <1>4 DEF MicroSize, Dynamic
  <2>2. \A r \in Ranks : micro[r] = Split(Positions(m), MicroSize(call))
    BY <1>4 DEF MicroBatches, SplitEvenly
  <2>3. Len(Split(Positions(m), MicroSize(call))) \in Nat
    <3>1. Positions(m) \in Seq(1 .. m)
      BY PositionsType
    <3> DEFINE S == 1 .. m
               w == Positions(m)
               size == MicroSize(call)
    <3>2. w \in Seq(S) /\ size \in Nat \ {0}
      BY <2>1, <3>1
    <3> HIDE DEF S, w, size
    <3>3. Split(w, size) \in Seq(Seq(S))
      BY <3>2, SplitType
    <3>4. Len(Split(w, size)) \in Nat
      BY <3>3
    <3> QED
      BY <3>4 DEF w, size
  <2> DEFINE count == Len(Split(Positions(m), MicroSize(call)))
  <2>4. \A r \in Ranks : Len(micro[r]) = count
    BY <2>2
  <2> HIDE DEF micro, count
  <2> QED
    BY <1>4, <2>2, <2>3, <2>4 DEF MicroOK, micro, count
<1> QED
  BY <1>3, <1>4

(* The ranks compute for the rows they have in the driver's batch.         *)
ComputeInv ==
  job.call \in Calls =>
    /\ job.rows = RankRows
    /\ \A r \in Ranks : MicroOK(job.micro[r], Len(job.rows[r]), job.call)

LEMMA RankOutputIs ==
  ASSUME cfg \in Configs, lens \in LenProfiles, BatchOK(batch), ComputeInv, job.call \in Calls,
         NEW r \in Ranks
  PROVE  RankOutput(r) =
           [j \in 1 .. RowCount \div DpSize |-> [of |-> RankRows[r][j], by |-> ComputedBy]]
<1> DEFINE m == RowCount \div DpSize
           rows == RankRows[r]
           micro == job.micro[r]
           order == FlattenSeq(micro)
           by == ComputedBy
           value == [j \in 1 .. m |-> [of |-> rows[j], by |-> by]]
           cells == [i \in 1 .. Len(order) |-> [of |-> rows[order[i]], by |-> by]]
<1>1. m \in Nat \ {0} /\ Len(rows) = m
  BY RankRowsType
<1>2. job.rows[r] = rows /\ MicroOK(micro, m, job.call)
  BY <1>1 DEF ComputeInv
<1>3. RankOutput(r) = IF Dynamic(job.call) THEN RestoreDynamicBatch(cells, micro) ELSE cells
  BY <1>2 DEF RankOutput
<1> HIDE DEF m, rows, micro, by
<1>4. CASE Dynamic(job.call)
  <2>1. PICK count : Covers(micro, m, count)
    BY <1>2, <1>4 DEF MicroOK
  <2>2. Len(order) = m /\ \A p \in 1 .. m : order[p] \in 1 .. m
    BY <1>1, <2>1, CoversPermutes
  <2>3. ComputedFor(cells, micro, value, m)
    <3> HIDE DEF order
    <3>1. Len(cells) = m
      BY <1>1, <2>2
    <3>2. \A p \in 1 .. m : cells[p] = value[order[p]]
      BY <1>1, <2>2
    <3> QED
      BY <3>1, <3>2 DEF ComputedFor, order
  <2> HIDE DEF cells, order, value
  <2>4. RestoreDynamicBatch(cells, micro) = [i \in 1 .. m |-> value[i]]
    BY <1>1, <2>1, <2>3, RestoredInOrder
  <2>5. [i \in 1 .. m |-> value[i]] = value
    BY DEF value
  <2> QED
    BY <1>3, <1>4, <2>4, <2>5 DEF value, rows, by, m
<1>5. CASE ~ Dynamic(job.call)
  <2> DEFINE w == Positions(m)
             size == MicroSize(job.call)
             S == 1 .. m
  <2>1. w \in Seq(S) /\ w = [i \in 1 .. m |-> i]
    BY <1>1, PositionsType DEF Positions
  <2>2. size \in Nat \ {0}
    BY <1>5, ConfigNumbers DEF Dynamic, MicroSize
  <2>3. micro = Split(w, size)
    BY <1>2, <1>5 DEF MicroOK
  <2> HIDE DEF w, size, S
  <2>4. order = w
    BY <2>1, <2>2, <2>3, SplitFlattens
  <2>5. Len(order) = m /\ \A p \in 1 .. m : order[p] = p
    BY <1>1, <2>1, <2>4
  <2> HIDE DEF order
  <2>6. cells = value
    BY <1>1, <2>5
  <2> QED
    BY <1>3, <1>5, <2>6 DEF rows, by, m
<1> QED
  BY <1>4, <1>5

(* What a call computes is joined to the rows it was computed for.         *)
LEMMA CallJoined ==
  ASSUME cfg \in Configs, lens \in LenProfiles, BatchOK(batch), ComputeInv, job.call \in Calls,
         FinishCall
  PROVE  \E cells : /\ batch' = Union(batch, job.call, cells)
                    /\ \A i \in 1 .. RowCount : cells[i] = [of |-> batch[i].id, by |-> ComputedBy]
<1> DEFINE S == 1 .. RowCount
           by == ComputedBy
           ids == IdsOf(batch)
           cell == [x \in S |-> [of |-> x, by |-> by]]
           C == {cell[x] : x \in S}
           outputs == [r \in Ranks |-> RankOutput(r)]
           cells == CollectNd(outputs, TrainMesh)
           m == RowCount \div DpSize
<1>1. batch' = Union(batch, job.call, cells)
  BY DEF FinishCall
<1>2. RowCount \in Nat \ {0}
  BY LensType
<1>3. ids \in Seq(S) /\ Len(ids) = RowCount /\ \A i \in 1 .. RowCount : ids[i] = batch[i].id
  BY <1>2, IdsType
<1>4. WellMeshed(TrainMesh, DpSize) /\ DOMAIN TrainMesh.dpRank = Ranks
  BY TrainMeshed
<1>5. /\ RowCount % DpSize = 0
      /\ \A r \in Ranks : RankRows[r] \in Seq(S) /\ Len(RankRows[r]) = m
  BY RankRowsType
<1>6. RankRows = DispatchNd(ids, TrainMesh)
  BY DEF RankRows
<1>7. cell \in [S -> C] /\ \A x \in S : cell[x] = [of |-> x, by |-> by]
  OBVIOUS
<1>8. \A r \in Ranks : outputs[r] = [j \in 1 .. m |-> [of |-> RankRows[r][j], by |-> by]]
  BY RankOutputIs
<1> HIDE DEF outputs, cell, C, by, ids, S
<1>9. ASSUME NEW r \in Ranks PROVE outputs[r] = [j \in 1 .. m |-> cell[RankRows[r][j]]]
  <2> DEFINE part == RankRows[r]
  <2>1. part \in Seq(S) /\ Len(part) = m /\ outputs[r] = [j \in 1 .. m |-> [of |-> part[j], by |-> by]]
    BY <1>5, <1>8
  <2> HIDE DEF part, m
  <2>2. \A j \in 1 .. m : cell[part[j]] = [of |-> part[j], by |-> by]
    BY <1>7, <2>1
  <2>3. outputs[r] = [j \in 1 .. m |-> cell[part[j]]]
    BY <2>1, <2>2
  <2> QED
    BY <2>3 DEF part
<1>10. RowByRow(outputs, ids, TrainMesh, DpSize, cell, S, C)
  <2>1. Len(ids) \div DpSize = m /\ Len(ids) % DpSize = 0
    BY <1>3, <1>5
  <2>2. \A r \in Ranks :
          outputs[r] = [j \in 1 .. Len(ids) \div DpSize |-> cell[DispatchNd(ids, TrainMesh)[r][j]]]
    BY <1>6, <1>9, <2>1, Zenon
  <2> QED
    BY <1>3, <1>4, <1>7, <2>1, <2>2, Zenon DEF RowByRow
<1>11. cells = Cells(ids, cell)
  BY <1>4, <1>10, CollectedInOrder
<1> HIDE DEF cells
<1>12. \A i \in 1 .. RowCount : cells[i] = [of |-> batch[i].id, by |-> by]
  <2>1. \A i \in 1 .. RowCount : cells[i] = cell[ids[i]]
    BY <1>3, <1>11 DEF Cells
  <2>2. \A i \in 1 .. RowCount : ids[i] \in S
    BY <1>3
  <2> QED
    BY <1>3, <1>7, <2>1, <2>2
<1> QED
  BY <1>1, <1>12 DEF by

-----------------------------------------------------------------------------
(* Through the steps of fit. *)

AfterResponses ==
  {"balance", "rm_scores", "rewards", "old_log_probs", "ref_log_prob", "values", "adv",
   "update_critic", "update_actor"}

AnswerInv ==
  /\ request # NoRequest =>
       /\ request.prompts = Prompts(pc)
       /\ request.output # <<>> => \E w : Answers(request.output, request.prompts, w)
  /\ valOut # <<>> => [i \in DOMAIN valOut |-> valOut[i].of] = Positions(ValRows)

FilledInv ==
  /\ pc \in AfterResponses => \E w : Filled(batch, "responses", w)
  /\ pc = "rewards" /\ cfg.rm => Filled(batch, "rm_scores", 0)

DataInv == lens \in LenProfiles /\ BatchOK(batch) /\ AnswerInv /\ FilledInv /\ ComputeInv

LEMMA DataInit == Init => DataInv
<1> SUFFICES ASSUME Init PROVE DataInv
  OBVIOUS
<1>1. /\ cfg \in Configs /\ lens \in LenProfiles /\ batch = FreshBatch /\ request = NoRequest
      /\ job = NoJob /\ valOut = <<>> /\ pc = "val_before_train"
  BY DEF Init
<1>2. BatchOK(batch)
  BY <1>1, FreshOK
<1>3. AnswerInv
  BY <1>1 DEF AnswerInv
<1>4. FilledInv
  BY <1>1 DEF FilledInv, AfterResponses
<1>5. job.call \notin Calls
  BY <1>1 DEF NoJob, Calls
<1> QED
  BY <1>1, <1>2, <1>3, <1>4, <1>5 DEF DataInv, ComputeInv

LEMMA SameLens ==
  ASSUME UNCHANGED lens
  PROVE  /\ RowCount' = RowCount
         /\ BatchOK(batch)' <=> BatchOK(batch')
         /\ \A c, w : Filled(batch, c, w)' <=> Filled(batch', c, w)
<1>1. RowCount' = RowCount
  BY DEF RowCount
<1>2. BatchOK(batch)' <=> BatchOK(batch')
  BY <1>1 DEF BatchOK, HasRows, EachOnce, Aligned
<1>3. \A c, w : Filled(batch, c, w)' <=> Filled(batch', c, w)
  BY <1>1 DEF Filled
<1> QED
  BY <1>1, <1>2, <1>3

LEMMA SamePrompts ==
  ASSUME UNCHANGED <<cfg, batch>>, NEW c
  PROVE  Prompts(c)' = Prompts(c) /\ RankRows' = RankRows
BY DEF Prompts, IdsOf, RankRows, TrainMesh

LEMMA SameCompute ==
  ASSUME UNCHANGED <<cfg, batch>>, ComputeInv,
         job'.call \in Calls => /\ job.call = job'.call
                                /\ job'.rows = job.rows /\ job'.micro = job.micro
  PROVE  ComputeInv'
<1> SUFFICES ASSUME job'.call \in Calls PROVE ComputeInv'
  BY DEF ComputeInv
<1>1. RankRows' = RankRows /\ Ranks' = Ranks
  BY SamePrompts DEF Ranks
<1>2. \A micro, m, call : MicroOK(micro, m, call)' <=> MicroOK(micro, m, call)
  BY DEF MicroOK, Dynamic, MicroSize
<1>3. job.call \in Calls /\ job'.call = job.call /\ job'.rows = job.rows /\ job'.micro = job.micro
  OBVIOUS
<1>4. job.rows = RankRows /\ \A r \in Ranks : MicroOK(job.micro[r], Len(job.rows[r]), job.call)
  BY <1>3 DEF ComputeInv
<1> QED
  BY <1>1, <1>3, <1>4 DEF ComputeInv, MicroOK, Dynamic, MicroSize

(* A step that leaves the batch, the request and the results alone.        *)
LEMMA DataQuiet ==
  ASSUME DataInv, UNCHANGED <<cfg, lens, batch, request, valOut>>,
         pc' \in AfterResponses => pc \in AfterResponses, pc' = "rewards" => pc = "rewards",
         request # NoRequest => pc' = pc,
         job'.call \in Calls => /\ job.call = job'.call
                                /\ job'.rows = job.rows /\ job'.micro = job.micro
  PROVE  DataInv'
<1>1. BatchOK(batch)' /\ \A c, w : Filled(batch, c, w)' <=> Filled(batch, c, w)
  BY SameLens DEF DataInv
<1>2. FilledInv'
  BY <1>1 DEF DataInv, FilledInv
<1>3. AnswerInv'
  <2>1. \A c : Prompts(c)' = Prompts(c)
    BY SamePrompts
  <2> QED
    BY <2>1 DEF DataInv, AnswerInv, Answers
<1>4. ComputeInv'
  BY SameCompute DEF DataInv
<1> QED
  BY <1>1, <1>2, <1>3, <1>4 DEF DataInv

LEMMA DataRequest ==
  ASSUME FlowInv, DataInv, SendPrompts \/ Generate \/ ReceiveResponses
  PROVE  DataInv'
<1> USE DEF workerVars
<1>1. UNCHANGED <<cfg, lens, job>> /\ cfg \in Configs /\ lens \in LenProfiles /\ BatchOK(batch)
  BY DEF SendPrompts, Generate, ReceiveResponses, FlowInv, DataInv
<1>2. RowCount \in Nat \ {0}
  BY <1>1, LensType
<1>3. CASE SendPrompts
  <2>1. /\ request' = [purpose |-> pc, prompts |-> Prompts(pc), output |-> <<>>]
        /\ UNCHANGED <<pc, batch, valOut>>
    BY <1>3 DEF SendPrompts
  <2>2. Prompts(pc)' = Prompts(pc)
    <3> QED
      BY <1>1, <2>1 DEF Prompts, IdsOf
  <2>3. request'.prompts = Prompts(pc) /\ request'.output = <<>>
    <3> HIDE DEF Prompts
    <3> QED
      BY <2>1
  <2>4. AnswerInv'
    BY <2>1, <2>2, <2>3 DEF AnswerInv, DataInv
  <2>5. BatchOK(batch)' /\ FilledInv'
    BY <1>1, <2>1, SameLens DEF DataInv, FilledInv
  <2>6. ComputeInv'
    BY <1>1, <2>1, SameCompute DEF DataInv
  <2> QED
    BY <1>1, <2>4, <2>5, <2>6 DEF DataInv
<1>4. CASE Generate
  <2>1. /\ request # NoRequest /\ \E o : request' = [request EXCEPT !.output = o]
        /\ UNCHANGED <<pc, batch, valOut>>
    BY <1>4 DEF Generate
  <2>2. DOMAIN request = {"purpose", "prompts", "output"}
    <3>1. PICK prompts, output : request = [purpose |-> pc, prompts |-> prompts, output |-> output]
      BY <2>1 DEF FlowInv
    <3> QED
      BY <3>1
  <2>3. request'.prompts = request.prompts
    <3>1. PICK o : request' = [request EXCEPT !.output = o]
      BY <2>1
    <3> QED
      BY <2>2, <3>1
  <2>4. request.prompts = Prompts(pc)
    BY <2>1 DEF DataInv, AnswerInv
  <2>5. request.prompts \in Seq(Nat) /\ Len(request.prompts) % EngineDp = 0
    BY <1>1, <2>4, PromptsKnown
  <2>6. Answers(request'.output, request.prompts, EnginePolicy)
    BY <1>1, <1>4, <2>2, <2>5, GeneratedInOrder
  <2>7. AnswerInv'
    <3>1. Prompts(pc)' = Prompts(pc)
      BY <1>1, <2>1 DEF Prompts, IdsOf
    <3>2. \E w : Answers(request'.output, request'.prompts, w)
      BY <2>3, <2>6
    <3>3. (\E w : Answers(request.output, request.prompts, w))'
      BY <3>2 DEF Answers
    <3> QED
      BY <2>1, <2>3, <2>4, <3>1, <3>3 DEF AnswerInv, DataInv
  <2>8. BatchOK(batch)' /\ FilledInv'
    BY <1>1, <2>1, SameLens DEF DataInv, FilledInv
  <2>9. ComputeInv'
    BY <1>1, <2>1, SameCompute DEF DataInv
  <2> QED
    BY <1>1, <2>7, <2>8, <2>9 DEF DataInv
<1>5. CASE ReceiveResponses
  <2>1. /\ request # NoRequest /\ request.output # <<>> /\ request' = NoRequest
        /\ pc' = NextCall[request.purpose]
    BY <1>5 DEF ReceiveResponses
  <2>2. request.purpose = pc /\ pc \in GenerateCalls
    <3>1. PICK prompts, output : request = [purpose |-> pc, prompts |-> prompts, output |-> output]
      BY <2>1 DEF FlowInv
    <3> QED
      BY <2>1, <3>1 DEF FlowInv
  <2>3. job.call \notin Calls
    BY <2>2, OneAtATime
  <2>4. ComputeInv'
    BY <1>1, <2>3 DEF ComputeInv
  <2>5. PICK w : Answers(request.output, request.prompts, w)
    BY <2>1 DEF DataInv, AnswerInv
  <2>6. request.prompts = Prompts(pc)
    BY <2>1 DEF DataInv, AnswerInv
  <2> DEFINE prompts == Prompts(pc)
             output == request.output
  <2>7. output = [i \in 1 .. Len(prompts) |-> [of |-> prompts[i], by |-> w]]
    BY <2>5, <2>6 DEF Answers
  <2>8. CASE pc = "generate"
    <3>1. batch' = Union(batch, "responses", output) /\ valOut' = valOut /\ pc' = "balance"
      BY <1>5, <2>1, <2>2, <2>8 DEF ReceiveResponses, NextCall
    <3>2. Len(prompts) = RowCount /\ \A i \in 1 .. RowCount : prompts[i] = batch[i].id
      BY <1>1, <2>8, PromptsKnown
    <3> HIDE DEF prompts, output
    <3>3. \A i \in 1 .. RowCount : output[i] = [of |-> batch[i].id, by |-> w]
      BY <2>7, <3>2
    <3>4. "responses" \in Columns
      BY DEF Columns
    <3>5. BatchOK(batch') /\ Filled(batch', "responses", w)
      BY <1>1, <1>2, <3>1, <3>3, <3>4, UnionOK
    <3>6. BatchOK(batch)' /\ FilledInv'
      <4>1. BatchOK(batch)' /\ Filled(batch, "responses", w)'
        BY <1>1, <3>5, SameLens
      <4> QED
        BY <3>1, <4>1 DEF FilledInv
    <3>7. AnswerInv'
      BY <2>1, <3>1 DEF AnswerInv, DataInv
    <3> QED
      BY <1>1, <2>4, <3>6, <3>7 DEF DataInv
  <2>9. CASE pc # "generate"
    <3> DEFINE k == PadSize(Positions(ValRows), cfg.world)
               v == SubSeq(output, 1, Len(output) - k)
    <3>1. batch' = batch /\ valOut' = v /\ pc' \in {"generate", "save"}
      <4>1. pc \in {"val_before_train", "testing"}
        BY <2>2, <2>9 DEF GenerateCalls
      <4> QED
        BY <1>5, <2>1, <2>2, <2>9, <4>1 DEF ReceiveResponses, NextCall, Unpad
    <3>2. /\ Len(prompts) = ValRows + k /\ k \in Nat
          /\ \A i \in 1 .. ValRows : prompts[i] = i
      BY <1>1, <2>9, PromptsKnown
    <3>3. ValRows \in Nat \ {0}
      BY ConfigsAssumption
    <3> HIDE DEF prompts, output, k
    <3>4. Len(output) = ValRows + k /\ Len(output) - k = ValRows
      BY <2>7, <3>2, <3>3
    <3>5. v = [i \in 1 .. ValRows |-> output[i]]
      BY <3>3, <3>4
    <3>6. \A i \in 1 .. ValRows : output[i].of = i
      BY <2>7, <3>2, <3>3
    <3> HIDE DEF v
    <3>7. DOMAIN v = 1 .. ValRows /\ \A i \in 1 .. ValRows : v[i].of = i
      BY <3>5, <3>6
    <3>8. [i \in DOMAIN v |-> v[i].of] = Positions(ValRows)
      BY <3>7 DEF Positions
    <3>9. AnswerInv'
      BY <2>1, <3>1, <3>8 DEF AnswerInv
    <3>10. BatchOK(batch)' /\ FilledInv'
      BY <1>1, <3>1, SameLens DEF DataInv, FilledInv, AfterResponses
    <3> QED
      BY <1>1, <2>4, <3>9, <3>10 DEF DataInv
  <2> QED
    BY <2>8, <2>9
<1> QED
  BY <1>3, <1>4, <1>5

(* A call to the worker groups fills its column, and leaves the others.    *)
LEMMA CallFills ==
  ASSUME cfg \in Configs, DataInv, job.call \in Calls, FinishCall
  PROVE  /\ BatchOK(batch') /\ Filled(batch', job.call, ComputedBy)
         /\ \A c \in Columns \ {job.call} : \A w : Filled(batch, c, w) => Filled(batch', c, w)
<1> DEFINE by == ComputedBy
           col == job.call
<1>1. lens \in LenProfiles /\ BatchOK(batch) /\ ComputeInv
  BY DEF DataInv
<1>2. RowCount \in Nat
  BY <1>1, LensType
<1>3. PICK cells : /\ batch' = Union(batch, col, cells)
                   /\ \A i \in 1 .. RowCount : cells[i] = [of |-> batch[i].id, by |-> by]
  BY <1>1, CallJoined
<1> DEFINE new == Union(batch, col, cells)
<1>4. col \in Columns
  BY DEF Calls, Columns
<1> HIDE DEF by, col
<1>5. BatchOK(new) /\ Filled(new, col, by) /\ KeepsOthers(new, batch, col)
  BY <1>1, <1>2, <1>3, <1>4, UnionOK
<1>6. batch' = new
  BY <1>3
<1> HIDE DEF new
<1>7. \A c \in Columns \ {col} : \A w : Filled(batch, c, w) => Filled(batch', c, w)
  BY <1>5, <1>6 DEF KeepsOthers, Filled
<1> QED
  BY <1>5, <1>6, <1>7 DEF by, col

LEMMA DataComputed ==
  ASSUME FlowInv, RaisedInv, DataInv, StartCall \/ FinishCall
  PROVE  DataInv'
<1>1. UNCHANGED <<cfg, lens, request, valOut>> /\ cfg \in Configs /\ lens \in LenProfiles
      /\ BatchOK(batch)
  BY DEF StartCall, FinishCall, FlowInv, DataInv
<1>2. RowCount \in Nat \ {0}
  BY <1>1, LensType
<1>3. CASE StartCall
  <2>1. /\ pc \in Calls /\ UNCHANGED <<batch, pc>>
        /\ job' = [call |-> pc, rows |-> RankRows, micro |-> MicroBatches(RankRows, pc), done |-> 0]
    BY <1>3 DEF StartCall
  <2>2. request = NoRequest
    BY <2>1, OneAtATime DEF Calls, GenerateCalls
  <2> DEFINE m == RowCount \div DpSize
             micro == MicroBatches(RankRows, pc)
  <2>3. /\ m \in Nat \ {0}
        /\ \A r \in Ranks : RankRows[r] \in Seq(1 .. RowCount) /\ Len(RankRows[r]) = m
    BY <1>1, RankRowsType
  <2> HIDE DEF m
  <2>4. \A r \in Ranks : MicroOK(micro[r], m, pc)
    BY <1>1, <2>1, <2>3, MicroBatchesOK
  <2> HIDE DEF micro
  <2>5. RankRows' = RankRows /\ Ranks' = Ranks
    BY <1>1, <2>1, SamePrompts DEF Ranks
  <2>6. /\ job'.call = pc /\ job'.rows = RankRows'
        /\ \A r \in Ranks' : MicroOK(job'.micro[r], Len(job'.rows[r]), job'.call)
    BY <2>1, <2>3, <2>4, <2>5 DEF micro
  <2>7. ComputeInv'
    BY <1>1, <2>6 DEF ComputeInv, MicroOK, Dynamic, MicroSize
  <2>8. BatchOK(batch)' /\ FilledInv'
    BY <1>1, <2>1, SameLens DEF DataInv, FilledInv
  <2>9. AnswerInv'
    BY <1>1, <2>2 DEF DataInv, AnswerInv
  <2> QED
    BY <1>1, <2>7, <2>8, <2>9 DEF DataInv
<1>4. CASE FinishCall
  <2>1. job.call \in Calls /\ job' = NoJob /\ pc' = NextCall[pc]
    BY <1>4 DEF FinishCall
  <2>2. pc = job.call /\ request = NoRequest
    BY <2>1, OneAtATime DEF FlowInv, RaisedInv, Calls, Updates
  <2>5. /\ BatchOK(batch') /\ Filled(batch', job.call, ComputedBy)
        /\ \A c \in Columns \ {job.call} : \A w : Filled(batch, c, w) => Filled(batch', c, w)
    BY <1>1, <1>4, <2>1, CallFills DEF DataInv
  <2>6. /\ BatchOK(batch)' /\ (\A w : Filled(batch', "responses", w) => Filled(batch, "responses", w)')
        /\ (\A w : Filled(batch', "rm_scores", w) => Filled(batch, "rm_scores", w)')
    BY <1>1, <2>5, SameLens
  <2>7. pc \in AfterResponses /\ pc # "responses"
    BY <2>1, <2>2 DEF AfterResponses, Calls
  <2>8. \E w : Filled(batch', "responses", w)
    <3>1. PICK w : Filled(batch, "responses", w)
      BY <2>7 DEF DataInv, FilledInv
    <3>2. "responses" \in Columns \ {job.call}
      BY <2>2, <2>7 DEF Columns
    <3> QED
      BY <2>5, <3>1, <3>2
  <2>9. pc' = "rewards" => Filled(batch', "rm_scores", 0)
    <3> SUFFICES ASSUME pc' = "rewards" PROVE Filled(batch', "rm_scores", 0)
      OBVIOUS
    <3>1. pc = "rm_scores"
      BY <2>1, <2>2 DEF Calls, NextCall
    <3>2. ComputedBy = 0
      BY <2>2, <3>1 DEF ComputedBy
    <3> QED
      BY <2>2, <2>5, <3>1, <3>2
  <2>10. FilledInv'
    BY <2>6, <2>8, <2>9 DEF FilledInv
  <2>11. AnswerInv'
    BY <1>1, <2>2 DEF DataInv, AnswerInv
  <2>12. ComputeInv'
    BY <2>1 DEF ComputeInv, NoJob, Calls
  <2> QED
    BY <1>1, <2>6, <2>10, <2>11, <2>12 DEF DataInv
<1> QED
  BY <1>3, <1>4

LEMMA Rewarded ==
  ASSUME DataInv, ComputeReward, cfg \in Configs
  PROVE  /\ BatchOK(batch')
         /\ \A c \in Columns \ {"rewards"} : \A w : Filled(batch, c, w) => Filled(batch', c, w)
<1> DEFINE of == [i \in DOMAIN batch |-> IF cfg.rm THEN batch[i].rm_scores.of
                                                   ELSE batch[i].responses.of]
           field(f) == [i \in DOMAIN batch |-> Responses[of[i]][f]]
           scores == IF cfg.rm THEN field("sim")
                     ELSE ScoreBatch(field("sim"), field("truth"), field("appears"), field("asked"))
           scored == [i \in DOMAIN batch |-> [batch[i] EXCEPT !.score = scores[i]]]
           cells == [i \in 1 .. Len(batch) |-> [of |-> of[i], by |-> 0]]
<1>1. batch' = Union(scored, "rewards", cells) /\ pc = "rewards"
  BY DEF ComputeReward
<1>2. BatchOK(batch) /\ RowCount \in Nat
  BY LensType DEF DataInv
<1>3. Len(batch) = RowCount /\ DOMAIN batch = 1 .. RowCount
  BY <1>2, RowsLen DEF BatchOK
<1>4. \A i \in 1 .. RowCount : of[i] = batch[i].id
  <2>1. CASE cfg.rm
    <3>1. \A i \in 1 .. RowCount : batch[i].rm_scores = [of |-> batch[i].id, by |-> 0]
      BY <1>1, <2>1 DEF DataInv, FilledInv, Filled
    <3> TAKE i \in 1 .. RowCount
    <3>2. of[i] = batch[i].rm_scores.of
      BY <1>3, <2>1
    <3>3. batch[i].rm_scores = [of |-> batch[i].id, by |-> 0]
      BY <3>1
    <3> HIDE DEF of
    <3> QED
      BY <3>2, <3>3
  <2>2. CASE ~cfg.rm
    <3>1. PICK w : \A i \in 1 .. RowCount : batch[i].responses = [of |-> batch[i].id, by |-> w]
      BY <1>1 DEF DataInv, FilledInv, Filled, AfterResponses
    <3> TAKE i \in 1 .. RowCount
    <3>2. of[i] = batch[i].responses.of
      BY <1>3, <2>2
    <3>3. batch[i].responses = [of |-> batch[i].id, by |-> w]
      BY <3>1
    <3> HIDE DEF of
    <3> QED
      BY <3>2, <3>3
  <2> QED
    BY <2>1, <2>2
<1> HIDE DEF of, scores
<1>5. SetsField(scored, batch, "score", scores)
  BY <1>3 DEF SetsField
<1> HIDE DEF scored
<1>6. /\ BatchOK(scored)
      /\ \A i \in 1 .. RowCount : scored[i].id = batch[i].id
      /\ \A c \in Columns : \A i \in 1 .. RowCount : scored[i][c] = batch[i][c]
  BY <1>2, <1>5, OwnFieldOK
<1>7. \A i \in 1 .. RowCount : cells[i] = [of |-> scored[i].id, by |-> 0]
  BY <1>3, <1>4, <1>6
<1> HIDE DEF cells
<1>8. BatchOK(batch') /\ KeepsOthers(batch', scored, "rewards")
  <2> DEFINE new == Union(scored, "rewards", cells)
  <2>1. "rewards" \in Columns
    BY DEF Columns
  <2>2. BatchOK(new) /\ KeepsOthers(new, scored, "rewards")
    BY <1>2, <1>6, <1>7, <2>1, UnionOK
  <2>3. batch' = new
    BY <1>1
  <2> HIDE DEF new
  <2> QED
    BY <2>2, <2>3
<1>9. \A i \in 1 .. RowCount :
        /\ batch'[i].id = batch[i].id
        /\ \A c \in Columns \ {"rewards"} : batch'[i][c] = batch[i][c]
  BY <1>6, <1>8 DEF KeepsOthers
<1> QED
  BY <1>8, <1>9 DEF Filled

LEMMA Advantaged ==
  ASSUME DataInv, ComputeAdvantage, cfg \in Configs
  PROVE  BatchOK(batch') /\ \A c \in Columns : \A w : Filled(batch, c, w) => Filled(batch', c, w)
<1> DEFINE values == [i \in DOMAIN batch |-> AdvantageAt(i)]
<1>1. batch' = [i \in DOMAIN batch |-> [batch[i] EXCEPT !.advantages = values[i]]]
  BY DEF ComputeAdvantage
<1>2. BatchOK(batch) /\ RowCount \in Nat
  BY LensType DEF DataInv
<1>3. DOMAIN batch = 1 .. RowCount
  BY <1>2, RowsLen DEF BatchOK
<1> HIDE DEF values
<1>4. SetsField(batch', batch, "advantages", values)
  BY <1>1, <1>3 DEF SetsField
<1>5. /\ BatchOK(batch')
      /\ \A i \in 1 .. RowCount : batch'[i].id = batch[i].id
      /\ \A c \in Columns : \A i \in 1 .. RowCount : batch'[i][c] = batch[i][c]
  BY <1>2, <1>4, OwnFieldOK
<1> QED
  BY <1>5 DEF Filled

(* The driver's own work on the batch.                                     *)
LEMMA DataDriven ==
  ASSUME FlowInv, DataInv, BalanceBatch \/ ComputeReward \/ ComputeAdvantage \/ EndStep
  PROVE  DataInv'
<1>1. /\ UNCHANGED <<cfg, lens, request, valOut, job>> /\ cfg \in Configs /\ lens \in LenProfiles
      /\ BatchOK(batch) /\ pc \in {"balance", "rewards", "adv", "endstep"}
  BY DEF BalanceBatch, ComputeReward, ComputeAdvantage, EndStep, FlowInv, DataInv, workerVars
<1>2. request = NoRequest /\ job = NoJob
  BY <1>1, OneAtATime DEF GenerateCalls, Calls, Updates
<1>3. ComputeInv' /\ AnswerInv'
  BY <1>1, <1>2 DEF ComputeInv, NoJob, Calls, DataInv, AnswerInv
<1>4. BatchOK(batch') /\ FilledInv'
  <2>1. CASE EndStep
    <3>1. /\ batch' \in {batch, FreshBatch} /\ pc' \in {"done", "generate"}
      BY <2>1 DEF EndStep
    <3> QED
      BY <1>1, <3>1, FreshOK DEF FilledInv, AfterResponses
  <2>2. CASE BalanceBatch \/ ComputeReward \/ ComputeAdvantage
    <3>1. pc \in AfterResponses /\ pc' = NextCall[pc]
      BY <1>1, <2>2 DEF AfterResponses, BalanceBatch, ComputeReward, ComputeAdvantage
    <3>2. PICK w : Filled(batch, "responses", w)
      BY <3>1 DEF DataInv, FilledInv
    <3>3. BatchOK(batch') /\ Filled(batch', "responses", w)
      <4>1. CASE BalanceBatch /\ cfg.balance
        <5>1. batch' = BalancedOrder(batch)
          BY <4>1 DEF BalanceBatch
        <5> QED
          BY <1>1, <3>2, <4>1, <5>1, BalancedOK
      <4>2. CASE BalanceBatch /\ ~cfg.balance
        <5>1. batch' = batch
          BY <4>2 DEF BalanceBatch
        <5> QED
          BY <1>1, <3>2, <5>1
      <4>3. CASE ComputeReward
        BY <1>1, <3>2, <4>3, Rewarded DEF Columns
      <4>4. CASE ComputeAdvantage
        BY <1>1, <3>2, <4>4, Advantaged DEF Columns
      <4> QED
        BY <2>2, <4>1, <4>2, <4>3, <4>4
    <3>4. Filled(batch, "responses", w)'
      BY <1>1, <3>3, SameLens
    <3>5. pc' = "rewards" => ~cfg'.rm
      <4>1. pc \in {"balance", "rewards", "adv"}
        BY <2>2 DEF BalanceBatch, ComputeReward, ComputeAdvantage
      <4> QED
        BY <1>1, <3>1, <4>1 DEF NextCall
    <3> QED
      BY <3>3, <3>4, <3>5 DEF FilledInv
  <2> QED
    BY <2>1, <2>2
<1>5. BatchOK(batch)'
  BY <1>1, <1>4, SameLens
<1> QED
  BY <1>1, <1>3, <1>4, <1>5 DEF DataInv

(* The driver's call stays the same while it is executed.                  *)
LEMMA CallKept ==
  ASSUME FlowInv, Forward \/ BeginMiniBatch \/ ForwardBackward \/ OptimizerStep
  PROVE  job'.call = job.call
<1>1. CASE Forward
  BY <1>1, OneAtATime DEF Forward, IsComputing
<1>2. CASE BeginMiniBatch
  <2>1. \E a, b, c : job' = [job EXCEPT !.rows = a, !.micro = b, !.done = 0, !.minis = c]
    BY <1>2 DEF BeginMiniBatch
  <2>2. IsUpdating(job)
    BY <1>2, OneAtATime DEF BeginMiniBatch
  <2> QED
    BY <2>1, <2>2 DEF IsUpdating
<1>3. CASE ForwardBackward
  BY <1>3, OneAtATime DEF ForwardBackward, IsUpdating
<1>4. CASE OptimizerStep
  <2>1. \E a, b : job' = [job EXCEPT !.rows = a, !.micro = b, !.done = 0]
    BY <1>4 DEF OptimizerStep
  <2>2. IsUpdating(job)
    BY <1>4, OneAtATime DEF OptimizerStep
  <2> QED
    BY <2>1, <2>2 DEF IsUpdating
<1> QED
  BY <1>1, <1>2, <1>3, <1>4

LEMMA DataStep == FlowInv /\ RaisedInv /\ DataInv /\ [Next]_vars => DataInv'
<1> SUFFICES ASSUME FlowInv, RaisedInv, DataInv, [Next]_vars PROVE DataInv'
  OBVIOUS
<1> USE DEF workerVars
<1>1. CASE UNCHANGED vars \/ SwitchMode \/ LeaveRollout
  <2>1. UNCHANGED <<cfg, lens, batch, request, valOut, pc, job>>
    BY <1>1 DEF vars, SwitchMode, LeaveRollout, TrainerMode, Summon, OffloadSummoned,
                ResumeWeights, UpdateWeights, ResumeCache, MegatronSummon, MegatronUpdateWeights
  <2> QED
    BY <2>1, DataQuiet
<1>2. CASE SkipActorUpdate
  <2>1. /\ UNCHANGED <<cfg, lens, batch, request, valOut, job>> /\ pc = "update_actor"
        /\ pc' = NextCall[pc]
    BY <1>2 DEF SkipActorUpdate
  <2>2. request = NoRequest /\ pc' = "testing"
    BY <2>1, OneAtATime DEF GenerateCalls, NextCall
  <2> QED
    BY <2>1, <2>2, DataQuiet DEF AfterResponses
<1>3. CASE Forward
  <2>1. /\ UNCHANGED <<cfg, lens, batch, request, valOut, pc>>
        /\ job.call \in Calls /\ job' = [job EXCEPT !.done = @ + 1]
    BY <1>3 DEF Forward
  <2>2. IsComputing(job)
    BY <2>1, OneAtATime
  <2>3. job'.call = job.call /\ job'.rows = job.rows /\ job'.micro = job.micro
    BY <2>1, <2>2 DEF IsComputing
  <2> QED
    BY <2>1, <2>3, DataQuiet
<1>4. CASE StartUpdate \/ BeginMiniBatch \/ ForwardBackward \/ OptimizerStep \/ BeginSave
  <2>1. UNCHANGED <<cfg, lens, batch, request, valOut, pc>>
    BY <1>4 DEF StartUpdate, BeginMiniBatch, ForwardBackward, OptimizerStep, BeginSave
  <2>2. job'.call \notin Calls
    <3>1. CASE StartUpdate
      <4>1. pc \in Updates /\ \E x, y, z : job' = [call |-> pc, minis |-> x, rows |-> y, micro |-> z, done |-> 0]
        BY <3>1 DEF StartUpdate
      <4>2. job'.call \in Updates
        BY <4>1
      <4> QED
        BY <4>2 DEF Updates, Calls
    <3>2. CASE BeginSave
      <4>1. job' = [call |-> "save"]
        BY <3>2 DEF BeginSave
      <4> QED
        BY <4>1 DEF Calls
    <3>3. CASE BeginMiniBatch \/ ForwardBackward \/ OptimizerStep
      <4>1. job.call \in Updates
        BY <3>3 DEF BeginMiniBatch, ForwardBackward, OptimizerStep
      <4> QED
        BY <3>3, <4>1, CallKept DEF Updates, Calls
    <3> QED
      BY <1>4, <3>1, <3>2, <3>3
  <2> QED
    BY <2>1, <2>2, DataQuiet
<1>5. CASE MegatronStepFails \/ EndSave
  <2>1. /\ UNCHANGED <<cfg, lens, batch, request, valOut>> /\ pc' \in {"raised", "endstep"}
        /\ job.call \in Updates \cup {"save"} /\ job' \in {job, NoJob}
    BY <1>5 DEF MegatronStepFails, EndSave
  <2>2. job'.call \notin Calls /\ job # NoJob
    BY <2>1 DEF Updates, Calls, NoJob
  <2>3. request = NoRequest
    BY <2>2, OneAtATime
  <2> QED
    BY <2>1, <2>2, <2>3, DataQuiet DEF AfterResponses
<1>6. CASE FinishUpdate
  <2>1. /\ UNCHANGED <<cfg, lens, batch, request, valOut>> /\ pc' = NextCall[pc] /\ job' = NoJob
        /\ job.call \in Updates /\ job.rows[0] = <<>>
    BY <1>6 DEF FinishUpdate
  <2>2. request = NoRequest /\ pc = job.call
    BY <2>1, OneAtATime DEF FlowInv, RaisedInv
  <2>3. pc \in AfterResponses /\ pc' # "rewards"
    BY <2>1, <2>2 DEF AfterResponses, Updates, NextCall
  <2>4. job'.call \notin Calls
    BY <2>1 DEF NoJob, Calls
  <2> QED
    BY <2>1, <2>2, <2>3, <2>4, DataQuiet
<1> QED
  BY <1>1, <1>2, <1>3, <1>4, <1>5, <1>6, DataRequest, DataComputed, DataDriven
     DEF Next, Rollout, Driver, Compute, Train, Save, Finished

(* Every cell of the driver's batch was computed for the row it is in, no  *)
(* row is lost or doubled, and a validation keeps its rows in order and    *)
(* loses its padding only, for every length of the responses and every     *)
(* layout of the ranks: after the union with what the engines and the      *)
(* ranks return, through the balanced order and the micro-batches.         *)
THEOREM RowsKeepTheirData == Spec => []ColumnsAligned
<1>1. Init => FlowInv /\ RaisedInv /\ DataInv
  BY FlowInit, DataInit DEF Init, RaisedInv
<1>2. FlowInv /\ RaisedInv /\ DataInv /\ [Next]_vars => FlowInv' /\ RaisedInv' /\ DataInv'
  BY FlowStep, RaisedStep, DataStep
<1>3. FlowInv /\ DataInv => ColumnsAligned
  <2> SUFFICES ASSUME FlowInv, DataInv PROVE ColumnsAligned
    OBVIOUS
  <2>1. BatchOK(batch) /\ RowCount \in Nat /\ Ids = 1 .. RowCount
    BY LensType DEF FlowInv, DataInv
  <2>2. Len(batch) = RowCount /\ DOMAIN batch = 1 .. RowCount
    BY <2>1, RowsLen DEF BatchOK
  <2>3. \A i \in DOMAIN batch, c \in Columns : batch[i][c] # NoCell => batch[i][c].of = batch[i].id
    BY <2>1, <2>2 DEF BatchOK, Aligned
  <2>4. {batch[i].id : i \in DOMAIN batch} = Ids
    BY <2>1, <2>2 DEF BatchOK, HasRows, EachOnce
  <2> QED
    BY <2>2, <2>3, <2>4 DEF ColumnsAligned, RowCount, DataInv, AnswerInv
<1> QED
  BY <1>1, <1>2, <1>3, PTL DEF Spec

-----------------------------------------------------------------------------
(* By which policies the columns were computed. *)

AfterReference == {"values", "adv", "update_critic", "update_actor"}
AfterOldLogProbs == {"ref_log_prob"} \cup AfterReference

(* Until the actor's update begins, its policy is the one that answered.   *)
PolicyInv ==
  job.call # "update_actor" =>
    /\ pc \in AfterResponses => Filled(batch, "responses", policy["actor"])
    /\ pc \in AfterOldLogProbs => Filled(batch, "old_log_probs", policy["actor"])
    /\ pc \in AfterReference => Filled(batch, "ref_log_prob", 0)

LEMMA PolicyAway == pc' \notin AfterResponses => PolicyInv'
BY DEF PolicyInv, AfterResponses, AfterOldLogProbs, AfterReference

(* A step of the driver that keeps what the columns hold.                  *)
LEMMA PolicyQuiet ==
  ASSUME PolicyInv, UNCHANGED lens, policy'["actor"] = policy["actor"],
         \A c \in {"responses", "old_log_probs", "ref_log_prob"} :
           \A w : Filled(batch, c, w) => Filled(batch', c, w),
         pc' \in AfterResponses => pc \in AfterResponses,
         pc' \in AfterOldLogProbs => pc \in AfterOldLogProbs,
         pc' \in AfterReference => pc \in AfterReference,
         job.call = "update_actor" => job'.call = "update_actor"
  PROVE  PolicyInv'
<1>1. \A c, w : Filled(batch, c, w)' <=> Filled(batch', c, w)
  BY SameLens
<1> DEFINE actor == policy["actor"]
<1>2. ASSUME job'.call # "update_actor"
      PROVE  /\ pc' \in AfterResponses => Filled(batch', "responses", actor)
             /\ pc' \in AfterOldLogProbs => Filled(batch', "old_log_probs", actor)
             /\ pc' \in AfterReference => Filled(batch', "ref_log_prob", 0)
  BY <1>2 DEF PolicyInv
<1>3. policy'["actor"] = actor
  OBVIOUS
<1>4. /\ AfterResponses' = AfterResponses /\ AfterOldLogProbs' = AfterOldLogProbs
      /\ AfterReference' = AfterReference
  BY DEF AfterResponses, AfterOldLogProbs, AfterReference
<1> HIDE DEF actor
<1> QED
  BY <1>1, <1>2, <1>3, <1>4 DEF PolicyInv

(* The responses come back with the policy that generated them.            *)
LEMMA PolicyAnswered ==
  ASSUME FlowInv, EngineInv, DataInv, DataInv', ReceiveResponses
  PROVE  PolicyInv'
<1>1. /\ request # NoRequest /\ pc' = NextCall[request.purpose]
      /\ UNCHANGED <<cfg, lens, policy, job>> /\ cfg \in Configs /\ lens \in LenProfiles
      /\ BatchOK(batch)
  BY DEF ReceiveResponses, workerVars, FlowInv, DataInv
<1>2. request.purpose = pc /\ pc \in GenerateCalls
  <2>1. PICK prompts, output : request = [purpose |-> pc, prompts |-> prompts, output |-> output]
    BY <1>1 DEF FlowInv
  <2> QED
    BY <1>1, <2>1 DEF FlowInv
<1>3. CASE pc # "generate"
  <2>1. pc' \notin AfterResponses
    BY <1>1, <1>2, <1>3 DEF GenerateCalls, NextCall, AfterResponses
  <2> QED
    BY <2>1, PolicyAway
<1>4. CASE pc = "generate"
  <2> DEFINE output == request.output
  <2>1. pc' = "balance" /\ batch' = Union(batch, "responses", output)
    BY <1>1, <1>2, <1>4 DEF NextCall, ReceiveResponses
  <2>2. \A i \in DOMAIN output : output[i].by = policy["actor"]
    BY <1>1 DEF EngineInv, AnswersInv
  <2>3. RowCount \in Nat \ {0} /\ DOMAIN output = 1 .. RowCount
    <3>1. RowCount \in Nat \ {0}
      BY <1>1, LensType
    <3>2. output # <<>> /\ request.prompts = Prompts(pc)
      BY <1>1 DEF ReceiveResponses, DataInv, AnswerInv
    <3>3. PICK w : Answers(output, Prompts(pc), w)
      BY <1>1, <3>2 DEF DataInv, AnswerInv
    <3>4. Len(Prompts(pc)) = RowCount
      BY <1>1, <1>4, PromptsKnown
    <3> HIDE DEF output
    <3> QED
      BY <3>1, <3>3, <3>4 DEF Answers
  <2>4. PICK w : Filled(batch', "responses", w)
    <3>1. PICK w : Filled(batch, "responses", w)'
      BY <2>1 DEF DataInv, FilledInv, AfterResponses
    <3> QED
      BY <1>1, <3>1, SameLens
  <2> HIDE DEF output
  <2>5. \A i \in 1 .. RowCount : batch'[i].responses = output[i]
    <3>1. /\ Len(batch) = RowCount
          /\ \A i \in 1 .. RowCount : DOMAIN batch[i] = RowFields
      BY <1>1, <2>3, RowsLen DEF BatchOK, HasRows
    <3>2. "responses" \in RowFields
      BY DEF RowFields, Columns
    <3>3. \A i \in 1 .. RowCount : batch'[i] = [batch[i] EXCEPT !["responses"] = output[i]]
      BY <2>1, <3>1 DEF Union
    <3> QED
      BY <3>1, <3>2, <3>3
  <2>6. w = policy["actor"]
    <3>1. 1 \in 1 .. RowCount
      BY <2>3
    <3>2. output[1].by = policy["actor"]
      BY <2>2, <2>3, <3>1
    <3>3. output[1] = [of |-> batch'[1].id, by |-> w]
      BY <2>4, <2>5, <3>1 DEF Filled
    <3> QED
      BY <3>2, <3>3
  <2>7. Filled(batch, "responses", policy["actor"])'
    BY <1>1, <2>4, <2>6, SameLens DEF Filled
  <2>8. pc' \notin AfterOldLogProbs /\ pc' \notin AfterReference
    BY <2>1 DEF AfterOldLogProbs, AfterReference
  <2> QED
    BY <2>7, <2>8 DEF PolicyInv
<1> QED
  BY <1>3, <1>4

(* The results of a call are joined with the policies they are of.         *)
LEMMA PolicyComputed ==
  ASSUME FlowInv, RaisedInv, DataInv, PolicyInv, FinishCall
  PROVE  PolicyInv'
<1>1. /\ job.call \in Calls /\ job' = NoJob /\ pc' = NextCall[pc] /\ pc = job.call
      /\ UNCHANGED <<cfg, lens, policy>> /\ cfg \in Configs
  BY OneAtATime DEF FinishCall, FlowInv, RaisedInv, Calls, Updates
<1>2. /\ Filled(batch', job.call, ComputedBy)
      /\ \A c \in Columns \ {job.call} : \A w : Filled(batch, c, w) => Filled(batch', c, w)
  BY <1>1, CallFills
<1>3. \A c, w : Filled(batch, c, w)' <=> Filled(batch', c, w)
  BY <1>1, SameLens
<1>4. {"responses", "old_log_probs", "ref_log_prob"} \subseteq Columns /\ pc \notin {"responses"}
  BY <1>1 DEF Columns, Calls
<1> DEFINE actor == policy["actor"]
<1>5. Filled(batch', "responses", actor)
  <2>1. Filled(batch, "responses", actor)
    BY <1>1 DEF PolicyInv, AfterResponses, Calls
  <2> HIDE DEF actor
  <2> QED
    BY <1>1, <1>2, <1>4, <2>1
<1>6. pc' \in AfterOldLogProbs => Filled(batch', "old_log_probs", actor)
  <2> SUFFICES ASSUME pc' \in AfterOldLogProbs PROVE Filled(batch', "old_log_probs", actor)
    OBVIOUS
  <2>1. CASE pc = "old_log_probs"
    <3>1. ComputedBy = actor
      BY <1>1, <2>1 DEF ComputedBy
    <3> QED
      BY <1>1, <1>2, <2>1, <3>1
  <2>2. CASE pc # "old_log_probs"
    <3>1. pc \in AfterOldLogProbs
      BY <1>1, <2>2 DEF NextCall, AfterOldLogProbs, AfterReference, Calls
    <3>2. Filled(batch, "old_log_probs", actor)
      BY <1>1, <3>1 DEF PolicyInv, Calls
    <3> HIDE DEF actor
    <3> QED
      BY <1>1, <1>2, <1>4, <2>2, <3>2
  <2> QED
    BY <2>1, <2>2
<1>7. pc' \in AfterReference => Filled(batch', "ref_log_prob", 0)
  <2> SUFFICES ASSUME pc' \in AfterReference PROVE Filled(batch', "ref_log_prob", 0)
    OBVIOUS
  <2>1. CASE pc = "ref_log_prob"
    <3>1. ComputedBy = 0
      BY <1>1, <2>1 DEF ComputedBy
    <3> QED
      BY <1>1, <1>2, <2>1, <3>1
  <2>2. CASE pc # "ref_log_prob"
    <3>1. pc \in AfterReference
      BY <1>1, <2>2 DEF NextCall, AfterReference, Calls
    <3>2. Filled(batch, "ref_log_prob", 0)
      BY <1>1, <3>1 DEF PolicyInv, Calls
    <3> QED
      BY <1>1, <1>2, <1>4, <2>2, <3>2
  <2> QED
    BY <2>1, <2>2
<1>8. policy'["actor"] = actor
  BY <1>1
<1> HIDE DEF actor
<1> QED
  BY <1>3, <1>5, <1>6, <1>7, <1>8 DEF PolicyInv

LEMMA PolicyStep ==
  /\ FlowInv /\ RaisedInv /\ EngineInv /\ DataInv /\ DataInv' /\ PolicyInv /\ [Next]_vars
  => PolicyInv'
<1> SUFFICES ASSUME FlowInv, RaisedInv, EngineInv, DataInv, DataInv', PolicyInv, [Next]_vars
             PROVE  PolicyInv'
  OBVIOUS
<1> USE DEF workerVars
<1>1. CASE UNCHANGED vars
  BY <1>1, PolicyQuiet DEF vars
<1>2. CASE SendPrompts \/ SwitchMode \/ Generate \/ LeaveRollout
  <2>1. pc' = pc /\ pc \in GenerateCalls
    BY <1>2 DEF SendPrompts, SwitchMode, Generate, LeaveRollout, FlowInv, GenerateCalls
  <2> QED
    BY <2>1, PolicyAway DEF GenerateCalls, AfterResponses
<1>3. CASE SkipActorUpdate \/ EndStep \/ MegatronStepFails \/ BeginSave \/ EndSave
  <2>1. pc' \in {"testing", "done", "generate", "raised", "save", "endstep"}
    <3>1. CASE SkipActorUpdate
      <4>1. pc = "update_actor" /\ pc' = NextCall[pc]
        BY <3>1 DEF SkipActorUpdate
      <4> QED
        BY <4>1 DEF NextCall
    <3>2. CASE EndStep \/ MegatronStepFails \/ BeginSave \/ EndSave
      BY <3>2 DEF EndStep, MegatronStepFails, BeginSave, EndSave
    <3> QED
      BY <1>3, <3>1, <3>2
  <2> QED
    BY <2>1, PolicyAway DEF AfterResponses
<1>4. CASE BalanceBatch \/ ComputeReward \/ ComputeAdvantage
  <2>1. /\ UNCHANGED <<cfg, lens, policy, job>> /\ pc' = NextCall[pc] /\ cfg \in Configs
        /\ pc \in {"balance", "rewards", "adv"} /\ lens \in LenProfiles /\ BatchOK(batch)
    BY <1>4 DEF BalanceBatch, ComputeReward, ComputeAdvantage, FlowInv, DataInv
  <2>2. \A c \in {"responses", "old_log_probs", "ref_log_prob"} :
          \A w : Filled(batch, c, w) => Filled(batch', c, w)
    <3>1. CASE BalanceBatch
      <4>1. batch' = IF cfg.balance THEN BalancedOrder(batch) ELSE batch
        BY <3>1 DEF BalanceBatch
      <4> HIDE DEF BalancedOrder
      <4> QED
        BY <2>1, <4>1, BalancedOK
    <3>2. CASE ComputeReward
      BY <2>1, <3>2, Rewarded DEF Columns
    <3>3. CASE ComputeAdvantage
      BY <2>1, <3>3, Advantaged DEF Columns
    <3> QED
      BY <1>4, <3>1, <3>2, <3>3
  <2>3. /\ pc \in AfterResponses
        /\ pc' \in AfterOldLogProbs => pc \in AfterOldLogProbs
        /\ pc' \in AfterReference => pc \in AfterReference
    BY <2>1 DEF NextCall, AfterResponses, AfterOldLogProbs, AfterReference
  <2> QED
    BY <2>1, <2>2, <2>3, PolicyQuiet
<1>5. CASE StartCall \/ StartUpdate
  <2>1. UNCHANGED <<lens, policy, batch, pc>> /\ job = NoJob
    BY <1>5 DEF StartCall, StartUpdate
  <2>2. job.call # "update_actor"
    BY <2>1 DEF NoJob
  <2> QED
    BY <2>1, <2>2, PolicyQuiet
<1>6. CASE Forward \/ BeginMiniBatch \/ ForwardBackward
  <2>1. UNCHANGED <<lens, policy, batch, pc>>
    BY <1>6 DEF Forward, BeginMiniBatch, ForwardBackward
  <2> QED
    BY <1>6, <2>1, CallKept, PolicyQuiet
<1>7. CASE OptimizerStep
  <2>1. UNCHANGED <<lens, batch, pc>> /\ job.call \in Updates /\ job'.call = job.call
    BY <1>7, CallKept DEF OptimizerStep
  <2>2. CASE job.call = "update_actor"
    BY <2>1, <2>2 DEF PolicyInv
  <2>3. CASE job.call = "update_critic"
    <3>1. policy' \in {[policy EXCEPT !["critic"] = @ + 1], policy}
      BY <1>7, <2>3 DEF OptimizerStep, ModelOf
    <3>2. policy'["actor"] = policy["actor"]
      BY <3>1 DEF EngineInv, EngineTypes, Models
    <3> QED
      BY <2>1, <3>2, PolicyQuiet
  <2> QED
    BY <2>1, <2>2, <2>3 DEF Updates
<1>8. CASE FinishUpdate
  <2>1. /\ UNCHANGED <<lens, policy, batch>> /\ pc' = NextCall[pc] /\ job' = NoJob
        /\ job.call \in Updates /\ job.rows[0] = <<>>
    BY <1>8 DEF FinishUpdate
  <2>2. pc = job.call
    BY <2>1, OneAtATime DEF FlowInv, RaisedInv
  <2>3. CASE pc = "update_actor"
    <3>1. pc' \notin AfterResponses
      BY <2>1, <2>3 DEF NextCall, AfterResponses
    <3> QED
      BY <3>1, PolicyAway
  <2>4. CASE pc = "update_critic"
    <3>1. pc \in AfterResponses /\ pc \in AfterOldLogProbs /\ pc \in AfterReference
      BY <2>4 DEF AfterResponses, AfterOldLogProbs, AfterReference
    <3> QED
      BY <2>1, <2>2, <2>4, <3>1, PolicyQuiet
  <2> QED
    BY <2>1, <2>2, <2>3, <2>4 DEF Updates
<1> QED
  BY <1>1, <1>2, <1>3, <1>4, <1>5, <1>6, <1>7, <1>8, PolicyAnswered, PolicyComputed
     DEF Next, Rollout, Driver, Compute, Train, Save, Finished

(* The update compares the policy it changes with itself: responses and    *)
(* old log-probs are of the actor as it is, the reference log-probs of the *)
(* actor training began with, for every layout of the ranks and every run  *)
(* in which the engine is woken and its adapter survives.                  *)
THEOREM ComparesItself ==
  ASSUME EngineWoken, AdapterSurvives
  PROVE  Spec => []PoliciesMatch
<1>1. Init => FlowInv /\ RaisedInv /\ EngineInv /\ DataInv /\ PolicyInv
  <2>1. Init => FlowInv /\ RaisedInv /\ EngineInv /\ DataInv
    BY FlowInit, EngineInit, DataInit DEF Init, RaisedInv
  <2>2. Init => PolicyInv
    BY DEF Init, PolicyInv, AfterResponses, AfterOldLogProbs, AfterReference
  <2> QED
    BY <2>1, <2>2
<1>2. FlowInv /\ RaisedInv /\ EngineInv /\ DataInv /\ PolicyInv /\ [Next]_vars
      => FlowInv' /\ RaisedInv' /\ EngineInv' /\ DataInv' /\ PolicyInv'
  BY FlowStep, RaisedStep, EngineStep, DataStep, PolicyStep
<1>3. FlowInv /\ DataInv /\ PolicyInv => PoliciesMatch
  <2> SUFFICES ASSUME FlowInv, DataInv, PolicyInv, pc = "update_actor", job = NoJob,
                      NEW i \in DOMAIN batch
               PROVE  /\ batch[i].responses.by = policy["actor"]
                      /\ batch[i].old_log_probs.by = policy["actor"]
                      /\ batch[i].ref_log_prob.by = 0
    BY DEF PoliciesMatch
  <2>1. i \in 1 .. RowCount
    BY LensType, RowsLen DEF FlowInv, DataInv, BatchOK
  <2>2. job.call # "update_actor"
    BY DEF NoJob
  <2>3. /\ Filled(batch, "responses", policy["actor"])
        /\ Filled(batch, "old_log_probs", policy["actor"])
        /\ Filled(batch, "ref_log_prob", 0)
    BY <2>2 DEF PolicyInv, AfterResponses, AfterOldLogProbs, AfterReference
  <2>4. /\ batch[i].responses = [of |-> batch[i].id, by |-> policy["actor"]]
        /\ batch[i].old_log_probs = [of |-> batch[i].id, by |-> policy["actor"]]
        /\ batch[i].ref_log_prob = [of |-> batch[i].id, by |-> 0]
    BY <2>1, <2>3 DEF Filled
  <2> QED
    BY <2>4
<1> QED
  BY <1>1, <1>2, <1>3, PTL DEF Spec

-----------------------------------------------------------------------------
(* The ranks run the same micro-batches. *)

(* The mini-batches of a rank, of known sizes.                             *)
Sized(minis, sizes) ==
  /\ minis \in Seq(Seq(1 .. RowCount)) /\ Len(minis) = Len(sizes)
  /\ \A p \in 1 .. Len(sizes) : Len(minis[p]) = sizes[p]

StepsInv ==
  /\ job.call \in Calls \cup Updates =>
       \E count \in Nat : (\A r \in Ranks : Len(job.micro[r]) = count) /\ job.done \in 0 .. count
  /\ job.call \in Updates =>
       \E sizes \in Seq(Nat \ {0}) : \A r \in Ranks : Sized(job.minis[r], sizes)

LEMMA LocalMiniSize ==
  ASSUME cfg \in Configs, lens \in LenProfiles, BatchOK(batch)
  PROVE  LocalMini \in Nat \ {0}
<1>1. DpSize \in Nat \ {0} /\ cfg.mini \in Nat \ {0} /\ cfg.mini >= DpSize
  BY RankRowsType, ConfigNumbers, RowsAssumption DEF DpSize
<1> DEFINE n == cfg.mini
           q == n \div DpSize
<1>2. LocalMini = q
  BY DEF LocalMini, DpSize
<1>3. n = q * DpSize + (n % DpSize) /\ q \in Nat /\ n % DpSize \in 0 .. DpSize - 1
  <2> HIDE DEF n
  <2> QED
    BY <1>1, DivMod DEF n
<1> HIDE DEF n, q
<1>4. q # 0
  <2> SUFFICES ASSUME q = 0 PROVE FALSE
    OBVIOUS
  <2>1. q * DpSize = 0
    BY <1>1
  <2> QED
    BY <1>1, <1>3, <2>1 DEF n
<1> QED
  BY <1>2, <1>3, <1>4

LEMMA OrderType ==
  ASSUME NEW m \in Nat, NEW orders \in EpochOrders(m), NEW e \in 1 .. cfg.epochs
  PROVE  orders[e] \in [1 .. m -> 1 .. m]
<1>1. orders[e] \in SetToSeqs(1 .. m) \/ orders[e] = Positions(m)
  BY DEF EpochOrders
<1>2. Positions(m) \in [1 .. m -> 1 .. m]
  BY DEF Positions
<1>3. Cardinality(1 .. m) = m
  BY FS_Interval
<1>4. \A o \in SetToSeqs(1 .. m) : o \in [1 .. m -> 1 .. m]
  BY <1>3 DEF SetToSeqs
<1> QED
  BY <1>1, <1>2, <1>4

(* What Split makes of the rows of each epoch, one after the other.        *)
PartSize(p, size, n) == PartEnd(p, size, n) - (p - 1) * size

LEMMA MiniBatchesType ==
  ASSUME cfg \in Configs, LocalMini \in Nat \ {0}, NEW S, NEW rows \in Seq(S),
         NEW orders \in EpochOrders(Len(rows))
  PROVE  Joined([e \in 1 .. cfg.epochs |-> Split(Reorder(rows, orders[e]), LocalMini)],
                cfg.epochs, PartCount(Len(rows), LocalMini), Seq(S), MiniBatches(rows, orders))
         /\ \A e \in 1 .. cfg.epochs : \A j \in 1 .. PartCount(Len(rows), LocalMini) :
              Len(Split(Reorder(rows, orders[e]), LocalMini)[j]) =
                PartSize(j, LocalMini, Len(rows))
<1> DEFINE m == Len(rows)
           E == cfg.epochs
           size == LocalMini
           k == PartCount(m, size)
           reordered(e) == Reorder(rows, orders[e])
           parts == [e \in 1 .. E |-> Split(reordered(e), size)]
<1>1. m \in Nat /\ E \in Nat \ {0} /\ size \in Nat \ {0}
  BY ConfigNumbers
<1>2. k \in Nat
  BY <1>1, PartEnds
<1>3. ASSUME NEW e \in 1 .. E PROVE reordered(e) \in Seq(S) /\ Len(reordered(e)) = m
  <2> DEFINE order == orders[e]
             new == reordered(e)
  <2>1. order \in [1 .. m -> 1 .. m]
    BY <1>1, OrderType
  <2>2. \A x \in 1 .. m : rows[x] \in S
    OBVIOUS
  <2>3. new = [i \in 1 .. Len(order) |-> rows[order[i]]]
    BY DEF Reorder
  <2> HIDE DEF order, m, new
  <2>4. Len(order) = m
    BY <1>1, <2>1
  <2>5. new \in [1 .. m -> S]
    BY <2>1, <2>2, <2>3, <2>4
  <2>6. new \in Seq(S) /\ Len(new) = m
    BY <1>1, <2>5
  <2> QED
    BY <2>6 DEF new
<1> HIDE DEF reordered
<1>4. ASSUME NEW e \in 1 .. E
      PROVE  /\ Split(reordered(e), size) \in Seq(Seq(S)) /\ Len(Split(reordered(e), size)) = k
             /\ \A j \in 1 .. k : Len(Split(reordered(e), size)[j]) = PartSize(j, size, m)
  <2> DEFINE w == reordered(e)
  <2>1. w \in Seq(S) /\ Len(w) = m
    BY <1>3
  <2> HIDE DEF w, m, size, k
  <2>2. IsSplit(Split(w, size), w, size, S) /\ Split(w, size) \in Seq(Seq(S))
    BY <1>1, <2>1, SplitType
  <2> QED
    BY <2>1, <2>2 DEF IsSplit, PartSize, w, k
<1> HIDE DEF size, k, m
<1>5. EqualParts(parts, E, k, Seq(S))
  <2> DEFINE T == Seq(Seq(S))
  <2>1. \A e \in 1 .. E : parts[e] \in T /\ Len(parts[e]) = k
    BY <1>4
  <2> HIDE DEF T
  <2>2. parts \in [1 .. E -> T]
    BY <2>1
  <2> HIDE DEF parts
  <2>3. parts \in Seq(T) /\ Len(parts) = E
    BY <1>1, <2>2
  <2> QED
    BY <1>2, <2>1, <2>3 DEF EqualParts, T
<1>6. MiniBatches(rows, orders) = FlattenSeq(parts)
  BY DEF MiniBatches, reordered, size
<1> HIDE DEF parts
<1>7. Joined(parts, E, k, Seq(S), FlattenSeq(parts))
  BY <1>5, FlattenParts
<1> QED
  BY <1>4, <1>6, <1>7 DEF parts, reordered, k, m, size

(* All ranks get mini-batches of the same sizes.                           *)
LEMMA MiniBatchesSized ==
  ASSUME cfg \in Configs, LocalMini \in Nat \ {0}, NEW m \in Nat, NEW orders \in EpochOrders(m),
         NEW rows, \A r \in Ranks : rows[r] \in Seq(1 .. RowCount) /\ Len(rows[r]) = m
  PROVE  \E sizes \in Seq(Nat \ {0}) : \A r \in Ranks : Sized(MiniBatches(rows[r], orders), sizes)
<1> DEFINE S == 1 .. RowCount
           E == cfg.epochs
           L == LocalMini
           k == PartCount(m, L)
           len == E * k
           minis(r) == MiniBatches(rows[r], orders)
           sizes == [p \in 1 .. len |-> Len(minis(0)[p])]
<1>1. E \in Nat \ {0} /\ k \in Nat /\ 0 \in Ranks
  <2>1. E \in Nat \ {0} /\ cfg.world \in Nat \ {0}
    BY ConfigNumbers
  <2>2. k \in Nat
    BY PartEnds
  <2> HIDE DEF E, k
  <2> QED
    BY <2>1, <2>2 DEF Ranks
<1>2. len \in Nat
  <2> HIDE DEF E, k
  <2> QED
    BY <1>1, Product
<1>3. ASSUME NEW r \in Ranks
      PROVE  /\ minis(r) \in Seq(Seq(S)) /\ Len(minis(r)) = len
             /\ \A i \in 1 .. E : \A j \in 1 .. k :
                  Len(minis(r)[(i - 1) * k + j]) = PartSize(j, L, m)
  <2> DEFINE w == rows[r]
             parts == [e \in 1 .. E |-> Split(Reorder(w, orders[e]), L)]
             all == MiniBatches(w, orders)
  <2>1. w \in Seq(S) /\ Len(w) = m
    OBVIOUS
  <2> HIDE DEF w, S
  <2>2. /\ Joined(parts, E, k, Seq(S), all)
        /\ \A e \in 1 .. E : \A j \in 1 .. k :
             Len(Split(Reorder(w, orders[e]), L)[j]) = PartSize(j, L, m)
    BY <2>1, MiniBatchesType
  <2>3. \A i \in 1 .. E : parts[i] = Split(Reorder(w, orders[i]), L)
    OBVIOUS
  <2> HIDE DEF parts, all, E, k, L, len
  <2>4. \A i \in 1 .. E : \A j \in 1 .. k : all[(i - 1) * k + j] = parts[i][j]
    BY <2>2 DEF Joined
  <2>5. \A i \in 1 .. E : \A j \in 1 .. k : Len(all[(i - 1) * k + j]) = PartSize(j, L, m)
    BY <2>2, <2>3, <2>4
  <2>6. all \in Seq(Seq(S)) /\ Len(all) = len
    BY <2>2 DEF Joined, len
  <2> QED
    BY <2>5, <2>6 DEF all, w
<1> HIDE DEF minis
<1>4. \A p \in 1 .. len : \E i \in 1 .. E, j \in 1 .. k : (i - 1) * k + j = p
  <2> HIDE DEF E, k
  <2>1. \A p \in 1 .. E * k : HasPlace(p, E, k)
    <3> TAKE p \in 1 .. E * k
    <3> QED
      BY <1>1, Places
  <2> QED
    BY <2>1 DEF HasPlace, len
<1>5. ASSUME NEW r \in Ranks, NEW p \in 1 .. len
      PROVE  Len(minis(r)[p]) = Len(minis(0)[p]) /\ Len(minis(0)[p]) \in Nat \ {0}
  <2>1. PICK i \in 1 .. E, j \in 1 .. k : (i - 1) * k + j = p
    BY <1>4
  <2>2. PartSize(j, L, m) \in Nat \ {0}
    <3> HIDE DEF L
    <3>1. j \in 1 .. PartCount(m, L) /\ L \in Nat \ {0}
      BY DEF L
    <3>2. PartSize(j, L, m) \in 1 .. L
      BY <3>1, PartEnds DEF PartSize
    <3> QED
      BY <3>1, <3>2
  <2> HIDE DEF E, k, L, len
  <2>3. \A s \in Ranks : Len(minis(s)[p]) = PartSize(j, L, m)
    BY <1>3, <2>1
  <2> QED
    BY <1>1, <2>2, <2>3
<1> HIDE DEF E, k, L, len
<1>6. sizes \in Seq(Nat \ {0}) /\ Len(sizes) = len
  <2>1. sizes \in [1 .. len -> Nat \ {0}]
    BY <1>1, <1>5
  <2> HIDE DEF sizes
  <2> QED
    BY <1>2, <2>1
<1>7. \A r \in Ranks : Sized(minis(r), sizes)
  BY <1>3, <1>5, <1>6 DEF Sized
<1> HIDE DEF sizes
<1> QED
  BY <1>6, <1>7 DEF minis

EachRank(rows, m) == \A r \in Ranks : rows[r] \in Seq(1 .. RowCount) /\ Len(rows[r]) = m
SameCount(micro, count) == \A r \in Ranks : Len(micro[r]) = count

LEMMA MicroCount ==
  ASSUME cfg \in Configs, lens \in LenProfiles, NEW call \in Calls \cup Updates,
         NEW m \in Nat \ {0}, NEW rows, EachRank(rows, m)
  PROVE  \E count \in Nat : SameCount(MicroBatches(rows, call), count)
<1>1. \A r \in Ranks : rows[r] \in Seq(1 .. RowCount) /\ Len(rows[r]) = m
  BY DEF EachRank
<1>2. \E count \in Nat : \A r \in Ranks : Len(MicroBatches(rows, call)[r]) = count
  BY <1>1, MicroBatchesOK
<1> QED
  BY <1>2 DEF SameCount

LEMMA StepsInit == Init => StepsInv
BY DEF Init, StepsInv, NoJob, Calls, Updates

LEMMA StepsQuiet ==
  ASSUME StepsInv, UNCHANGED <<cfg, lens, job>>
  PROVE  StepsInv'
BY DEF StepsInv, Sized, RowCount, Ranks

(* A call starts with the rows and the mini-batches of every rank.         *)
LEMMA StepsStarted ==
  ASSUME FlowInv, DataInv, StartCall \/ StartUpdate
  PROVE  StepsInv'
<1>1. UNCHANGED <<cfg, lens>> /\ cfg \in Configs /\ lens \in LenProfiles /\ BatchOK(batch)
  BY DEF StartCall, StartUpdate, FlowInv, DataInv
<1>2. Ranks' = Ranks /\ \A minis, sizes : Sized(minis, sizes)' <=> Sized(minis, sizes)
  BY <1>1 DEF Ranks, Sized, RowCount
<1> DEFINE m == RowCount \div DpSize
<1>3. /\ m \in Nat \ {0}
      /\ \A r \in Ranks : RankRows[r] \in Seq(1 .. RowCount) /\ Len(RankRows[r]) = m
  BY <1>1, RankRowsType
<1> HIDE DEF m
<1>4. CASE StartCall
  <2> DEFINE micro == MicroBatches(RankRows, pc)
  <2>1. pc \in Calls /\ job' = [call |-> pc, rows |-> RankRows, micro |-> micro, done |-> 0]
    BY <1>4 DEF StartCall
  <2>2. PICK count \in Nat : \A r \in Ranks : Len(micro[r]) = count
    BY <1>1, <1>3, <2>1, MicroBatchesOK
  <2> HIDE DEF micro
  <2>3. job'.call = pc /\ job'.micro = micro /\ job'.done = 0
    BY <2>1
  <2>4. job'.call \notin Updates
    BY <2>1, <2>3 DEF Calls, Updates
  <2>5. (\A r \in Ranks : Len(job'.micro[r]) = count) /\ job'.done \in 0 .. count
    BY <2>2, <2>3
  <2> QED
    BY <1>2, <2>4, <2>5 DEF StepsInv, Calls, Updates
<1>5. CASE StartUpdate
  <2>0. 0 \in Ranks /\ LocalMini \in Nat \ {0}
    <3>1. cfg.world \in Nat \ {0}
      BY <1>1, ConfigNumbers
    <3> QED
      BY <1>1, <3>1, LocalMiniSize DEF Ranks
  <2>1. PICK orders \in EpochOrders(m) :
          job' = [call |-> pc, minis |-> [r \in Ranks |-> MiniBatches(RankRows[r], orders)],
                  rows |-> [r \in Ranks |-> <<>>], micro |-> [r \in Ranks |-> <<>>], done |-> 0]
    BY <1>3, <1>5, <2>0 DEF StartUpdate
  <2>2. PICK sizes \in Seq(Nat \ {0}) :
          \A r \in Ranks : Sized(MiniBatches(RankRows[r], orders), sizes)
    BY <1>1, <1>3, <2>0, MiniBatchesSized
  <2>3. \A r \in Ranks : job'.minis[r] = MiniBatches(RankRows[r], orders) /\ Len(job'.micro[r]) = 0
    BY <2>1
  <2>4. job'.done = 0
    BY <2>1
  <2>5. \A r \in Ranks : Sized(job'.minis[r], sizes)
    BY <2>2, <2>3
  <2>6. \E count \in Nat : (\A r \in Ranks : Len(job'.micro[r]) = count) /\ job'.done \in 0 .. count
    BY <2>3, <2>4
  <2> QED
    BY <1>2, <2>5, <2>6 DEF StepsInv
<1> QED
  BY <1>4, <1>5

(* The next mini-batch of every rank.                                      *)
LEMMA StepsNextMini ==
  ASSUME FlowInv, DataInv, StepsInv, BeginMiniBatch
  PROVE  StepsInv'
<1>1. UNCHANGED <<cfg, lens>> /\ cfg \in Configs /\ lens \in LenProfiles
      /\ job.call \in Updates /\ job.minis[0] # <<>>
  BY DEF BeginMiniBatch, FlowInv, DataInv, workerVars
<1>2. Ranks' = Ranks /\ \A minis, sizes : Sized(minis, sizes)' <=> Sized(minis, sizes)
  BY <1>1 DEF Ranks, Sized, RowCount
<1>3. 0 \in Ranks
  <2>1. cfg.world \in Nat \ {0}
    BY <1>1, ConfigNumbers
  <2> QED
    BY <2>1 DEF Ranks
<1> DEFINE rows == [r \in Ranks |-> Head(job.minis[r])]
           left == [r \in Ranks |-> Tail(job.minis[r])]
           micro == MicroBatches(rows, job.call)
<1>4. /\ job'.call = job.call /\ job'.micro = micro /\ job'.done = 0 /\ job'.minis = left
  <2>1. job' = [job EXCEPT !.rows = rows, !.micro = micro, !.done = 0, !.minis = left]
    BY DEF BeginMiniBatch
  <2>2. IsUpdating(job)
    BY <1>1, OneAtATime
  <2> HIDE DEF rows, micro, left
  <2> QED
    BY <2>1, <2>2 DEF IsUpdating
<1>5. PICK sizes \in Seq(Nat \ {0}) : \A r \in Ranks : Sized(job.minis[r], sizes)
  BY <1>1 DEF StepsInv
<1>6. Len(sizes) \in Nat \ {0}
  <2>1. Len(job.minis[0]) = Len(sizes) /\ job.minis[0] \in Seq(Seq(1 .. RowCount))
    BY <1>3, <1>5 DEF Sized
  <2> QED
    BY <1>1, <2>1
<1> DEFINE m == sizes[1]
           rest == Tail(sizes)
           n == Len(sizes)
<1>7. m \in Nat \ {0} /\ rest \in Seq(Nat \ {0}) /\ Len(rest) = n - 1
      /\ \A p \in 1 .. n - 1 : rest[p] = sizes[p + 1]
  BY <1>6
<1> HIDE DEF m, rest
<1>8. ASSUME NEW r \in Ranks
      PROVE  rows[r] \in Seq(1 .. RowCount) /\ Len(rows[r]) = m /\ Sized(left[r], rest)
  <2> DEFINE minis == job.minis[r]
             T == Seq(1 .. RowCount)
  <2>1. minis \in Seq(T) /\ Len(minis) = n /\ \A p \in 1 .. n : Len(minis[p]) = sizes[p]
    BY <1>5 DEF Sized
  <2>2. rows[r] = Head(minis) /\ left[r] = Tail(minis)
    OBVIOUS
  <2> HIDE DEF rows, left, minis, T, n
  <2>3. n \in Nat \ {0}
    BY <1>6 DEF n
  <2>4. rows[r] = minis[1] /\ minis[1] \in T /\ Len(minis[1]) = sizes[1]
    BY <2>1, <2>2, <2>3
  <2>5. left[r] \in Seq(T) /\ Len(left[r]) = n - 1
        /\ \A p \in 1 .. n - 1 : left[r][p] = minis[p + 1]
    BY <2>1, <2>2, <2>3
  <2>6. \A p \in 1 .. n - 1 : Len(left[r][p]) = rest[p]
    <3> TAKE p \in 1 .. n - 1
    <3>1. left[r][p] = minis[p + 1] /\ rest[p] = sizes[p + 1] /\ p + 1 \in 1 .. n
      BY <1>7, <2>3, <2>5 DEF n
    <3> QED
      BY <2>1, <3>1
  <2>7. Sized(left[r], rest)
    <3>1. Len(rest) = n - 1
      BY <1>7 DEF n
    <3> QED
      BY <2>5, <2>6, <3>1 DEF Sized, T
  <2> QED
    BY <2>4, <2>7 DEF m, T
<1> HIDE DEF rows, left
<1>9. PICK count \in Nat : \A r \in Ranks : Len(micro[r]) = count
  <2> DEFINE call == job.call
  <2>1. call \in Calls \cup Updates /\ micro = MicroBatches(rows, call)
    BY <1>1
  <2>2. EachRank(rows, m)
    BY <1>8 DEF EachRank
  <2> HIDE DEF micro, call
  <2>3. cfg \in Configs /\ lens \in LenProfiles /\ m \in Nat \ {0}
    BY <1>1, <1>7
  <2>4. \E count \in Nat : SameCount(MicroBatches(rows, call), count)
    BY <2>1, <2>2, <2>3, MicroCount
  <2> QED
    BY <2>1, <2>4 DEF SameCount
<1> HIDE DEF micro
<1>10. (\A r \in Ranks : Len(job'.micro[r]) = count) /\ job'.done \in 0 .. count
  BY <1>4, <1>9
<1>11. \A r \in Ranks : Sized(job'.minis[r], rest)
  BY <1>4, <1>8
<1> QED
  BY <1>2, <1>7, <1>10, <1>11 DEF StepsInv

(* A micro-batch on every rank, or the optimizer step after the last.      *)
LEMMA StepsAdvanced ==
  ASSUME FlowInv, StepsInv, Forward \/ ForwardBackward \/ OptimizerStep
  PROVE  StepsInv'
<1>1. /\ UNCHANGED <<cfg, lens>> /\ cfg \in Configs /\ job'.call = job.call
      /\ job.call \in Calls \cup Updates
  BY CallKept DEF Forward, ForwardBackward, OptimizerStep, FlowInv, workerVars
<1>2. Ranks' = Ranks /\ \A minis, sizes : Sized(minis, sizes)' <=> Sized(minis, sizes)
  BY <1>1 DEF Ranks, Sized, RowCount
<1>3. 0 \in Ranks
  <2>1. cfg.world \in Nat \ {0}
    BY <1>1, ConfigNumbers
  <2> QED
    BY <2>1 DEF Ranks
<1>4. job.call \in Updates => job'.minis = job.minis
  <2> SUFFICES ASSUME job.call \in Updates PROVE job'.minis = job.minis
    OBVIOUS
  <2>1. IsUpdating(job) /\ ~ Forward
    BY OneAtATime DEF Forward, Calls, Updates
  <2>2. CASE ForwardBackward
    BY <2>1, <2>2 DEF ForwardBackward, IsUpdating
  <2>3. CASE OptimizerStep
    <3>1. \E a, b : job' = [job EXCEPT !.rows = a, !.micro = b, !.done = 0]
      BY <2>3 DEF OptimizerStep
    <3> QED
      BY <2>1, <3>1 DEF IsUpdating
  <2> QED
    BY <2>1, <2>2, <2>3
<1>5. \E count \in Nat : (\A r \in Ranks : Len(job'.micro[r]) = count) /\ job'.done \in 0 .. count
  <2>1. CASE Forward \/ ForwardBackward
    <3>1. AllRanksAtMicroBatch /\ job' = [job EXCEPT !.done = @ + 1]
      BY <2>1 DEF Forward, ForwardBackward
    <3>2. job'.micro = job.micro /\ job'.done = job.done + 1
      BY <1>1, <3>1, OneAtATime DEF IsComputing, IsUpdating
    <3>3. PICK count \in Nat : (\A r \in Ranks : Len(job.micro[r]) = count) /\ job.done \in 0 .. count
      BY <1>1 DEF StepsInv
    <3>4. job.done < count
      BY <1>3, <3>1, <3>3 DEF AllRanksAtMicroBatch
    <3>5. job.done + 1 \in 0 .. count
      BY <3>3, <3>4
    <3> QED
      BY <3>2, <3>3, <3>5
  <2>2. CASE OptimizerStep
    <3>1. /\ IsUpdating(job)
          /\ \E a : job' = [job EXCEPT !.rows = a, !.micro = [r \in Ranks |-> <<>>], !.done = 0]
      BY <2>2, OneAtATime DEF OptimizerStep
    <3>2. job'.micro = [r \in Ranks |-> <<>>] /\ job'.done = 0
      BY <3>1 DEF IsUpdating
    <3>3. \A r \in Ranks : Len(job'.micro[r]) = 0
      BY <3>2
    <3> QED
      BY <3>2, <3>3
  <2> QED
    BY <2>1, <2>2
<1>6. job'.call \in Updates =>
        \E sizes \in Seq(Nat \ {0}) : \A r \in Ranks : Sized(job'.minis[r], sizes)
  BY <1>1, <1>4 DEF StepsInv
<1> QED
  BY <1>2, <1>5, <1>6 DEF StepsInv

LEMMA StepsStep == FlowInv /\ DataInv /\ StepsInv /\ [Next]_vars => StepsInv'
<1> SUFFICES ASSUME FlowInv, DataInv, StepsInv, [Next]_vars PROVE StepsInv'
  OBVIOUS
<1> USE DEF workerVars
<1>1. CASE UNCHANGED vars
  BY <1>1, StepsQuiet DEF vars
<1>2. CASE Rollout
  <2>1. UNCHANGED <<cfg, lens, job>>
    BY <1>2 DEF Rollout, SendPrompts, SwitchMode, Generate, LeaveRollout, ReceiveResponses,
                TrainerMode, Summon, OffloadSummoned, ResumeWeights, UpdateWeights, ResumeCache,
                MegatronSummon, MegatronUpdateWeights
  <2> QED
    BY <2>1, StepsQuiet
<1>3. CASE Driver \/ MegatronStepFails
  <2>1. UNCHANGED <<cfg, lens, job>>
    BY <1>3 DEF Driver, BalanceBatch, ComputeReward, ComputeAdvantage, SkipActorUpdate, EndStep,
                MegatronStepFails
  <2> QED
    BY <2>1, StepsQuiet
<1>4. CASE FinishCall \/ FinishUpdate \/ BeginSave \/ EndSave
  <2>1. job' = NoJob \/ job' = [call |-> "save"]
    BY <1>4 DEF FinishCall, FinishUpdate, BeginSave, EndSave
  <2>2. job'.call \notin Calls \cup Updates
    BY <2>1 DEF NoJob, Calls, Updates
  <2> QED
    BY <2>2 DEF StepsInv, Calls, Updates
<1> QED
  BY <1>1, <1>2, <1>3, <1>4, StepsStarted, StepsNextMini, StepsAdvanced
     DEF Next, Compute, Train, Save, Finished

(* No rank waits in a collective operation for one that has finished: all  *)
(* have as many micro-batches, of every mini-batch and every call, however *)
(* the lengths fall on them and whatever their layout                      *)
(* (rearrange_micro_batches agrees on the largest count).                  *)
THEOREM RanksTogether == Spec => []RanksInStep
<1>1. Init => FlowInv /\ RaisedInv /\ DataInv /\ StepsInv
  BY FlowInit, DataInit, StepsInit DEF Init, RaisedInv
<1>2. FlowInv /\ RaisedInv /\ DataInv /\ StepsInv /\ [Next]_vars
      => FlowInv' /\ RaisedInv' /\ DataInv' /\ StepsInv'
  BY FlowStep, RaisedStep, DataStep, StepsStep
<1>3. StepsInv => RanksInStep
  <2> SUFFICES ASSUME StepsInv, job.call \in Calls \cup Updates
               PROVE  AllRanksAtMicroBatch \/ AllRanksFinished
    BY DEF RanksInStep
  <2>1. PICK count \in Nat : (\A r \in Ranks : Len(job.micro[r]) = count) /\ job.done \in 0 .. count
    BY DEF StepsInv
  <2>2. job.done < count \/ job.done = count
    BY <2>1
  <2> QED
    BY <2>1, <2>2 DEF AllRanksAtMicroBatch, AllRanksFinished
<1> QED
  BY <1>1, <1>2, <1>3, PTL DEF Spec

-----------------------------------------------------------------------------
(* The balanced order gives each data parallel rank as many tokens, up to  *)
(* what equal partitions can differ by.                                    *)

LengthRange == Max(Range(lens)) - Min(Range(lens))

\* The batch in the driver's hands is divided evenly.
EvenLoads ==
  \A r, s \in Ranks :
    Total(lens, RankRows[r]) - Total(lens, RankRows[s]) <= (cfg.sp * cfg.pp) * LengthRange

BalancedInv == pc \in {"rm_scores", "rewards"} /\ cfg.balance => EvenLoads

(* The rows of a balanced batch are in the order of the parts.             *)
LEMMA BalancedInParts ==
  ASSUME cfg \in Configs, lens \in LenProfiles, BatchOK(batch), cfg.balance,
         NEW l, l = LensOf(IdsOf(batch)),
         NEW parts, parts = BalancedPartitions(l, cfg.world, TRUE),
         NEW k, k = cfg.world, NEW q \in Nat \ {0}, RowCount = q * k
  PROVE  /\ l \in Lengths /\ Near(l, parts, LengthRange)
         /\ IdsOf(BalancedOrder(batch)) \in Seq(1 .. Len(lens))
         /\ InParts(lens, IdsOf(BalancedOrder(batch)), l, parts, k, q)
<1> DEFINE ids == IdsOf(batch)
           new == IdsOf(BalancedOrder(batch))
           e == FlattenSeq(parts)
<1>1. lens \in Lengths /\ RowCount \in Nat \ {0} /\ k \in Nat \ {0} /\ RowCount = Len(lens)
  BY LensType, ConfigNumbers DEF RowCount
<1>2. ids \in Seq(1 .. RowCount) /\ Len(ids) = RowCount /\ \A i \in 1 .. RowCount : ids[i] = batch[i].id
  BY <1>1, IdsType
<1>3. l \in Lengths /\ Len(l) = RowCount /\ \A i \in 1 .. RowCount : l[i] = lens[ids[i]]
  BY <1>1, <1>2, LensOfType
<1>4. RowCount % k = 0 /\ k <= RowCount
  <2>1. RowCount % k = 0
    BY RowsAssumption DEF RowCount
  <2>2. q * k = k + (q - 1) * k /\ (q - 1) * k \in Nat
    <3>1. q - 1 \in Nat /\ q = 1 + (q - 1)
      OBVIOUS
    <3> QED
      BY <1>1, <3>1
  <2> DEFINE d == (q - 1) * k
  <2>3. RowCount = k + d /\ d \in Nat
    BY <2>2
  <2> HIDE DEF d
  <2> QED
    BY <1>1, <2>1, <2>3
<1>5. LengthRange \in Nat /\ LengthsWithin(l, TRUE, LengthRange)
  <2> DEFINE a == Min(Range(lens))
             b == Max(Range(lens))
  <2>1. lens # <<>>
    BY RowsAssumption
  <2>2. a \in Nat /\ b \in Nat /\ a <= b /\ \A i \in 1 .. Len(lens) : lens[i] \in a .. b
    BY <1>1, <2>1, LongestAndShortest
  <2>3. LengthRange = b - a
    BY DEF LengthRange
  <2> HIDE DEF a, b
  <2>6. \A i \in 1 .. RowCount : ids[i] \in 1 .. Len(lens)
    BY <1>1, <1>2
  <2> HIDE DEF ids
  <2>4. \A i \in 1 .. Len(l) : l[i] \in a .. b
    BY <1>3, <2>2, <2>6
  <2>5. \A i, j \in 1 .. Len(l) : l[i] - l[j] <= b - a
    <3> TAKE i \in 1 .. Len(l), j \in 1 .. Len(l)
    <3>1. l[i] \in a .. b /\ l[j] \in a .. b
      BY <2>4
    <3> QED
      BY <2>2, <3>1
  <2> QED
    BY <2>2, <2>3, <2>5 DEF LengthsWithin
<1> HIDE DEF ids
<1>6. Covers(parts, RowCount, k) /\ Near(l, parts, LengthRange) /\ Level(parts)
  BY <1>1, <1>3, <1>4, <1>5, PartitionsCover, ZenonT(30)
<1>7. Permutes(e, RowCount) /\ Len(e) = RowCount /\ \A p \in 1 .. RowCount : e[p] \in 1 .. RowCount
  BY <1>1, <1>6, CoversPermutes
<1>8. new \in Seq(1 .. RowCount) /\ Len(new) = RowCount
      /\ \A p \in 1 .. RowCount : new[p] = ids[e[p]]
  <2>1. BalancedOrder(batch) = Reorder(batch, e)
    BY DEF BalancedOrder
  <2>2. BatchOK(BalancedOrder(batch))
    BY <1>1, <1>7, <2>1, ReorderedOK
  <2>3. new \in Seq(1 .. RowCount) /\ Len(new) = RowCount
        /\ \A p \in 1 .. RowCount : new[p] = BalancedOrder(batch)[p].id
    BY <1>1, <2>2, IdsType
  <2>4. \A p \in 1 .. RowCount : BalancedOrder(batch)[p] = batch[e[p]]
    BY <1>7, <2>1 DEF Reorder
  <2> HIDE DEF new, e
  <2>5. \A p \in 1 .. RowCount : new[p] = ids[e[p]]
    BY <1>2, <1>7, <2>3, <2>4, ZenonT(30)
  <2> QED
    BY <2>3, <2>5
<1>9. /\ parts \in Seq(Seq(1 .. RowCount)) /\ Len(parts) = k
      /\ \A j \in 1 .. k : parts[j] \in Seq(1 .. RowCount) /\ Len(parts[j]) \in Nat
  <2> DEFINE T == Seq(1 .. RowCount)
  <2>1. parts \in Seq(T) /\ Len(parts) = k
    BY <1>6 DEF Covers, Shares
  <2>2. \A w \in T : Len(w) \in Nat
    OBVIOUS
  <2> HIDE DEF T
  <2>3. ASSUME NEW j \in 1 .. k PROVE parts[j] \in T
    BY <2>1, ElementOfSeq, Zenon
  <2> QED
    BY <2>1, <2>2, <2>3, Zenon DEF T
<1>10. \A j \in 1 .. k : Len(parts[j]) = q
  <2> DEFINE z == Len(parts[1])
  <2>1. 1 \in 1 .. k
    BY <1>1
  <2>2. z \in Nat
    BY <1>9, <2>1
  <2>3. \A j \in 1 .. k : Len(parts[j]) = z
    BY <1>6, <1>9, <2>1 DEF Level
  <2> HIDE DEF z
  <2>4. Len(e) = Len(parts) * z
    BY <1>9, <2>2, <2>3, FlattenEqual, ZenonT(30)
  <2> HIDE DEF e
  <2>5. k * z = q * k
    BY <1>7, <1>9, <2>4
  <2>6. k * z = k * q
    BY <1>1, <2>5
  <2>7. z = q
    <3>1. z < q => z * k < q * k
      BY <1>1, <2>2, LessTimes
    <3>2. q < z => q * k < z * k
      BY <1>1, <2>2, LessTimes
    <3>3. z * k = k * z /\ k * z \in Nat /\ q * k \in Nat
      BY <1>1, <2>2, Product
    <3> DEFINE x == z * k
               y == q * k
    <3>4. x = y /\ x \in Nat /\ (z < q => x < y) /\ (q < z => y < x)
      BY <2>5, <3>1, <3>2, <3>3
    <3> HIDE DEF x, y
    <3> QED
      BY <2>2, <3>4
  <2> QED
    BY <2>3, <2>7
<1>11. \A j \in 1 .. k, a \in 1 .. q : l[parts[j][a]] = lens[new[(j - 1) * q + a]]
  <2> TAKE j \in 1 .. k, a \in 1 .. q
  <2>1. e[(j - 1) * q + a] = parts[j][a]
    <3>1. EqualParts(parts, k, q, 1 .. RowCount)
      BY <1>9, <1>10 DEF EqualParts
    <3>2. Joined(parts, k, q, 1 .. RowCount, e)
      BY <3>1, FlattenParts, Zenon
    <3> QED
      BY <3>2 DEF Joined
  <2> DEFINE c == j - 1
  <2>2. c \in Nat /\ c + 1 <= k
    BY <1>1
  <2>3. c * q + a \in 1 .. q * k
    <3>1. PICK r \in Nat : k = (c + 1) + r
      <4>1. k = (c + 1) + (k - (c + 1)) /\ k - (c + 1) \in Nat
        BY <1>1, <2>2
      <4> QED
        BY <4>1
    <3>2. k * q = c * q + q + r * q /\ c * q \in Nat /\ r * q \in Nat /\ q * k = k * q
      BY <1>1, <2>2, <3>1
    <3> DEFINE x == c * q
               y == r * q
               w == k * q
    <3>3. w = x + q + y /\ x \in Nat /\ y \in Nat /\ q * k = w
      BY <3>2
    <3> HIDE DEF c, x, y, w
    <3>4. x + a \in 1 .. w
      BY <3>3
    <3> QED
      BY <3>3, <3>4 DEF x
  <2> DEFINE p == c * q + a
  <2>4. p \in 1 .. RowCount /\ e[p] = parts[j][a]
    BY <2>1, <2>3
  <2> HIDE DEF p, e, new
  <2>5. new[p] = ids[parts[j][a]] /\ parts[j][a] \in 1 .. RowCount
    BY <1>7, <1>8, <2>4
  <2>6. l[parts[j][a]] = lens[new[p]]
    BY <1>3, <2>5
  <2> QED
    BY <2>6 DEF p
<1> HIDE DEF new
<1>12. Len(new) = k * q
  BY <1>1, <1>8
<1>13. parts \in Seq(Seq(1 .. Len(l)))
  BY <1>3, <1>9
<1>14. InParts(lens, new, l, parts, k, q)
  BY <1>9, <1>10, <1>11, <1>12, <1>13 DEF InParts
<1> QED
  BY <1>1, <1>3, <1>6, <1>8, <1>14 DEF new

(* What DispatchNd makes of a batch in such an order.                      *)
LEMMA BalancedLoads ==
  ASSUME cfg \in Configs, lens \in LenProfiles, BatchOK(batch), cfg.balance,
         NEW new, new = IdsOf(BalancedOrder(batch)), NEW r \in Ranks, NEW s \in Ranks
  PROVE  Total(lens, DispatchNd(new, TrainMesh)[r]) - Total(lens, DispatchNd(new, TrainMesh)[s])
           <= (cfg.sp * cfg.pp) * LengthRange
<1> DEFINE l == LensOf(IdsOf(batch))
           parts == BalancedPartitions(l, cfg.world, TRUE)
           k == cfg.world
           q == RowCount \div k
           m == cfg.sp * cfg.pp
           dp == DpSize
           rank == TrainMesh.dpRank
           D == LengthRange
<1>1. lens \in Lengths /\ RowCount \in Nat \ {0} /\ k \in Nat \ {0} /\ RowCount = Len(lens)
  BY LensType, ConfigNumbers DEF RowCount
<1>2. q \in Nat \ {0} /\ RowCount = q * k
  <2>1. RowCount % k = 0
    BY RowsAssumption DEF RowCount
  <2> QED
    BY <1>1, <2>1, Share
<1>3. m \in Nat \ {0} /\ dp \in Nat \ {0} /\ k = dp * m
  <2>1. cfg.sp \in Nat \ {0} /\ cfg.pp \in Nat \ {0} /\ k % m = 0
    BY ConfigNumbers
  <2>2. m \in Nat \ {0}
    BY <2>1
  <2>3. dp = k \div m
    BY DEF DpSize
  <2> HIDE DEF m, k, dp
  <2> QED
    BY <1>1, <2>1, <2>2, <2>3, Share
<1>4. D \in Nat
  <2>1. lens # <<>>
    BY RowsAssumption
  <2> DEFINE a == Min(Range(lens))
             b == Max(Range(lens))
  <2>2. a \in Nat /\ b \in Nat /\ a <= b
    BY <1>1, <2>1, LongestAndShortest
  <2>3. D = b - a
    BY DEF LengthRange
  <2> HIDE DEF a, b, D
  <2> QED
    BY <2>2, <2>3
<1>5. l \in Lengths /\ Near(l, parts, D) /\ new \in Seq(1 .. Len(lens)) /\ InParts(lens, new, l, parts, k, q)
  BY <1>2, BalancedInParts
<1>6. WellMeshed(TrainMesh, dp) /\ DOMAIN rank = Ranks
  BY TrainMeshed
<1> HIDE DEF l, parts, k, q, m, dp, D
<1>7. Len(new) = q * k
  BY <1>1, <1>2, <1>5 DEF InParts
<1>8. Len(new) \div dp = m * q
  <2>1. q * k = dp * (m * q) /\ m * q \in Nat
    BY <1>1, <1>2, <1>3
  <2> DEFINE x == m * q
  <2>2. Len(new) = dp * x /\ x \in Nat
    BY <1>7, <2>1
  <2> HIDE DEF x
  <2>3. dp * x = x * dp + 0 /\ 0 \in 0 .. dp - 1
    BY <1>3, <2>2
  <2>4. (x * dp + 0) \div dp = x
    BY <1>3, <2>2, <2>3, PlaceOf
  <2> QED
    BY <2>2, <2>3, <2>4 DEF x
<1>10. ASSUME NEW t \in Ranks
       PROVE  \E a \in Nat : a + m <= k /\ PartsAfter(lens, DispatchNd(new, TrainMesh)[t], new, a, m, q)
  <2> DEFINE c == rank[t]
             chunk == DispatchNd(new, TrainMesh)[t]
             size == Len(new) \div dp
             T == 1 .. Len(lens)
             mesh == TrainMesh
  <2>6. new \in Seq(T) /\ WellMeshed(mesh, dp) /\ t \in DOMAIN mesh.dpRank /\ c = mesh.dpRank[t]
    BY <1>5, <1>6
  <2> HIDE DEF c, size, T, mesh
  <2>1. c \in 0 .. dp - 1 /\ PartOf(DispatchNd(new, mesh)[t], new, c, Len(new) \div dp, T)
    BY <2>6, DispatchedPart
  <2> HIDE DEF chunk
  <2>2. PartOf(chunk, new, c, size, 1 .. Len(lens))
    BY <2>1 DEF chunk, size, T, mesh
  <2>3. /\ chunk \in Seq(1 .. Len(lens)) /\ Len(chunk) = m * q
        /\ \A j \in 1 .. m * q : chunk[j] = new[c * (m * q) + j]
    BY <1>8, <2>1, <2>2 DEF PartOf, size
  <2>4. c * (m * q) = (c * m) * q /\ c * m \in Nat /\ c * m + m <= k
    <3>1. c \in Nat /\ c + 1 <= dp
      BY <1>3, <2>1
    <3>2. c * (m * q) = (c * m) * q /\ c * m \in Nat
      BY <1>2, <1>3, <3>1
    <3>3. PICK z \in Nat : dp = (c + 1) + z
      <4>1. dp = (c + 1) + (dp - (c + 1)) /\ dp - (c + 1) \in Nat
        BY <1>3, <3>1
      <4> QED
        BY <4>1
    <3>4. dp * m = c * m + m + z * m /\ z * m \in Nat
      BY <1>3, <3>1, <3>3
    <3> QED
      BY <1>1, <1>3, <3>2, <3>4
  <2> DEFINE a == c * m
  <2>5. a \in Nat /\ a + m <= k /\ \A j \in 1 .. m * q : chunk[j] = new[a * q + j]
    BY <2>3, <2>4
  <2> HIDE DEF a
  <2> QED
    BY <2>3, <2>5 DEF chunk, PartsAfter
<1> DEFINE u == DispatchNd(new, TrainMesh)[r]
           v == DispatchNd(new, TrainMesh)[s]
<1>11. PICK a \in Nat : a + m <= k /\ PartsAfter(lens, u, new, a, m, q)
  BY <1>10
<1>12. PICK b \in Nat : b + m <= k /\ PartsAfter(lens, v, new, b, m, q)
  BY <1>10
<1> HIDE DEF u, v
<1>14. a + m <= k /\ b + m <= k /\ k \in Nat /\ q \in Nat /\ m \in Nat
  BY <1>1, <1>2, <1>3, <1>11, <1>12
<1>15. Total(lens, u) - Total(lens, v) <= m * D
  BY <1>1, <1>4, <1>5, <1>11, <1>12, <1>14, StretchesNear
<1> QED
  BY <1>15 DEF u, v, m, D

(* The union of a call's results keeps the order of the rows.              *)
LEMMA CallKeepsIds ==
  ASSUME cfg \in Configs, DataInv, job.call \in Calls, FinishCall
  PROVE  IdsOf(batch') = IdsOf(batch)
<1>1. lens \in LenProfiles /\ BatchOK(batch) /\ ComputeInv
  BY DEF DataInv
<1>2. RowCount \in Nat
  BY <1>1, LensType
<1> DEFINE by == ComputedBy
           col == job.call
<1>3. PICK cells : /\ batch' = Union(batch, col, cells)
                   /\ \A i \in 1 .. RowCount : cells[i] = [of |-> batch[i].id, by |-> by]
  BY <1>1, CallJoined
<1> DEFINE new == Union(batch, col, cells)
<1>4. col \in Columns
  BY DEF Calls, Columns
<1> HIDE DEF by, col
<1>5. BatchOK(new) /\ KeepsOthers(new, batch, col)
  BY <1>1, <1>2, <1>3, <1>4, UnionOK
<1>6. batch' = new
  BY <1>3
<1> HIDE DEF new
<1> DEFINE ids == IdsOf(batch)
           ids1 == IdsOf(new)
<1>7. ids \in Seq(1 .. RowCount) /\ Len(ids) = RowCount /\ \A i \in 1 .. RowCount : ids[i] = batch[i].id
  BY <1>1, <1>2, IdsType
<1>8. /\ ids1 \in Seq(1 .. RowCount) /\ Len(ids1) = RowCount
      /\ \A i \in 1 .. RowCount : ids1[i] = new[i].id
  BY <1>2, <1>5, IdsType
<1> HIDE DEF ids, ids1
<1>9. \A i \in 1 .. RowCount : ids1[i] = ids[i]
  BY <1>5, <1>7, <1>8 DEF KeepsOthers
<1>10. ids1 = ids
  BY <1>2, <1>7, <1>8, <1>9
<1> QED
  BY <1>6, <1>10 DEF ids, ids1

LEMMA BalancedStep ==
  FlowInv /\ RaisedInv /\ DataInv /\ BalancedInv /\ [Next]_vars => BalancedInv'
<1> SUFFICES ASSUME FlowInv, RaisedInv, DataInv, BalancedInv, [Next]_vars,
                    pc' \in {"rm_scores", "rewards"}, cfg'.balance
             PROVE  EvenLoads'
  BY DEF BalancedInv
<1> USE DEF workerVars
<1>1. ASSUME UNCHANGED <<cfg, lens>>, IdsOf(batch') = IdsOf(batch), pc \in {"rm_scores", "rewards"}
      PROVE  EvenLoads'
  <2>1. RankRows' = RankRows /\ Ranks' = Ranks /\ LengthRange' = LengthRange
    <3>1. IdsOf(batch)' = IdsOf(batch')
      BY DEF IdsOf
    <3> QED
      BY <1>1, <3>1 DEF RankRows, TrainMesh, Ranks, LengthRange
  <2>2. EvenLoads
    BY <1>1 DEF BalancedInv
  <2> QED
    BY <1>1, <2>1, <2>2 DEF EvenLoads
<1>2. CASE UNCHANGED <<cfg, lens, batch, pc>>
  BY <1>1, <1>2
<1>3. CASE BalanceBatch
  <2>1. /\ UNCHANGED <<cfg, lens>> /\ cfg.balance /\ batch' = BalancedOrder(batch)
        /\ cfg \in Configs /\ lens \in LenProfiles /\ BatchOK(batch)
    BY <1>3 DEF BalanceBatch, FlowInv, DataInv
  <2> DEFINE new == IdsOf(BalancedOrder(batch))
             bound == (cfg.sp * cfg.pp) * LengthRange
  <2>2. \A r, s \in Ranks :
          Total(lens, DispatchNd(new, TrainMesh)[r]) - Total(lens, DispatchNd(new, TrainMesh)[s]) <= bound
    BY <2>1, BalancedLoads
  <2>3. /\ Ranks' = Ranks /\ ((cfg.sp * cfg.pp) * LengthRange)' = bound
        /\ RankRows' = DispatchNd(new, TrainMesh)
    <3>1. IdsOf(batch)' = IdsOf(batch')
      BY DEF IdsOf
    <3> QED
      BY <2>1, <3>1 DEF RankRows, TrainMesh, Ranks, LengthRange
  <2> HIDE DEF new, bound
  <2> QED
    BY <2>1, <2>2, <2>3 DEF EvenLoads
<1>4. CASE FinishCall
  <2>1. /\ UNCHANGED <<cfg, lens>> /\ cfg \in Configs /\ job.call \in Calls /\ pc' = NextCall[pc]
    BY <1>4 DEF FinishCall, FlowInv
  <2>2. pc = job.call
    BY <2>1, OneAtATime DEF FlowInv, RaisedInv, Calls, Updates
  <2>3. pc = "rm_scores"
    BY <2>1, <2>2 DEF Calls, NextCall
  <2> QED
    BY <1>1, <1>4, <2>1, <2>3, CallKeepsIds
<1>5. CASE ReceiveResponses
  <2>1. request.purpose = pc /\ pc \in GenerateCalls /\ pc' = NextCall[pc]
    BY <1>5 DEF ReceiveResponses, FlowInv
  <2> QED
    BY <2>1 DEF GenerateCalls, NextCall
<1>6. CASE ComputeReward \/ ComputeAdvantage \/ SkipActorUpdate \/ EndStep
  <2>1. \/ pc \in {"rewards", "adv", "update_actor"} /\ pc' = NextCall[pc]
        \/ pc' \in {"done", "generate"}
    BY <1>6 DEF ComputeReward, ComputeAdvantage, SkipActorUpdate, EndStep
  <2> QED
    BY <2>1 DEF NextCall
<1>7. CASE FinishUpdate
  <2>1. job.call \in Updates /\ pc' = NextCall[pc] /\ job.rows[0] = <<>>
    BY <1>7 DEF FinishUpdate
  <2>2. pc = job.call
    BY <2>1, OneAtATime DEF FlowInv, RaisedInv
  <2> QED
    BY <2>1, <2>2 DEF Updates, NextCall
<1>8. CASE MegatronStepFails \/ EndSave
  BY <1>8 DEF MegatronStepFails, EndSave
<1>9. CASE UNCHANGED vars \/ SendPrompts \/ SwitchMode \/ Generate \/ LeaveRollout
  <2>1. UNCHANGED <<cfg, lens, batch, pc>>
    BY <1>9 DEF vars, SendPrompts, SwitchMode, Generate, LeaveRollout, TrainerMode, Summon,
                OffloadSummoned, ResumeWeights, UpdateWeights, ResumeCache, MegatronSummon,
                MegatronUpdateWeights
  <2> QED
    BY <1>2, <2>1
<1>10. CASE StartCall \/ Forward \/ StartUpdate \/ BeginMiniBatch \/ ForwardBackward
            \/ OptimizerStep \/ BeginSave
  <2>1. UNCHANGED <<cfg, lens, batch, pc>>
    BY <1>10 DEF StartCall, Forward, StartUpdate, BeginMiniBatch, ForwardBackward,
                 OptimizerStep, BeginSave
  <2> QED
    BY <1>2, <2>1
<1> QED
  BY <1>3, <1>4, <1>5, <1>6, <1>7, <1>8, <1>9, <1>10
     DEF Next, Rollout, Driver, Compute, Train, Save, Finished

(* A balanced batch gives no data parallel rank more tokens than another,  *)
(* except for what the longest and the shortest response of each of its    *)
(* parts can make: for every mesh, batch and length (_balance_batch and    *)
(* the dispatch by consecutive chunks).                                    *)
THEOREM LoadIsBalanced == Spec => []BalancedLoad
<1>1. Init => FlowInv /\ RaisedInv /\ DataInv /\ BalancedInv
  BY FlowInit, DataInit DEF Init, RaisedInv, BalancedInv
<1>2. FlowInv /\ RaisedInv /\ DataInv /\ BalancedInv /\ [Next]_vars
        => FlowInv' /\ RaisedInv' /\ DataInv' /\ BalancedInv'
  BY FlowStep, RaisedStep, DataStep, BalancedStep
<1>3. BalancedInv => BalancedLoad
  <2> SUFFICES ASSUME BalancedInv, pc = NextCall["balance"], cfg.balance
               PROVE  \A r, s \in Ranks :
                        Total(lens, RankRows[r]) - Total(lens, RankRows[s])
                          <= cfg.sp * cfg.pp * (Max(Range(lens)) - Min(Range(lens)))
    BY DEF BalancedLoad
  <2>1. pc \in {"rm_scores", "rewards"}
    BY DEF NextCall
  <2> QED
    BY <2>1 DEF BalancedInv, EvenLoads, LengthRange
<1> QED
  BY <1>1, <1>2, <1>3, PTL DEF Spec

-----------------------------------------------------------------------------
(* Every row is in one part of a split. *)

\* The place of a row: the part and the place in it.
LEMMA PartPlace ==
  ASSUME NEW n \in Nat, NEW size \in Nat \ {0}, NEW x \in 1 .. n
  PROVE  \E p \in 1 .. PartCount(n, size) :
           \E a \in 1 .. PartEnd(p, size, n) - (p - 1) * size : (p - 1) * size + a = x
<1> DEFINE q == (x - 1) \div size
           r == (x - 1) % size
           k == PartCount(n, size)
<1>1. x - 1 = q * size + r /\ q \in Nat /\ r \in 0 .. size - 1
  <2>1. x - 1 \in Nat
    OBVIOUS
  <2> QED
    BY <2>1, DivMod
<1> HIDE DEF q, r
<1>2. q + 1 \in 1 .. k
  <2> DEFINE y == n + size - 1
             c == y \div size
             d == y % size
  <2>1. y = c * size + d /\ c \in Nat /\ d \in 0 .. size - 1 /\ k = c
    <3>1. y \in Nat
      OBVIOUS
    <3>2. k = y \div size
      BY DEF PartCount
    <3> HIDE DEF y, k
    <3> QED
      BY <3>1, <3>2, DivMod
  <2> HIDE DEF c, d, k
  <2> DEFINE u == q * size
             v == c * size
  <2>2. u \in Nat /\ v \in Nat
    BY <1>1, <2>1
  <2>3. u + size <= v + d
    BY <1>1, <2>1
  <2> HIDE DEF u, v
  <2>4. u < v
    BY <2>1, <2>2, <2>3
  <2>5. q < c
    BY <1>1, <2>1, <2>4, LessTimes DEF u, v
  <2> QED
    BY <1>1, <2>1, <2>5
<1> DEFINE p == q + 1
           a == r + 1
<1>3. p - 1 = q /\ p * size = q * size + size /\ q * size \in Nat /\ a \in 1 .. size
  BY <1>1
<1>4. x = q * size + a
  BY <1>1
<1>5. p \in 1 .. k
  BY <1>2
<1> HIDE DEF p, a, k
<1> DEFINE u == q * size
<1>6. (p - 1) * size + a = x
  BY <1>3, <1>4
<1>7. PartEnd(p, size, n) = IF u + size <= n THEN u + size ELSE n
  BY <1>3 DEF PartEnd
<1>8. (p - 1) * size = u /\ u \in Nat /\ x = u + a
  BY <1>3, <1>4
<1> HIDE DEF u
<1>9. a \in 1 .. PartEnd(p, size, n) - u
  BY <1>3, <1>7, <1>8
<1>10. a \in 1 .. PartEnd(p, size, n) - (p - 1) * size
  BY <1>8, <1>9
<1> QED
  BY <1>5, <1>6, <1>10 DEF k

LEMMA OnePlace ==
  ASSUME NEW size \in Nat \ {0}, NEW p \in Nat \ {0}, NEW q \in Nat \ {0},
         NEW a \in 1 .. size, NEW b \in 1 .. size, (p - 1) * size + a = (q - 1) * size + b
  PROVE  p = q /\ a = b
<1> DEFINE u == p - 1
           v == q - 1
           c == a - 1
           d == b - 1
<1>1. u \in Nat /\ v \in Nat /\ c \in 0 .. size - 1 /\ d \in 0 .. size - 1
  OBVIOUS
<1>2. u * size + c = v * size + d
  <2>1. u * size \in Nat /\ v * size \in Nat
    OBVIOUS
  <2>2. u * size + a = v * size + b
    OBVIOUS
  <2> HIDE DEF u, v
  <2> QED
    BY <1>1, <2>1, <2>2
<1> HIDE DEF u, v, c, d
<1>3. (u * size + c) \div size = u /\ (u * size + c) % size = c
  BY <1>1, PlaceOf
<1>4. (v * size + d) \div size = v /\ (v * size + d) % size = d
  BY <1>1, PlaceOf
<1>5. u = v /\ c = d
  BY <1>2, <1>3, <1>4
<1> QED
  BY <1>5 DEF u, v, c, d

LEMMA SplitCovers ==
  ASSUME NEW n \in Nat, NEW size \in Nat \ {0}
  PROVE  Covers(Split(Positions(n), size), n, PartCount(n, size))
<1> DEFINE S == 1 .. n
           w == Positions(n)
           k == PartCount(n, size)
           parts == Split(w, size)
           end(p) == PartEnd(p, size, n)
<1>1. w \in Seq(S) /\ Len(w) = n /\ \A x \in 1 .. n : w[x] = x
  BY PositionsType DEF Positions
<1> HIDE DEF w, S
<1>2. IsSplit(parts, w, size, S) /\ parts \in Seq(Seq(S))
  BY <1>1, SplitType
<1>3. /\ k \in Nat
      /\ \A p \in 1 .. k : /\ (p - 1) * size \in Nat /\ end(p) \in (p - 1) * size + 1 .. n
                           /\ end(p) - (p - 1) * size \in 1 .. size
  BY PartEnds
<1> HIDE DEF parts, end
<1>4. Len(parts) = k
  BY <1>1, <1>2 DEF IsSplit
<1> HIDE DEF k
<1>5. ASSUME NEW p \in 1 .. k
      PROVE  /\ Len(parts[p]) = end(p) - (p - 1) * size /\ Len(parts[p]) \in 1 .. size
             /\ \A a \in 1 .. Len(parts[p]) : parts[p][a] = (p - 1) * size + a
  <2>1. /\ Len(parts[p]) = end(p) - (p - 1) * size
        /\ \A a \in 1 .. Len(parts[p]) : parts[p][a] = w[(p - 1) * size + a]
    BY <1>1, <1>2, <1>4 DEF IsSplit, end
  <2> DEFINE u == (p - 1) * size
  <2>2. u \in Nat /\ end(p) \in u + 1 .. n /\ end(p) - u \in 1 .. size
    BY <1>3
  <2> HIDE DEF u
  <2>3. \A a \in 1 .. end(p) - u : u + a \in 1 .. n
    BY <2>2
  <2>4. \A a \in 1 .. Len(parts[p]) : parts[p][a] = u + a
    BY <1>1, <2>1, <2>3 DEF u
  <2> QED
    BY <2>1, <2>2, <2>4 DEF u
<1>6. ASSUME NEW p \in 1 .. k, NEW q \in 1 .. k, NEW a \in 1 .. Len(parts[p]), NEW b \in 1 .. Len(parts[q]),
             parts[p][a] = parts[q][b]
      PROVE  p = q /\ a = b
  <2>1. (p - 1) * size + a = (q - 1) * size + b
    BY <1>5, <1>6
  <2>2. p \in Nat \ {0} /\ q \in Nat \ {0} /\ a \in 1 .. size /\ b \in 1 .. size
    <3>1. Len(parts[p]) \in 1 .. size /\ Len(parts[q]) \in 1 .. size
      BY <1>5
    <3> QED
      BY <3>1
  <2> QED
    BY <2>1, <2>2, OnePlace
<1>7. Separate(parts)
  BY <1>4, <1>6, SMTT(30) DEF Separate, Distinct
<1>8. ASSUME NEW x \in 1 .. n PROVE Occurs(parts, x)
  <2>1. PICK p \in 1 .. k : \E a \in 1 .. end(p) - (p - 1) * size : (p - 1) * size + a = x
    BY PartPlace DEF k, end
  <2>2. PICK a \in 1 .. end(p) - (p - 1) * size : (p - 1) * size + a = x
    BY <2>1
  <2>3. a \in 1 .. Len(parts[p]) /\ parts[p][a] = x
    BY <1>5, <2>2
  <2> QED
    BY <1>4, <2>3 DEF Occurs
<1>9. \A p \in 1 .. k : parts[p] # <<>>
  BY <1>5
<1>10. Shares(parts, n, k)
  BY <1>2, <1>4, <1>7 DEF Shares, S
<1> QED
  BY <1>8, <1>9, <1>10 DEF Covers, parts, k, w

-----------------------------------------------------------------------------
(* What a sequence holds, and how many parts hold it. *)

In(w, x) == \E a \in 1 .. Len(w) : w[a] = x
Holding(parts, x) == {p \in 1 .. Len(parts) : In(parts[p], x)}
Left(parts, x) == Cardinality(Holding(parts, x))

LEMMA LeftType ==
  ASSUME NEW S, NEW parts \in Seq(S), NEW x
  PROVE  IsFiniteSet(Holding(parts, x)) /\ Left(parts, x) \in Nat
<1>1. IsFiniteSet(1 .. Len(parts))
  BY FS_Interval
<1>2. Holding(parts, x) \in SUBSET (1 .. Len(parts))
  BY DEF Holding
<1>3. IsFiniteSet(Holding(parts, x))
  BY <1>1, <1>2, FS_Subset
<1> QED
  BY <1>3, FS_CardinalityType DEF Left

\* The first part is taken away.
LEMMA LeftTail ==
  ASSUME NEW S, NEW parts \in Seq(S), parts # <<>>, NEW x
  PROVE  Left(parts, x) = Left(Tail(parts), x) + (IF In(Head(parts), x) THEN 1 ELSE 0)
<1> DEFINE n == Len(parts)
           rest == Tail(parts)
           T == Holding(rest, x)
           U == {p + 1 : p \in T}
           f == [p \in T |-> p + 1]
<1>1. n \in Nat \ {0} /\ rest \in Seq(S) /\ Len(rest) = n - 1 /\ Head(parts) = parts[1]
      /\ \A p \in 1 .. n - 1 : rest[p] = parts[p + 1]
  OBVIOUS
<1>2. IsFiniteSet(T)
  BY <1>1, LeftType
<1>3. T = {p \in 1 .. n - 1 : In(rest[p], x)}
  BY <1>1 DEF Holding
<1> HIDE DEF n, rest, T
<1>4. T \subseteq Int
  BY <1>1, <1>3
<1>5. f \in Bijection(T, U)
  <2>1. f \in [T -> U]
    OBVIOUS
  <2>2. \A p, q \in T : f[p] = f[q] => p = q
    BY <1>4
  <2>3. \A u \in U : \E p \in T : f[p] = u
    OBVIOUS
  <2> HIDE DEF f, U
  <2> QED
    BY <2>1, <2>2, <2>3 DEF Bijection, Injection, Surjection, IsInjective
<1> HIDE DEF f
<1>6. IsFiniteSet(U) /\ Cardinality(U) = Cardinality(T)
  <2>1. ExistsBijection(T, U)
    BY <1>5 DEF ExistsBijection
  <2> QED
    BY <1>2, <2>1, FS_Bijection
<1>7. 1 \notin U
  BY <1>1, <1>3
<1>8. Holding(parts, x) = IF In(parts[1], x) THEN U \cup {1} ELSE U
  <2>1. \A p \in Holding(parts, x) : p \in U \/ (p = 1 /\ In(parts[1], x))
    <3> TAKE p \in Holding(parts, x)
    <3>1. p \in 1 .. n /\ In(parts[p], x)
      BY DEF Holding, n
    <3>2. CASE p = 1
      BY <3>1, <3>2
    <3>3. CASE p # 1
      <4> DEFINE q == p - 1
      <4>1. q \in 1 .. n - 1 /\ p = q + 1
        BY <1>1, <3>1, <3>3
      <4> HIDE DEF q
      <4>2. q \in T
        BY <1>1, <1>3, <3>1, <4>1
      <4> QED
        BY <4>1, <4>2
    <3> QED
      BY <3>2, <3>3
  <2>2. \A p \in U : p \in Holding(parts, x)
    <3> TAKE p \in U
    <3>1. PICK q \in T : p = q + 1
      OBVIOUS
    <3>2. q \in 1 .. n - 1 /\ In(rest[q], x)
      BY <1>3
    <3>3. In(parts[p], x) /\ p \in 1 .. n
      BY <1>1, <3>1, <3>2
    <3> QED
      BY <3>3 DEF Holding, n
  <2>3. In(parts[1], x) => 1 \in Holding(parts, x)
    BY <1>1 DEF Holding, n
  <2> QED
    BY <2>1, <2>2, <2>3
<1> HIDE DEF U
<1>9. Cardinality(T) \in Nat
  BY <1>2, FS_CardinalityType
<1>10. CASE In(parts[1], x)
  <2>1. Cardinality(Holding(parts, x)) = Cardinality(U) + 1
    BY <1>6, <1>7, <1>8, <1>10, FS_AddElement
  <2> QED
    BY <1>1, <1>6, <1>10, <2>1 DEF Left, T, rest
<1>11. CASE ~ In(parts[1], x)
  BY <1>1, <1>6, <1>8, <1>9, <1>11 DEF Left, T, rest
<1> QED
  BY <1>10, <1>11

-----------------------------------------------------------------------------
(* The rows of micro-batches that are still ahead. *)

At(rows, part, x) == \E a \in 1 .. Len(part) : rows[part[a]] = x
Ahead(rows, micro, done, x) == \E q \in done + 1 .. Len(micro) : At(rows, micro[q], x)

LEMMA AheadAll ==
  ASSUME NEW m \in Nat, NEW k, NEW micro, Covers(micro, m, k), NEW rows, Len(rows) = m, NEW x
  PROVE  Ahead(rows, micro, 0, x) <=> In(rows, x)
<1>1. micro \in Seq(Seq(1 .. m)) /\ \A p \in 1 .. m : Occurs(micro, p)
  BY DEF Covers, Shares
<1>2. ASSUME Ahead(rows, micro, 0, x) PROVE In(rows, x)
  <2>1. PICK q \in 1 .. Len(micro) : At(rows, micro[q], x)
    BY <1>2 DEF Ahead
  <2>2. PICK a \in 1 .. Len(micro[q]) : rows[micro[q][a]] = x
    BY <2>1 DEF At
  <2>3. micro[q] \in Seq(1 .. m)
    BY <1>1
  <2>4. micro[q][a] \in 1 .. m
    BY <2>3
  <2> QED
    BY <2>2, <2>4 DEF In
<1>3. ASSUME In(rows, x) PROVE Ahead(rows, micro, 0, x)
  <2>1. PICK p \in 1 .. m : rows[p] = x
    BY <1>3 DEF In
  <2>2. PICK q \in 1 .. Len(micro) : \E a \in 1 .. Len(micro[q]) : micro[q][a] = p
    BY <1>1 DEF Occurs
  <2> QED
    BY <2>1, <2>2 DEF Ahead, At
<1> QED
  BY <1>2, <1>3

LEMMA AheadStep ==
  ASSUME NEW m \in Nat, NEW k, NEW micro, Covers(micro, m, k), NEW rows, Len(rows) = m,
         Distinct(rows), NEW x, NEW done \in Nat, done < Len(micro)
  PROVE  /\ Ahead(rows, micro, done, x)
              <=> At(rows, micro[done + 1], x) \/ Ahead(rows, micro, done + 1, x)
         /\ ~ (At(rows, micro[done + 1], x) /\ Ahead(rows, micro, done + 1, x))
<1>1. micro \in Seq(Seq(1 .. m)) /\ Separate(micro)
  BY DEF Covers, Shares
<1> DEFINE n == Len(micro)
<1>2. n \in Nat /\ done + 1 \in 1 .. n
  BY <1>1
<1>3. \A q : q \in done + 1 .. n <=> q = done + 1 \/ q \in (done + 1) + 1 .. n
  BY <1>2
<1>4. ASSUME At(rows, micro[done + 1], x), Ahead(rows, micro, done + 1, x) PROVE FALSE
  <2> DEFINE p == done + 1
  <2>1. PICK a \in 1 .. Len(micro[p]) : rows[micro[p][a]] = x
    BY <1>4 DEF At
  <2>2. PICK q \in p + 1 .. n : \E b \in 1 .. Len(micro[q]) : rows[micro[q][b]] = x
    BY <1>4 DEF Ahead, At
  <2>3. PICK b \in 1 .. Len(micro[q]) : rows[micro[q][b]] = x
    BY <2>2
  <2>4. p \in 1 .. n /\ q \in 1 .. n /\ p # q
    BY <1>2, <2>2
  <2> HIDE DEF p, n
  <2>5. micro[p][a] \in 1 .. m /\ micro[q][b] \in 1 .. m
    <3>1. micro[p] \in Seq(1 .. m) /\ micro[q] \in Seq(1 .. m)
      BY <1>1, <2>4, SMTT(30) DEF n
    <3> QED
      BY <3>1, ElementOfSeq
  <2>6. micro[p][a] = micro[q][b]
    BY <2>1, <2>3, <2>5 DEF Distinct
  <2> QED
    BY <1>1, <2>4, <2>6 DEF Separate, n
<1>5. Ahead(rows, micro, done, x)
        <=> At(rows, micro[done + 1], x) \/ Ahead(rows, micro, done + 1, x)
  BY <1>3 DEF Ahead
<1> QED
  BY <1>4, <1>5

\* The micro-batches of an update or another call cover the rows.
LEMMA MicroCovers ==
  ASSUME cfg \in Configs, NEW call \in Calls \cup Updates, NEW m \in Nat \ {0},
         NEW micro, MicroOK(micro, m, call)
  PROVE  \E k : Covers(micro, m, k)
<1>1. CASE Dynamic(call)
  BY <1>1 DEF MicroOK
<1>2. CASE ~ Dynamic(call)
  <2> DEFINE size == MicroSize(call)
  <2>1. micro = Split(Positions(m), size) /\ size \in Nat \ {0}
    BY <1>2, ConfigNumbers DEF MicroOK, MicroSize, Dynamic
  <2> HIDE DEF size
  <2> QED
    BY <2>1, SplitCovers
<1> QED
  BY <1>1, <1>2

-----------------------------------------------------------------------------
(* Parts of a sequence without repetition. *)

(* w holds no element twice, and only elements of rows.                    *)
Within(w, rows) == Distinct(w) /\ \A x : In(w, x) => In(rows, x)

\* The first k parts hold each element of w, in exactly one of them.
OneEach(parts, w, k) ==
  /\ \A j \in 1 .. k : Within(parts[j], w)
  /\ \A x : In(w, x) => \E j \in 1 .. k : \A i \in 1 .. k : In(parts[i], x) <=> i = j

LEMMA SplitHolds ==
  ASSUME NEW S, NEW w \in Seq(S), Distinct(w), NEW size \in Nat \ {0},
         NEW parts, parts = Split(w, size)
  PROVE  OneEach(parts, w, PartCount(Len(w), size))
<1> DEFINE n == Len(w)
           k == PartCount(n, size)
           first(p) == (p - 1) * size
<1>1. n \in Nat /\ IsSplit(parts, w, size, S)
  BY SplitType
<1>2. /\ k \in Nat
      /\ \A p \in 1 .. k : /\ first(p) \in Nat /\ PartEnd(p, size, n) \in first(p) + 1 .. n
                           /\ PartEnd(p, size, n) - first(p) \in 1 .. size
  BY <1>1, PartEnds
<1> HIDE DEF k, first
<1>3. ASSUME NEW p \in 1 .. k
      PROVE  /\ Len(parts[p]) = PartEnd(p, size, n) - first(p) /\ Len(parts[p]) \in 1 .. size
             /\ \A a \in 1 .. Len(parts[p]) : parts[p][a] = w[first(p) + a] /\ first(p) + a \in 1 .. n
  <2>1. /\ Len(parts[p]) = PartEnd(p, size, n) - first(p)
        /\ \A a \in 1 .. Len(parts[p]) : parts[p][a] = w[first(p) + a]
    BY <1>1 DEF IsSplit, first, k, n
  <2>2. /\ first(p) \in Nat /\ PartEnd(p, size, n) \in first(p) + 1 .. n
        /\ PartEnd(p, size, n) - first(p) \in 1 .. size
    BY <1>2
  <2>3. \A a \in 1 .. PartEnd(p, size, n) - first(p) : first(p) + a \in 1 .. n
    BY <1>1, <2>2
  <2> QED
    BY <2>1, <2>2, <2>3
<1>4. ASSUME NEW p \in 1 .. k PROVE Within(parts[p], w)
  <2> DEFINE u == parts[p]
             f == first(p)
  <2>1. f \in Nat /\ Len(u) \in Nat /\ \A a \in 1 .. Len(u) : u[a] = w[f + a] /\ f + a \in 1 .. n
    BY <1>2, <1>3
  <2> HIDE DEF u, f, n
  <2>2. Distinct(u)
    <3> SUFFICES ASSUME NEW a \in 1 .. Len(u), NEW b \in 1 .. Len(u), u[a] = u[b] PROVE a = b
      BY DEF Distinct
    <3>1. w[f + a] = w[f + b] /\ f + a \in 1 .. n /\ f + b \in 1 .. n
      BY <2>1
    <3>2. f + a = f + b
      BY <3>1 DEF Distinct, n
    <3> QED
      BY <2>1, <3>2
  <2>3. \A x : In(u, x) => In(w, x)
    BY <2>1 DEF In, n
  <2> QED
    BY <2>2, <2>3 DEF Within, u
<1>5. ASSUME NEW x, In(w, x)
      PROVE  \E j \in 1 .. k : \A i \in 1 .. k : In(parts[i], x) <=> i = j
  <2>1. PICK y \in 1 .. n : w[y] = x
    BY <1>5 DEF In
  <2>2. PICK j \in 1 .. k : \E a \in 1 .. PartEnd(j, size, n) - first(j) : first(j) + a = y
    BY <1>1, PartPlace, ZenonT(30) DEF k, first
  <2>3. PICK a \in 1 .. PartEnd(j, size, n) - first(j) : first(j) + a = y
    BY <2>2
  <2>4. In(parts[j], x)
    BY <1>3, <2>1, <2>3 DEF In
  <2>5. ASSUME NEW i \in 1 .. k, In(parts[i], x) PROVE i = j
    <3>1. PICK b \in 1 .. Len(parts[i]) : parts[i][b] = x
      BY <2>5 DEF In
    <3>2. w[first(i) + b] = x /\ first(i) + b \in 1 .. n
      BY <1>3, <3>1
    <3>3. first(i) + b = first(j) + a
      BY <2>1, <2>3, <3>2 DEF Distinct, n
    <3>4. a \in 1 .. size /\ b \in 1 .. size
      <4>1. Len(parts[i]) \in 1 .. size /\ PartEnd(j, size, n) - first(j) \in 1 .. size
        BY <1>2, <1>3
      <4> QED
        BY <4>1
    <3>5. i \in Nat \ {0} /\ j \in Nat \ {0}
      BY <1>2, SMTT(30)
    <3>6. (i - 1) * size + b = (j - 1) * size + a
      BY <3>3 DEF first
    <3> QED
      BY <3>4, <3>5, <3>6, OnePlace
  <2> QED
    BY <2>4, <2>5
<1> QED
  BY <1>4, <1>5 DEF OneEach, k

\* The same elements in another order.
LEMMA ReorderHolds ==
  ASSUME NEW S, NEW w \in Seq(S), NEW e, Permutes(e, Len(w)),
         NEW u, u = Reorder(w, e)
  PROVE  /\ u \in Seq(S) /\ Len(u) = Len(w) /\ (Distinct(w) => Distinct(u))
         /\ \A x : In(u, x) <=> In(w, x)
<1> DEFINE n == Len(w)
<1>1. n \in Nat /\ e \in [1 .. n -> 1 .. n]
      /\ (\A a, b \in 1 .. n : e[a] = e[b] => a = b) /\ \A p \in 1 .. n : \E a \in 1 .. n : e[a] = p
  BY DEF Permutes, Bijection, Injection, Surjection, IsInjective
<1>2. Len(e) = n /\ \A p \in 1 .. n : w[p] \in S
  BY <1>1
<1> HIDE DEF n
<1>3. u = [i \in 1 .. n |-> w[e[i]]]
  BY <1>2 DEF Reorder
<1>4. u \in [1 .. n -> S]
  BY <1>1, <1>2, <1>3
<1>5. u \in Seq(S) /\ Len(u) = n /\ \A i \in 1 .. n : u[i] = w[e[i]]
  BY <1>1, <1>3, <1>4
<1>6. Distinct(w) => Distinct(u)
  <2> SUFFICES ASSUME Distinct(w), NEW a \in 1 .. n, NEW b \in 1 .. n, u[a] = u[b] PROVE a = b
    BY <1>5 DEF Distinct
  <2>1. e[a] \in 1 .. n /\ e[b] \in 1 .. n /\ w[e[a]] = w[e[b]]
    BY <1>1, <1>5
  <2>2. e[a] = e[b]
    BY <2>1 DEF Distinct, n
  <2> QED
    BY <1>1, <2>2
<1>7. ASSUME NEW x PROVE In(u, x) <=> In(w, x)
  <2>1. ASSUME NEW a \in 1 .. n, u[a] = x PROVE \E p \in 1 .. n : w[p] = x
    <3>1. e[a] \in 1 .. n /\ w[e[a]] = x
      BY <1>1, <1>5, <2>1
    <3> QED
      BY <3>1
  <2>2. ASSUME NEW p \in 1 .. n, w[p] = x PROVE \E a \in 1 .. n : u[a] = x
    <3>1. PICK a \in 1 .. n : e[a] = p
      BY <1>1
    <3>2. u[a] = w[e[a]]
      BY <1>5
    <3> QED
      BY <2>2, <3>1, <3>2
  <2>3. Len(u) = n /\ Len(w) = n
    BY <1>5 DEF n
  <2> QED
    BY <2>1, <2>2, <2>3 DEF In
<1> QED
  BY <1>5, <1>6, <1>7 DEF n

\* An order of an epoch is a permutation.
LEMMA OrderPermutes ==
  ASSUME NEW m \in Nat, NEW orders \in EpochOrders(m), NEW e \in 1 .. cfg.epochs
  PROVE  Permutes(orders[e], m)
<1> DEFINE o == orders[e]
<1>1. o \in [1 .. m -> 1 .. m]
  BY OrderType
<1>2. \A a, b \in 1 .. m : o[a] = o[b] => a = b
  <2>1. o \in SetToSeqs(1 .. m) \/ o = Positions(m)
    BY DEF EpochOrders
  <2>2. Cardinality(1 .. m) = m
    BY FS_Interval
  <2>3. CASE o \in SetToSeqs(1 .. m)
    <3>1. \A i, j \in 1 .. m : i # j => o[i] # o[j]
      BY <2>2, <2>3 DEF SetToSeqs
    <3> QED
      BY <3>1
  <2>4. CASE o = Positions(m)
    BY <2>4 DEF Positions
  <2> QED
    BY <2>1, <2>3, <2>4
<1> HIDE DEF o
<1>3. o \in Injection(1 .. m, 1 .. m)
  BY <1>1, <1>2 DEF Injection, IsInjective
<1>4. IsFiniteSet(1 .. m)
  BY FS_Interval
<1>5. o \in Surjection(1 .. m, 1 .. m)
  BY <1>3, <1>4, FS_Injection
<1>6. o \in Bijection(1 .. m, 1 .. m)
  BY <1>3, <1>5 DEF Bijection
<1> QED
  BY <1>6 DEF Permutes, o

-----------------------------------------------------------------------------
\* The mini-batches of an update: no row twice in one, and each row of the rank
\* in as many as there are epochs.
LEMMA MiniBatchesHold ==
  ASSUME cfg \in Configs, LocalMini \in Nat \ {0}, NEW S, NEW w \in Seq(S), Distinct(w),
         NEW orders \in EpochOrders(Len(w)), NEW all, all = MiniBatches(w, orders)
  PROVE  /\ all \in Seq(Seq(S)) /\ \A p \in 1 .. Len(all) : Within(all[p], w)
         /\ \A x : In(w, x) => Left(all, x) = cfg.epochs
<1> DEFINE m == Len(w)
           E == cfg.epochs
           L == LocalMini
           k == PartCount(m, L)
           parts(e) == Split(Reorder(w, orders[e]), L)
           joined == [e \in 1 .. E |-> parts(e)]
<1>1. m \in Nat /\ E \in Nat \ {0} /\ L \in Nat \ {0}
  BY ConfigNumbers
<1>2. k \in Nat
  BY <1>1, PartEnds
<1>3. Joined(joined, E, k, Seq(S), all)
  BY MiniBatchesType
<1>4. ASSUME NEW e \in 1 .. E
      PROVE  /\ \A j \in 1 .. k : Within(parts(e)[j], w)
             /\ \A x : In(w, x) =>
                  \E j \in 1 .. k : \A i \in 1 .. k : In(parts(e)[i], x) <=> i = j
  <2> DEFINE u == Reorder(w, orders[e])
             o == orders[e]
  <2>1. Permutes(o, m)
    BY <1>1, OrderPermutes
  <2> HIDE DEF o
  <2>2. u \in Seq(S) /\ Len(u) = m /\ Distinct(u) /\ \A x : In(u, x) <=> In(w, x)
    BY <2>1, ReorderHolds DEF o
  <2> HIDE DEF u, L
  <2>3. OneEach(Split(u, L), u, PartCount(Len(u), L))
    <3> DEFINE ps == Split(u, L)
    <3>1. ps = Split(u, L) /\ L \in Nat \ {0}
      BY <1>1
    <3> HIDE DEF ps
    <3>2. OneEach(ps, u, PartCount(Len(u), L))
      BY <2>2, <3>1, SplitHolds
    <3> QED
      BY <3>2 DEF ps
  <2>4. k = PartCount(Len(u), L) /\ parts(e) = Split(u, L)
    BY <2>2 DEF u, L
  <2> HIDE DEF k, parts
  <2> QED
    BY <2>2, <2>3, <2>4 DEF Within, OneEach
<1> HIDE DEF m, L, k, parts
<1>5. /\ all \in Seq(Seq(S)) /\ Len(all) = E * k
      /\ \A e \in 1 .. E : \A j \in 1 .. k : all[(e - 1) * k + j] = parts(e)[j]
  BY <1>3 DEF Joined
<1> HIDE DEF joined, E
<1>6. \A p \in 1 .. E * k : HasPlace(p, E, k)
  <2> TAKE p \in 1 .. E * k
  <2> QED
    BY <1>1, <1>2, Places
<1>7. ASSUME NEW p \in 1 .. Len(all) PROVE Within(all[p], w)
  <2>1. PICK e \in 1 .. E, j \in 1 .. k : (e - 1) * k + j = p
    BY <1>5, <1>6 DEF HasPlace
  <2>2. all[p] = parts(e)[j]
    BY <1>5, <2>1
  <2> QED
    BY <1>4, <2>2 
<1>8. ASSUME NEW x, In(w, x) PROVE Left(all, x) = E
  <2> DEFINE f == [e \in 1 .. E |-> CHOOSE j \in 1 .. k : \A i \in 1 .. k : In(parts(e)[i], x) <=> i = j]
             place == [e \in 1 .. E |-> (e - 1) * k + f[e]]
             H == Holding(all, x)
  <2>1. \A e \in 1 .. E : f[e] \in 1 .. k /\ \A i \in 1 .. k : In(parts(e)[i], x) <=> i = f[e]
    BY <1>4, <1>8
  <2> HIDE DEF f
  <2>2. k \in Nat \ {0}
    <3>1. 1 \in 1 .. E
      BY <1>1
    <3> QED
      BY <1>2, <2>1, <3>1
  <2>3. ASSUME NEW e \in 1 .. E PROVE place[e] \in H
    <3>1. f[e] \in 1 .. k
      BY <2>1
    <3>2. place[e] \in 1 .. E * k
      <4> DEFINE o == e - 1
                 c == E - 1
      <4>1. o \in 0 .. c /\ c \in Nat /\ E = c + 1
        BY <1>1
      <4>2. o * k <= c * k /\ o * k \in Int /\ c * k \in Int
        <5> HIDE DEF c
        <5>1. o \in Int /\ c \in Int /\ o <= c /\ k \in Nat
          BY <2>2, <4>1
        <5> HIDE DEF o
        <5> QED
          BY <5>1, TimesMonotone
      <4>3. E * k = c * k + k
        <5> HIDE DEF c
        <5> QED
          BY <2>2, <4>1
      <4>4. o * k >= 0
        <5> HIDE DEF o
        <5>1. o \in Nat
          BY <4>1
        <5>2. o * k \in Nat
          BY <2>2, <5>1
        <5> QED
          BY <5>2
      <4>5. place[e] = o * k + f[e]
        OBVIOUS
      <4> DEFINE a == o * k
                 b == c * k
      <4> HIDE DEF a, b, place
      <4>6. a \in Int /\ b \in Int /\ a >= 0 /\ a <= b /\ E * k = b + k /\ place[e] = a + f[e]
        BY <4>2, <4>3, <4>4, <4>5 DEF a, b
      <4> QED
        BY <2>2, <3>1, <4>6
    <3>3. all[place[e]] = parts(e)[f[e]]
      BY <1>5, <3>1
    <3>4. In(all[place[e]], x)
      BY <2>1, <3>1, <3>3
    <3> HIDE DEF place
    <3> QED
      BY <1>5, <3>2, <3>4 DEF Holding
  <2>4. \A c, d \in 1 .. E : place[c] = place[d] => c = d
    <3> SUFFICES ASSUME NEW c \in 1 .. E, NEW d \in 1 .. E, place[c] = place[d] PROVE c = d
      OBVIOUS
    <3> DEFINE a == f[c]
               b == f[d]
    <3>1. (c - 1) * k + a = (d - 1) * k + b
      OBVIOUS
    <3>2. a \in 1 .. k /\ b \in 1 .. k /\ c \in Nat \ {0} /\ d \in Nat \ {0}
      BY <2>1
    <3> HIDE DEF a, b, place
    <3> QED
      BY <2>2, <3>1, <3>2, OnePlace
  <2>5. ASSUME NEW p \in H PROVE \E e \in 1 .. E : place[e] = p
    <3>1. p \in 1 .. E * k /\ In(all[p], x)
      BY <1>5 DEF Holding
    <3>2. PICK e \in 1 .. E, j \in 1 .. k : (e - 1) * k + j = p
      BY <1>6, <3>1 DEF HasPlace
    <3>3. all[p] = parts(e)[j]
      BY <1>5, <3>2
    <3>4. j = f[e]
      BY <2>1, <3>1, <3>3
    <3> QED
      BY <3>2, <3>4
  <2>6. place \in Bijection(1 .. E, H)
    <3>1. place \in [1 .. E -> H]
      BY <2>3
    <3> HIDE DEF place, H
    <3> QED
      BY <2>4, <2>5, <3>1 DEF Bijection, Injection, Surjection, IsInjective
  <2> HIDE DEF place, H
  <2>7. Cardinality(H) = E
    <3>1. IsFiniteSet(1 .. E) /\ Cardinality(1 .. E) = E
      BY <1>1, FS_Interval
    <3>2. ExistsBijection(1 .. E, H)
      BY <2>6 DEF ExistsBijection
    <3> QED
      BY <3>1, <3>2, FS_Bijection
  <2> QED
    BY <2>7 DEF Left, H
<1> QED
  BY <1>5, <1>7, <1>8 DEF E

-----------------------------------------------------------------------------
(* Each row is trained on the ranks of one data parallel rank. *)

\* The rows of the ranks with the data parallel rank c have row i, no others.
HeldBy(i, c) == \A r \in Ranks : In(RankRows[r], i) <=> TrainMesh.dpRank[r] = c

LEMMA RowsHeld ==
  ASSUME cfg \in Configs, lens \in LenProfiles, BatchOK(batch)
  PROVE  /\ \A r \in Ranks : Distinct(RankRows[r])
         /\ \A i \in 1 .. RowCount : \E c \in 0 .. DpSize - 1 : HeldBy(i, c)
<1> DEFINE n == RowCount
           q == n \div DpSize
           ids == IdsOf(batch)
           S == 1 .. n
           dp(r) == TrainMesh.dpRank[r]
<1>1. /\ n \in Nat \ {0} /\ WellMeshed(TrainMesh, DpSize) /\ DOMAIN TrainMesh.dpRank = Ranks
      /\ DpSize \in Nat \ {0} /\ n % DpSize = 0
  BY LensType, TrainMeshed, RankRowsType
<1>2. q \in Nat \ {0} /\ n = q * DpSize
  BY <1>1, Share
<1>3. /\ ids \in Seq(S) /\ Len(ids) = n
      /\ (\A p \in 1 .. n : ids[p] = batch[p].id)
      /\ (\A p, t \in 1 .. n : ids[p] = ids[t] => p = t)
      /\ \A i \in 1 .. n : \E p \in 1 .. n : ids[p] = i
  <2>1. ids \in Seq(S) /\ Len(ids) = n /\ \A p \in 1 .. n : ids[p] = batch[p].id
    BY <1>1, IdsType
  <2> HIDE DEF ids
  <2>2. EachOnce(batch)
    BY DEF BatchOK
  <2>3. \A p, t \in 1 .. n : ids[p] = ids[t] => p = t
    BY <2>1, <2>2, ZenonT(30) DEF EachOnce
  <2>4. \A i \in 1 .. n : \E p \in 1 .. n : ids[p] = i
    BY <2>1, <2>2, SMTT(30) DEF EachOnce
  <2> QED
    BY <2>1, <2>3, <2>4
<1> HIDE DEF ids, S, q, n
<1>4. ASSUME NEW r \in Ranks
      PROVE  /\ dp(r) \in 0 .. DpSize - 1 /\ Len(RankRows[r]) = q
             /\ \A j \in 1 .. q : /\ dp(r) * q + j \in 1 .. n
                                  /\ RankRows[r][j] = ids[dp(r) * q + j]
  <2> DEFINE c == dp(r)
  <2>1. c = TrainMesh.dpRank[r] /\ r \in DOMAIN TrainMesh.dpRank
    BY <1>1
  <2> HIDE DEF c
  <2>2. c \in 0 .. DpSize - 1 /\ PartOf(DispatchNd(ids, TrainMesh)[r], ids, c, Len(ids) \div DpSize, S)
    BY <1>1, <1>3, <2>1, DispatchedPart
  <2>3. PartOf(RankRows[r], ids, c, q, S)
    BY <1>3, <2>2 DEF RankRows, ids, q
  <2> QED
    BY <1>3, <2>2, <2>3 DEF PartOf, c
<1> HIDE DEF dp
<1>5. ASSUME NEW r \in Ranks PROVE Distinct(RankRows[r])
  <2> SUFFICES ASSUME NEW a \in 1 .. q, NEW b \in 1 .. q, RankRows[r][a] = RankRows[r][b] PROVE a = b
    BY <1>4 DEF Distinct
  <2> DEFINE u == dp(r) * q
  <2>1. u + a = u + b
    BY <1>3, <1>4, SMTT(30)
  <2>2. u \in Int
    <3>1. dp(r) \in Int /\ q \in Int
      BY <1>1, <1>2, <1>4
    <3> QED
      BY <3>1
  <2> HIDE DEF u
  <2> QED
    BY <1>2, <2>1, <2>2
<1>6. ASSUME NEW i \in 1 .. n PROVE \E c \in 0 .. DpSize - 1 : HeldBy(i, c)
  <2>1. PICK p \in 1 .. n : ids[p] = i
    BY <1>3
  <2>2. DpSize * q = n
    BY <1>1, <1>2
  <2>3. HasPlace(p, DpSize, q)
    <3>1. p \in 1 .. DpSize * q /\ DpSize \in Nat /\ q \in Nat
      BY <1>1, <1>2, <2>1, <2>2
    <3> QED
      BY <3>1, Places
  <2>4. PICK d \in 1 .. DpSize, j \in 1 .. q : (d - 1) * q + j = p
    BY <2>3 DEF HasPlace
  <2> DEFINE c == d - 1
  <2>5. c \in 0 .. DpSize - 1 /\ d = c + 1
    BY <1>1
  <2>6. c * q + j = p
    BY <2>4
  <2> HIDE DEF c
  <2>7. ASSUME NEW r \in Ranks, dp(r) = c PROVE In(RankRows[r], i)
    <3>1. RankRows[r][j] = ids[p] /\ Len(RankRows[r]) = q
      BY <1>4, <2>6, <2>7
    <3> QED
      BY <2>1, <3>1 DEF In
  <2>8. ASSUME NEW r \in Ranks, In(RankRows[r], i) PROVE dp(r) = c
    <3> DEFINE e == dp(r)
               f == e + 1
    <3>1. PICK a \in 1 .. q : RankRows[r][a] = i
      BY <1>4, <2>8 DEF In
    <3>2. e * q + a = p
      <4> DEFINE u == e * q + a
      <4>1. u \in 1 .. n /\ RankRows[r][a] = ids[u]
        BY <1>4
      <4> HIDE DEF u
      <4>2. u = p
        BY <1>3, <2>1, <3>1, <4>1
      <4> QED
        BY <4>2 DEF u
    <3>3. e \in 0 .. DpSize - 1
      BY <1>4
    <3> HIDE DEF e
    <3>4. f \in Nat \ {0} /\ f - 1 = e /\ d \in Nat \ {0} /\ d - 1 = c
      BY <1>1, <2>5, <3>3
    <3> HIDE DEF f
    <3>5. (f - 1) * q + a = (d - 1) * q + j
      BY <2>6, <3>2, <3>4
    <3>6. f = d
      BY <1>2, <3>4, <3>5, OnePlace
    <3> QED
      BY <3>4, <3>6 DEF e
  <2> QED
    BY <2>5, <2>7, <2>8 DEF HeldBy, dp
<1> QED
  BY <1>5, <1>6 DEF n

\* Of each data parallel rank one rank collects.
LEMMA CollectsOnce ==
  ASSUME cfg \in Configs
  PROVE  /\ TrainMesh.collect \subseteq Ranks
         /\ \A c \in 0 .. DpSize - 1 : \E r \in TrainMesh.collect :
              \A s \in TrainMesh.collect : TrainMesh.dpRank[s] = c <=> s = r
<1> DEFINE C == TrainMesh.collect
           f == InOrder(C)
           dp(r) == TrainMesh.dpRank[r]
<1>1. cfg.world \in Nat \ {0}
  BY ConfigNumbers
<1>2. C \subseteq Ranks
  BY DEF TrainMesh, MegatronMesh, DeviceMesh, Ranks
<1>3. IsFiniteSet(C) /\ C \subseteq Int
  <2>1. IsFiniteSet(Ranks) /\ Ranks \subseteq Int
    BY <1>1, FS_Interval DEF Ranks
  <2> QED
    BY <1>2, <2>1, FS_Subset
<1> HIDE DEF C
<1>4. f \in Bijection(1 .. Cardinality(C), C)
  BY <1>3, InOrderBijection
<1>5. DpSize \in Nat \ {0} /\ f \in [1 .. DpSize -> DOMAIN TrainMesh.dpRank]
      /\ \A i \in 1 .. DpSize : dp(f[i]) = i - 1
  BY TrainMeshed DEF WellMeshed, C
<1> HIDE DEF f, dp
<1>6. 1 .. Cardinality(C) = 1 .. DpSize
  BY <1>4, <1>5 DEF Bijection, Injection
<1>7. (\A i \in 1 .. DpSize : f[i] \in C) /\ \A s \in C : \E i \in 1 .. DpSize : f[i] = s
  BY <1>4, <1>6 DEF Bijection, Injection, Surjection
<1>8. ASSUME NEW c \in 0 .. DpSize - 1
      PROVE  \E r \in C : \A s \in C : dp(s) = c <=> s = r
  <2>1. c + 1 \in 1 .. DpSize /\ c + 1 - 1 = c
    BY <1>5
  <2> DEFINE r == f[c + 1]
  <2>2. r \in C /\ dp(r) = c
    BY <1>5, <1>7, <2>1
  <2>3. ASSUME NEW s \in C, dp(s) = c PROVE s = r
    <3>1. PICK i \in 1 .. DpSize : f[i] = s
      BY <1>7
    <3>2. i - 1 = c
      BY <1>5, <2>3, <3>1
    <3>3. i = c + 1
      BY <3>2
    <3> QED
      BY <3>1, <3>3
  <2> HIDE DEF r
  <2> QED
    BY <2>2, <2>3
<1> QED
  BY <1>2, <1>8 DEF C, dp

\* The rank that collects what is computed for row i.
LEMMA HomeOf ==
  ASSUME cfg \in Configs, lens \in LenProfiles, BatchOK(batch), NEW i \in 1 .. RowCount
  PROVE  \E r \in TrainMesh.collect :
           /\ r \in Ranks /\ HeldBy(i, TrainMesh.dpRank[r])
           /\ \A s \in TrainMesh.collect : In(RankRows[s], i) <=> s = r
<1>1. PICK c \in 0 .. DpSize - 1 : HeldBy(i, c)
  BY RowsHeld
<1>2. PICK r \in TrainMesh.collect : \A s \in TrainMesh.collect : TrainMesh.dpRank[s] = c <=> s = r
  BY CollectsOnce
<1>3. r \in Ranks /\ \A s \in TrainMesh.collect : s \in Ranks
  BY CollectsOnce
<1>4. TrainMesh.dpRank[r] = c
  BY <1>2
<1> QED
  BY <1>1, <1>2, <1>3, <1>4 DEF HeldBy

-----------------------------------------------------------------------------
(* What is left of an update. *)

(* The m rows a rank has at hand, in micro-batches if there are any.       *)
AtHand(r, m) ==
  /\ job.rows[r] \in Seq(1 .. RowCount) /\ Len(job.rows[r]) = m
  /\ Within(job.rows[r], RankRows[r])
  /\ m = 0 => job.micro[r] = <<>>
  /\ m # 0 => MicroOK(job.micro[r], m, job.call)

(* How often rank r still trains row i: with the rows at hand, and with    *)
(* mini-batches to come.                                                   *)
Pending(r, i) == IF Ahead(job.rows[r], job.micro[r], job.done, i) THEN 1 ELSE 0
ToDo(r, i) == Pending(r, i) + Left(job.minis[r], i)

LeftWithin(r) ==
  /\ job.minis[r] \in Seq(Seq(1 .. RowCount))
  /\ \A p \in 1 .. Len(job.minis[r]) : Within(job.minis[r][p], RankRows[r])

EpochsKept ==
  \A r \in TrainMesh.collect : \A i \in 1 .. RowCount :
    In(RankRows[r], i) => trained[i] \in Nat /\ trained[i] + ToDo(r, i) = cfg.epochs

RoundsInv ==
  job.call \in Updates =>
    /\ \E m \in Nat : \A r \in Ranks : AtHand(r, m)
    /\ \A r \in Ranks : LeftWithin(r)
    /\ EpochsKept

LEMMA SameLayout ==
  ASSUME UNCHANGED <<cfg, lens, batch>>
  PROVE  /\ Ranks' = Ranks /\ RowCount' = RowCount /\ TrainMesh' = TrainMesh /\ RankRows' = RankRows
         /\ DpSize' = DpSize /\ LocalMini' = LocalMini
         /\ \A micro, m, call : MicroOK(micro, m, call)' <=> MicroOK(micro, m, call)
<1>1. Ranks' = Ranks /\ RowCount' = RowCount /\ TrainMesh' = TrainMesh
      /\ DpSize' = DpSize /\ LocalMini' = LocalMini
  BY DEF Ranks, RowCount, TrainMesh, DpSize, LocalMini
<1>2. IdsOf(batch)' = IdsOf(batch)
  BY DEF IdsOf
<1>3. RankRows' = RankRows
  BY <1>1, <1>2 DEF RankRows
<1>4. \A micro, m, call : MicroOK(micro, m, call)' <=> MicroOK(micro, m, call)
  BY DEF MicroOK, Dynamic, MicroSize
<1> QED
  BY <1>1, <1>3, <1>4

LEMMA RoundsQuiet ==
  ASSUME RoundsInv, UNCHANGED <<cfg, lens, batch, job, trained>>
  PROVE  RoundsInv'
<1>1. /\ Ranks' = Ranks /\ RowCount' = RowCount /\ TrainMesh' = TrainMesh /\ RankRows' = RankRows
      /\ \A micro, m, call : MicroOK(micro, m, call)' <=> MicroOK(micro, m, call)
  BY SameLayout
<1>2. ASSUME NEW r, NEW m PROVE AtHand(r, m)' <=> AtHand(r, m)
  BY <1>1 DEF AtHand
<1>3. ASSUME NEW r PROVE LeftWithin(r)' <=> LeftWithin(r)
  BY <1>1 DEF LeftWithin
<1>4. ASSUME NEW r, NEW i PROVE ToDo(r, i)' = ToDo(r, i)
  BY DEF ToDo, Pending
<1>5. EpochsKept' <=> EpochsKept
  BY <1>1, <1>4 DEF EpochsKept
<1> QED
  BY <1>1, <1>2, <1>3, <1>5 DEF RoundsInv

\* An update starts with the mini-batches of all epochs.
LEMMA RoundsStarted ==
  ASSUME FlowInv, DataInv, StartUpdate
  PROVE  RoundsInv'
<1>1. /\ UNCHANGED <<cfg, lens, batch>> /\ cfg \in Configs /\ lens \in LenProfiles
      /\ BatchOK(batch) /\ trained' = ZeroGrad
  BY DEF StartUpdate, FlowInv, DataInv
<1>2. /\ Ranks' = Ranks /\ RowCount' = RowCount /\ TrainMesh' = TrainMesh /\ RankRows' = RankRows
  BY <1>1, SameLayout
<1> DEFINE n == RowCount \div DpSize
<1>3. /\ n \in Nat \ {0} /\ LocalMini \in Nat \ {0}
      /\ \A r \in Ranks : RankRows[r] \in Seq(1 .. RowCount) /\ Len(RankRows[r]) = n
  BY <1>1, RankRowsType, LocalMiniSize
<1>4. Ids = 1 .. RowCount /\ 0 \in Ranks
  <2>1. cfg.world \in Nat \ {0}
    BY <1>1, ConfigNumbers
  <2> QED
    BY <1>1, <2>1, LensType DEF Ranks
<1> HIDE DEF n
<1>5. PICK orders \in EpochOrders(n) :
        job' = [call |-> pc, minis |-> [r \in Ranks |-> MiniBatches(RankRows[r], orders)],
                rows |-> [r \in Ranks |-> <<>>], micro |-> [r \in Ranks |-> <<>>], done |-> 0]
  BY <1>3, <1>4 DEF StartUpdate
<1>6. /\ job'.done = 0
      /\ \A r \in Ranks : /\ job'.minis[r] = MiniBatches(RankRows[r], orders)
                          /\ job'.rows[r] = <<>> /\ job'.micro[r] = <<>>
  BY <1>5
<1>7. ASSUME NEW r \in Ranks
      PROVE  /\ job'.minis[r] \in Seq(Seq(1 .. RowCount))
             /\ \A p \in 1 .. Len(job'.minis[r]) : Within(job'.minis[r][p], RankRows[r])
             /\ \A x : In(RankRows[r], x) => Left(job'.minis[r], x) = cfg.epochs
  <2> DEFINE w == RankRows[r]
             S == 1 .. RowCount
             all == job'.minis[r]
  <2>1. w \in Seq(S) /\ Len(w) = n /\ Distinct(w)
    BY <1>1, <1>3, RowsHeld
  <2>2. all = MiniBatches(w, orders)
    BY <1>6
  <2> HIDE DEF w, S, all
  <2>3. orders \in EpochOrders(Len(w))
    BY <2>1
  <2> QED
    BY <1>1, <1>3, <2>1, <2>2, <2>3, MiniBatchesHold DEF w, S, all
<1>8. ASSUME NEW r \in Ranks PROVE AtHand(r, 0)' /\ LeftWithin(r)'
  <2>1. job'.rows[r] = <<>> /\ job'.micro[r] = <<>>
    BY <1>6
  <2>2. Within(<<>>, RankRows[r])
    BY DEF Within, Distinct, In
  <2>3. AtHand(r, 0)'
    BY <1>2, <2>1, <2>2 DEF AtHand
  <2> QED
    BY <1>2, <1>7, <2>3 DEF LeftWithin
<1>9. EpochsKept'
  <2> SUFFICES ASSUME NEW r \in TrainMesh.collect, NEW i \in 1 .. RowCount, In(RankRows[r], i)
               PROVE  trained'[i] \in Nat /\ trained'[i] + ToDo(r, i)' = cfg.epochs
    BY <1>1, <1>2 DEF EpochsKept
  <2>1. r \in Ranks
    BY <1>1, CollectsOnce
  <2>2. trained'[i] = 0
    BY <1>1, <1>4 DEF ZeroGrad
  <2>3. ~ Ahead(job'.rows[r], job'.micro[r], job'.done, i)
    <3>1. Len(job'.micro[r]) = 0 /\ job'.done = 0
      BY <1>6, <2>1
    <3> QED
      BY <3>1 DEF Ahead
  <2>4. Left(job'.minis[r], i) = cfg.epochs
    BY <1>7, <2>1
  <2>5. ToDo(r, i)' = 0 + cfg.epochs
    BY <2>3, <2>4 DEF ToDo, Pending
  <2>6. cfg.epochs \in Nat
    BY <1>1, ConfigNumbers
  <2> QED
    BY <2>2, <2>5, <2>6
<1> QED
  BY <1>2, <1>8, <1>9 DEF RoundsInv

-----------------------------------------------------------------------------
\* The rows at hand: all ranks have as many, and some of their micro-batches.
LEMMA NothingAhead ==
  ASSUME NEW r, AtHand(r, 0), job.done \in Nat, NEW i
  PROVE  Pending(r, i) = 0
<1>1. Len(job.micro[r]) = 0
  BY DEF AtHand
<1>2. job.done + 1 .. 0 = {}
  OBVIOUS
<1>3. ~ Ahead(job.rows[r], job.micro[r], job.done, i)
  BY <1>1, <1>2 DEF Ahead
<1> QED
  BY <1>3 DEF Pending

LEMMA AnyRank ==
  ASSUME cfg \in Configs
  PROVE  0 \in Ranks
<1>1. cfg.world \in Nat \ {0}
  BY ConfigNumbers
<1> QED
  BY <1>1 DEF Ranks

\* The next mini-batch: what was in the first one left is now ahead.
LEMMA RoundsNextMini ==
  ASSUME FlowInv, DataInv, StepsInv, RoundsInv, BeginMiniBatch
  PROVE  RoundsInv'
<1>1. /\ UNCHANGED <<cfg, lens, batch, trained>> /\ cfg \in Configs /\ lens \in LenProfiles
      /\ BatchOK(batch) /\ job.call \in Updates /\ job.rows[0] = <<>> /\ job.minis[0] # <<>>
  BY DEF BeginMiniBatch, FlowInv, DataInv, workerVars
<1>2. /\ Ranks' = Ranks /\ RowCount' = RowCount /\ TrainMesh' = TrainMesh /\ RankRows' = RankRows
      /\ \A micro, m, call : MicroOK(micro, m, call)' <=> MicroOK(micro, m, call)
  BY <1>1, SameLayout
<1> DEFINE rows == [r \in Ranks |-> Head(job.minis[r])]
           left == [r \in Ranks |-> Tail(job.minis[r])]
           micro == MicroBatches(rows, job.call)
           S == 1 .. RowCount
<1>3. /\ job'.call = job.call /\ job'.rows = rows /\ job'.micro = micro /\ job'.done = 0
      /\ job'.minis = left
  <2>1. job' = [job EXCEPT !.rows = rows, !.micro = micro, !.done = 0, !.minis = left]
    BY DEF BeginMiniBatch
  <2>2. IsUpdating(job)
    BY <1>1, OneAtATime
  <2> HIDE DEF rows, micro, left
  <2> QED
    BY <2>1, <2>2 DEF IsUpdating
<1>4. PICK sizes \in Seq(Nat \ {0}) : \A r \in Ranks : Sized(job.minis[r], sizes)
  BY <1>1 DEF StepsInv
<1>5. 0 \in Ranks
  BY <1>1, AnyRank
<1>6. Len(sizes) \in Nat \ {0}
  <2>1. Len(job.minis[0]) = Len(sizes) /\ job.minis[0] \in Seq(Seq(1 .. RowCount))
    BY <1>4, <1>5 DEF Sized
  <2> QED
    BY <1>1, <2>1
<1> DEFINE m == sizes[1]
<1>7. m \in Nat \ {0}
  BY <1>6
<1> HIDE DEF m, S
<1>8. ASSUME NEW r \in Ranks
      PROVE  /\ job.minis[r] \in Seq(Seq(S)) /\ job.minis[r] # <<>>
             /\ rows[r] = Head(job.minis[r]) /\ left[r] = Tail(job.minis[r])
             /\ rows[r] \in Seq(S) /\ Len(rows[r]) = m /\ Within(rows[r], RankRows[r])
             /\ left[r] \in Seq(Seq(S))
             /\ \A p \in 1 .. Len(left[r]) : Within(left[r][p], RankRows[r])
  <2> DEFINE minis == job.minis[r]
             T == Seq(S)
             n == Len(sizes)
  <2>1. minis \in Seq(T) /\ Len(minis) = n /\ Len(minis[1]) = sizes[1]
    BY <1>4, <1>6 DEF Sized, S
  <2>2. \A p \in 1 .. Len(minis) : Within(minis[p], RankRows[r])
    BY <1>1 DEF RoundsInv, LeftWithin
  <2>3. rows[r] = Head(minis) /\ left[r] = Tail(minis)
    OBVIOUS
  <2> HIDE DEF rows, left, minis, T, n
  <2>4. n \in Nat \ {0}
    BY <1>6 DEF n
  <2>5. rows[r] = minis[1] /\ minis[1] \in T /\ minis # <<>>
    BY <2>1, <2>3, <2>4
  <2>6. left[r] \in Seq(T) /\ Len(left[r]) = n - 1
        /\ \A p \in 1 .. n - 1 : left[r][p] = minis[p + 1]
    BY <2>1, <2>3, <2>4
  <2>7. \A p \in 1 .. n - 1 : p + 1 \in 1 .. n
    BY <2>4
  <2>8. \A p \in 1 .. Len(left[r]) : Within(left[r][p], RankRows[r])
    BY <2>1, <2>2, <2>6, <2>7
  <2>9. Within(rows[r], RankRows[r])
    BY <2>1, <2>2, <2>4, <2>5
  <2> QED
    BY <2>1, <2>3, <2>5, <2>6, <2>8, <2>9 DEF m, minis, T
<1> HIDE DEF rows, left
<1>9. \A r \in Ranks : MicroOK(micro[r], m, job.call)
  <2> DEFINE call == job.call
  <2>1. call \in Calls \cup Updates /\ micro = MicroBatches(rows, call)
    BY <1>1
  <2>2. \A r \in Ranks : rows[r] \in Seq(1 .. RowCount) /\ Len(rows[r]) = m
    BY <1>8 DEF S
  <2> HIDE DEF micro, call
  <2>3. \A r \in Ranks : MicroOK(MicroBatches(rows, call)[r], m, call)
    BY <1>1, <1>7, <2>1, <2>2, MicroBatchesOK
  <2> QED
    BY <2>1, <2>3 DEF call
<1> HIDE DEF micro
<1>10. ASSUME NEW r \in Ranks PROVE AtHand(r, m)' /\ LeftWithin(r)'
  <2>1. AtHand(r, m)'
    BY <1>2, <1>3, <1>7, <1>8, <1>9 DEF AtHand, S
  <2> QED
    BY <1>2, <1>3, <1>8, <2>1 DEF LeftWithin, S
<1>11. PICK k \in Nat : \A r \in Ranks : AtHand(r, k)
  BY <1>1 DEF RoundsInv
<1>12. k = 0 /\ job.done \in Nat
  <2>1. Len(job.rows[0]) = k
    BY <1>5, <1>11 DEF AtHand
  <2> QED
    BY <1>1, <2>1 DEF StepsInv
<1>13. EpochsKept'
  <2> SUFFICES ASSUME NEW r \in TrainMesh.collect, NEW i \in 1 .. RowCount, In(RankRows[r], i)
               PROVE  trained'[i] \in Nat /\ trained'[i] + ToDo(r, i)' = cfg.epochs
    BY <1>1, <1>2 DEF EpochsKept
  <2>1. r \in Ranks
    BY <1>1, CollectsOnce
  <2>2. trained[i] \in Nat /\ trained[i] + ToDo(r, i) = cfg.epochs
    BY <1>1 DEF RoundsInv, EpochsKept
  <2>3. Pending(r, i) = 0
    BY <1>11, <1>12, <2>1, NothingAhead
  <2>4. Left(job.minis[r], i) = Left(left[r], i) + (IF In(rows[r], i) THEN 1 ELSE 0)
    <3> DEFINE T == Seq(S)
               w == job.minis[r]
    <3>1. w \in Seq(T) /\ w # <<>> /\ rows[r] = Head(w) /\ left[r] = Tail(w)
      BY <1>8, <2>1
    <3> HIDE DEF w, T
    <3>2. Left(w, i) = Left(Tail(w), i) + (IF In(Head(w), i) THEN 1 ELSE 0)
      BY <3>1, LeftTail
    <3> QED
      BY <3>1, <3>2 DEF w
  <2>5. Ahead(rows[r], micro[r], 0, i) <=> In(rows[r], i)
    <3>1. MicroOK(micro[r], m, job.call) /\ Len(rows[r]) = m
      BY <1>8, <1>9, <2>1
    <3>2. PICK c : Covers(micro[r], m, c)
      BY <1>1, <1>7, <3>1, MicroCovers
    <3> QED
      BY <1>7, <3>1, <3>2, AheadAll
  <2>6. ToDo(r, i)' = (IF In(rows[r], i) THEN 1 ELSE 0) + Left(left[r], i)
    BY <1>3, <2>5 DEF ToDo, Pending
  <2>7. Left(left[r], i) \in Nat /\ Left(job.minis[r], i) \in Nat
    <3>1. left[r] \in Seq(Seq(S)) /\ job.minis[r] \in Seq(Seq(S))
      BY <1>8, <2>1
    <3> DEFINE T == Seq(S)
    <3> HIDE DEF T
    <3> QED
      BY <3>1, LeftType DEF T
  <2> QED
    BY <1>1, <2>2, <2>3, <2>4, <2>6, <2>7 DEF ToDo
<1> QED
  BY <1>2, <1>7, <1>10, <1>13 DEF RoundsInv

-----------------------------------------------------------------------------
\* A sequence without repetition is no longer than what its elements are taken from.
LEMMA DistinctShort ==
  ASSUME NEW n \in Nat, NEW w \in Seq(1 .. n), Distinct(w)
  PROVE  Len(w) <= n
<1> DEFINE m == Len(w)
           S == 1 .. m
           T == 1 .. n
<1>1. m \in Nat /\ w \in [S -> T]
  OBVIOUS
<1>2. \A p, q \in S : w[p] = w[q] => p = q
  BY DEF Distinct
<1>3. IsFiniteSet(T) /\ Cardinality(T) = n /\ Cardinality(S) = m
  <2> HIDE DEF m
  <2> QED
    BY <1>1, FS_Interval
<1> HIDE DEF m, S, T
<1>4. w \in Injection(S, T)
  BY <1>1, <1>2 DEF Injection, IsInjective
<1>5. Cardinality(S) <= Cardinality(T)
  BY <1>3, <1>4, FS_Injection
<1> QED
  BY <1>3, <1>5 DEF m

\* The rank r collects for row i: the row is where r's micro-batch has it, or nowhere.
OnlyAt(i, r) ==
  LET part == job.micro[r][job.done + 1]
  IN  IF At(job.rows[r], part, i)
        THEN \E p : p \in ToSet(part) /\ Occurrences(i) = {<<r, p>>}
        ELSE Occurrences(i) = {}

LEMMA OccursOnce ==
  ASSUME FlowInv, DataInv, StepsInv, RoundsInv, ForwardBackward, NEW r \in TrainMesh.collect,
         NEW i \in 1 .. RowCount, In(RankRows[r], i)
  PROVE  OnlyAt(i, r)
<1>1. /\ cfg \in Configs /\ lens \in LenProfiles /\ BatchOK(batch) /\ job.call \in Updates
      /\ AllRanksAtMicroBatch /\ job.rows[0] # <<>>
  BY DEF ForwardBackward, FlowInv, DataInv
<1>2. PICK m \in Nat : \A s \in Ranks : AtHand(s, m)
  BY <1>1 DEF RoundsInv
<1>3. RowCount \in Nat \ {0} /\ RowCount = Len(lens) /\ 0 \in Ranks
  BY <1>1, LensType, AnyRank DEF RowCount
<1>4. m # 0
  BY <1>1, <1>2, <1>3 DEF AtHand
<1>5. TrainMesh.collect \subseteq Ranks /\ \A s \in TrainMesh.collect : In(RankRows[s], i) => s = r
  <2>1. PICK h \in TrainMesh.collect : \A s \in TrainMesh.collect : In(RankRows[s], i) <=> s = h
    BY <1>1, HomeOf
  <2>2. TrainMesh.collect \subseteq Ranks
    BY <1>1, CollectsOnce
  <2> QED
    BY <2>1, <2>2
<1>6. ASSUME NEW s \in Ranks
      PROVE  /\ Len(job.rows[s]) = m /\ Distinct(job.rows[s]) /\ m <= RowCount
             /\ \A x : In(job.rows[s], x) => In(RankRows[s], x)
             /\ ToSet(job.micro[s][job.done + 1]) \subseteq 1 .. m
             /\ ToSet(job.micro[s][job.done + 1])
                  = {job.micro[s][job.done + 1][a] : a \in 1 .. Len(job.micro[s][job.done + 1])}
  <2>1. /\ Len(job.rows[s]) = m /\ Distinct(job.rows[s]) /\ job.rows[s] \in Seq(1 .. RowCount)
        /\ \A x : In(job.rows[s], x) => In(RankRows[s], x)
    BY <1>2 DEF AtHand, Within
  <2>2. m <= RowCount
    BY <1>3, <2>1, DistinctShort
  <2> DEFINE micro == job.micro[s]
             part == micro[job.done + 1]
             call == job.call
  <2>3. PICK k : Covers(micro, m, k)
    <3>1. MicroOK(micro, m, call) /\ call \in Calls \cup Updates
      BY <1>1, <1>2, <1>4 DEF AtHand
    <3> HIDE DEF micro, call
    <3> QED
      BY <1>1, <1>4, <3>1, MicroCovers
  <2>4. micro \in Seq(Seq(1 .. m))
    BY <2>3 DEF Covers, Shares
  <2>5. part \in Seq(1 .. m)
    <3>1. job.done + 1 \in 1 .. Len(micro)
      <4>1. PICK c \in Nat : job.done \in 0 .. c /\ Len(micro) \in Nat
        <5>1. Len(micro) \in Nat
          BY <2>4
        <5>2. job.done \in Nat
          BY <1>1 DEF StepsInv
        <5> QED
          BY <5>1, <5>2
      <4>2. job.done < Len(micro)
        BY <1>1 DEF AllRanksAtMicroBatch
      <4> QED
        BY <4>1, <4>2
    <3> HIDE DEF micro
    <3> QED
      BY <2>4, <3>1, ElementOfSeq
  <2> HIDE DEF part, micro
  <2>6. ToSet(part) = {part[a] : a \in 1 .. Len(part)} /\ ToSet(part) \subseteq 1 .. m
    BY <2>5 DEF ToSet
  <2> QED
    BY <2>1, <2>2, <2>6 DEF part, micro
<1> DEFINE part == job.micro[r][job.done + 1]
           rows == job.rows[r]
<1>7. ASSUME NEW rp \in Occurrences(i)
      PROVE  rp = <<r, rp[2]>> /\ rp[2] \in ToSet(part) /\ rows[rp[2]] = i
  <2>1. /\ rp \in Ranks \X (1 .. Len(lens)) /\ rp[1] \in TrainMesh.collect
        /\ rp[2] \in ToSet(job.micro[rp[1]][job.done + 1]) /\ job.rows[rp[1]][rp[2]] = i
    BY DEF Occurrences
  <2>2. rp = <<rp[1], rp[2]>> /\ rp[1] \in Ranks
    BY <2>1
  <2>3. rp[2] \in 1 .. Len(job.rows[rp[1]])
    BY <1>6, <2>1, <2>2
  <2>4. In(job.rows[rp[1]], i)
    BY <2>1, <2>3 DEF In
  <2>5. rp[1] = r
    BY <1>5, <1>6, <2>1, <2>2, <2>4
  <2> QED
    BY <2>1, <2>2, <2>5
<1>8. r \in Ranks
  BY <1>5
<1>9. CASE At(rows, part, i)
  <2>1. PICK a \in 1 .. Len(part) : rows[part[a]] = i
    BY <1>9 DEF At
  <2> DEFINE p == part[a]
  <2>2. p \in ToSet(part) /\ p \in 1 .. m /\ rows[p] = i
    BY <1>6, <1>8, <2>1
  <2>3. p \in 1 .. Len(lens)
    BY <1>3, <1>6, <1>8, <2>2, SMTT(30)
  <2> HIDE DEF p
  <2>4. <<r, p>> \in Occurrences(i)
    BY <1>8, <2>2, <2>3 DEF Occurrences
  <2>5. ASSUME NEW rp \in Occurrences(i) PROVE rp = <<r, p>>
    <3>1. rp = <<r, rp[2]>> /\ rp[2] \in ToSet(part) /\ rows[rp[2]] = i
      BY <1>7
    <3>2. rp[2] \in 1 .. m
      BY <1>6, <1>8, <3>1
    <3>3. rp[2] = p
      BY <1>6, <1>8, <2>2, <3>1, <3>2 DEF Distinct
    <3> QED
      BY <3>1, <3>3
  <2>6. Occurrences(i) = {<<r, p>>}
    BY <2>4, <2>5
  <2> QED
    BY <1>9, <2>2, <2>6 DEF OnlyAt
<1>10. CASE ~ At(rows, part, i)
  <2>1. ASSUME NEW rp \in Occurrences(i) PROVE FALSE
    <3>1. rp[2] \in ToSet(part) /\ rows[rp[2]] = i
      BY <1>7
    <3> HIDE DEF part, rows
    <3>2. ToSet(part) = {part[a] : a \in 1 .. Len(part)}
      BY <1>6, <1>8 DEF part
    <3> QED
      BY <1>10, <3>1, <3>2 DEF At
  <2> QED
    BY <1>10, <2>1 DEF OnlyAt
<1> QED
  BY <1>9, <1>10

-----------------------------------------------------------------------------
\* A step of an update that leaves the mini-batches alone.
LEMMA MinisKept ==
  ASSUME FlowInv, ForwardBackward \/ OptimizerStep
  PROVE  /\ UNCHANGED <<cfg, lens, batch>> /\ job'.call = job.call /\ job.call \in Updates
         /\ job'.minis = job.minis
         /\ ForwardBackward => job'.rows = job.rows /\ job'.micro = job.micro
                                /\ job'.done = job.done + 1
         /\ OptimizerStep => /\ job'.rows = [r \in Ranks |-> <<>>]
                              /\ job'.micro = [r \in Ranks |-> <<>>] /\ job'.done = 0
<1>1. UNCHANGED <<cfg, lens, batch>> /\ job'.call = job.call /\ job.call \in Updates
  BY CallKept DEF ForwardBackward, OptimizerStep, FlowInv, workerVars
<1>2. IsUpdating(job)
  BY <1>1, OneAtATime
<1>3. ForwardBackward => job' = [job EXCEPT !.done = @ + 1]
  BY DEF ForwardBackward
<1>4. OptimizerStep => job' = [job EXCEPT !.rows = [r \in Ranks |-> <<>>],
                                          !.micro = [r \in Ranks |-> <<>>], !.done = 0]
  BY DEF OptimizerStep
<1> QED
  BY <1>1, <1>2, <1>3, <1>4 DEF IsUpdating

\* A micro-batch on every rank: its rows have been trained once more.
LEMMA RoundsTrained ==
  ASSUME FlowInv, DataInv, StepsInv, RoundsInv, ForwardBackward
  PROVE  RoundsInv'
<1>1. /\ UNCHANGED <<cfg, lens, batch>> /\ job'.call = job.call /\ job.call \in Updates
      /\ job'.minis = job.minis /\ job'.rows = job.rows /\ job'.micro = job.micro
      /\ job'.done = job.done + 1
  BY MinisKept
<1>2. /\ cfg \in Configs /\ lens \in LenProfiles /\ BatchOK(batch)
      /\ AllRanksAtMicroBatch /\ job.rows[0] # <<>> /\ job.done \in Nat
      /\ trained' = [i \in Ids |-> trained[i] + Cardinality(Occurrences(i))]
  BY <1>1 DEF ForwardBackward, FlowInv, DataInv, StepsInv
<1>3. /\ Ranks' = Ranks /\ RowCount' = RowCount /\ TrainMesh' = TrainMesh /\ RankRows' = RankRows
      /\ \A micro, m, call : MicroOK(micro, m, call)' <=> MicroOK(micro, m, call)
  BY <1>1, SameLayout
<1>4. PICK m \in Nat : \A r \in Ranks : AtHand(r, m)
  BY <1>1 DEF RoundsInv
<1>5. \A r \in Ranks : AtHand(r, m)' /\ LeftWithin(r)'
  BY <1>1, <1>3, <1>4 DEF RoundsInv, AtHand, LeftWithin
<1>6. Ids = 1 .. RowCount /\ 0 \in Ranks
  BY <1>2, LensType, AnyRank
<1>7. m # 0
  BY <1>2, <1>4, <1>6 DEF AtHand
<1>8. EpochsKept'
  <2> SUFFICES ASSUME NEW r \in TrainMesh.collect, NEW i \in 1 .. RowCount, In(RankRows[r], i)
               PROVE  trained'[i] \in Nat /\ trained'[i] + ToDo(r, i)' = cfg.epochs
    BY <1>1, <1>3 DEF EpochsKept
  <2>1. r \in Ranks
    BY <1>2, CollectsOnce
  <2>2. trained[i] \in Nat /\ trained[i] + ToDo(r, i) = cfg.epochs
    BY <1>1 DEF RoundsInv, EpochsKept
  <2> DEFINE rows == job.rows[r]
             micro == job.micro[r]
             call == job.call
             d == job.done
             now == At(rows, micro[d + 1], i)
  <2>3. PICK k : Covers(micro, m, k)
    <3>1. MicroOK(micro, m, call) /\ call \in Calls \cup Updates
      BY <1>1, <1>4, <1>7, <2>1 DEF AtHand
    <3> HIDE DEF micro, call
    <3> QED
      BY <1>2, <1>7, <3>1, MicroCovers
  <2>4. d \in Nat /\ d < Len(micro) /\ Len(rows) = m /\ Distinct(rows)
    BY <1>2, <1>4, <2>1 DEF AllRanksAtMicroBatch, AtHand, Within
  <2>5. Cardinality(Occurrences(i)) = IF now THEN 1 ELSE 0
    <3>1. OnlyAt(i, r)
      BY OccursOnce
    <3>2. CASE now
      <4>1. \E p : Occurrences(i) = {<<r, p>>}
        BY <3>1, <3>2 DEF OnlyAt
      <4> QED
        BY <3>2, <4>1, FS_Singleton
    <3>3. CASE ~ now
      <4>1. Occurrences(i) = {}
        BY <3>1, <3>3 DEF OnlyAt
      <4> QED
        BY <3>3, <4>1, FS_EmptySet
    <3> QED
      BY <3>2, <3>3
  <2>6. trained'[i] = trained[i] + (IF now THEN 1 ELSE 0)
    BY <1>2, <1>6, <2>5
  <2>7. /\ Pending(r, i) = IF Ahead(rows, micro, d, i) THEN 1 ELSE 0
        /\ Pending(r, i)' = IF Ahead(rows, micro, d + 1, i) THEN 1 ELSE 0
    BY <1>1 DEF Pending
  <2> HIDE DEF rows, micro, d
  <2>8. /\ Ahead(rows, micro, d, i) <=> now \/ Ahead(rows, micro, d + 1, i)
        /\ ~ (now /\ Ahead(rows, micro, d + 1, i))
    BY <2>3, <2>4, AheadStep
  <2> HIDE DEF now
  <2>9. Pending(r, i) = Pending(r, i)' + (IF now THEN 1 ELSE 0)
    BY <2>7, <2>8
  <2>10. Left(job.minis[r], i) \in Nat /\ Left(job.minis[r], i)' = Left(job.minis[r], i)
    <3>1. job.minis[r] \in Seq(Seq(1 .. RowCount))
      BY <1>1, <2>1 DEF RoundsInv, LeftWithin
    <3> DEFINE T == Seq(1 .. RowCount)
    <3> HIDE DEF T
    <3> QED
      BY <1>1, <3>1, LeftType DEF T
  <2>11. ToDo(r, i) = Pending(r, i) + Left(job.minis[r], i)
         /\ ToDo(r, i)' = Pending(r, i)' + Left(job.minis[r], i)
    BY <1>1 DEF ToDo
  <2>12. Pending(r, i)' \in Nat
    BY <2>7
  <2> QED
    BY <1>1, <2>2, <2>6, <2>9, <2>10, <2>11, <2>12
<1> QED
  BY <1>3, <1>5, <1>8 DEF RoundsInv

\* The optimizer step: nothing of the rows at hand was ahead.
LEMMA RoundsStepped ==
  ASSUME FlowInv, DataInv, StepsInv, RoundsInv, OptimizerStep
  PROVE  RoundsInv'
<1>1. /\ UNCHANGED <<cfg, lens, batch, trained>> /\ job'.call = job.call /\ job.call \in Updates
      /\ job'.minis = job.minis /\ job'.done = 0 /\ AllRanksFinished
      /\ job'.rows = [r \in Ranks |-> <<>>] /\ job'.micro = [r \in Ranks |-> <<>>]
  BY MinisKept DEF OptimizerStep
<1>2. cfg \in Configs /\ job.done \in Nat
  BY <1>1 DEF FlowInv, StepsInv
<1>3. /\ Ranks' = Ranks /\ RowCount' = RowCount /\ TrainMesh' = TrainMesh /\ RankRows' = RankRows
      /\ \A micro, m, call : MicroOK(micro, m, call)' <=> MicroOK(micro, m, call)
  BY <1>1, SameLayout
<1>4. ASSUME NEW r \in Ranks PROVE AtHand(r, 0)' /\ LeftWithin(r)'
  <2>1. job'.rows[r] = <<>> /\ job'.micro[r] = <<>>
    BY <1>1
  <2>2. Within(<<>>, RankRows[r])
    BY DEF Within, Distinct, In
  <2>3. AtHand(r, 0)'
    BY <1>3, <2>1, <2>2 DEF AtHand
  <2>4. LeftWithin(r)
    BY <1>1 DEF RoundsInv
  <2> QED
    BY <1>1, <1>3, <2>3, <2>4 DEF LeftWithin
<1>5. EpochsKept'
  <2> SUFFICES ASSUME NEW r \in TrainMesh.collect, NEW i \in 1 .. RowCount, In(RankRows[r], i)
               PROVE  trained'[i] \in Nat /\ trained'[i] + ToDo(r, i)' = cfg.epochs
    BY <1>1, <1>3 DEF EpochsKept
  <2>1. r \in Ranks
    BY <1>2, CollectsOnce
  <2>2. trained[i] \in Nat /\ trained[i] + ToDo(r, i) = cfg.epochs
    BY <1>1 DEF RoundsInv, EpochsKept
  <2>3. Pending(r, i) = 0
    <3>1. job.done = Len(job.micro[r])
      BY <1>1, <2>1 DEF AllRanksFinished
    <3>2. job.done + 1 .. job.done = {}
      BY <1>2
    <3> QED
      BY <3>1, <3>2 DEF Pending, Ahead
  <2>4. Pending(r, i)' = 0
    <3>1. Len(job'.micro[r]) = 0
      BY <1>1, <2>1
    <3>2. 1 .. 0 = {}
      OBVIOUS
    <3> QED
      BY <1>1, <3>1, <3>2 DEF Pending, Ahead
  <2>5. ToDo(r, i)' = ToDo(r, i)
    BY <1>1, <2>3, <2>4 DEF ToDo
  <2> QED
    BY <1>1, <2>2, <2>5
<1> QED
  BY <1>3, <1>4, <1>5 DEF RoundsInv

-----------------------------------------------------------------------------
\* Nothing else is executed during an update.
LEMMA OnlyTrains ==
  ASSUME FlowInv, [Next]_vars, job'.call \in Updates
  PROVE  \/ StartUpdate \/ BeginMiniBatch \/ ForwardBackward \/ OptimizerStep
         \/ UNCHANGED <<cfg, lens, batch, job, grad, trained>>
<1> USE DEF workerVars
<1>1. CASE UNCHANGED vars
  BY <1>1 DEF vars
<1>2. CASE SendPrompts \/ SwitchMode \/ Generate \/ LeaveRollout
  BY <1>2 DEF SendPrompts, SwitchMode, Generate, LeaveRollout, TrainerMode, Summon,
              OffloadSummoned, ResumeWeights, UpdateWeights, ResumeCache, MegatronSummon,
              MegatronUpdateWeights
<1>3. CASE ReceiveResponses \/ BalanceBatch \/ ComputeReward \/ ComputeAdvantage \/ EndStep
  <2>1. job' = job
    BY <1>3 DEF ReceiveResponses, BalanceBatch, ComputeReward, ComputeAdvantage, EndStep
  <2>2. request = NoRequest /\ pc \in {job.call, "raised"}
    BY <2>1, OneAtATime DEF FlowInv
  <2> QED
    BY <1>3, <2>1, <2>2 DEF ReceiveResponses, BalanceBatch, ComputeReward, ComputeAdvantage, EndStep,
                            Updates
<1>4. CASE SkipActorUpdate \/ MegatronStepFails
  BY <1>4 DEF SkipActorUpdate, MegatronStepFails
<1>5. CASE FinishCall \/ FinishUpdate \/ BeginSave \/ EndSave
  <2>1. job' = NoJob \/ job' = [call |-> "save"]
    BY <1>5 DEF FinishCall, FinishUpdate, BeginSave, EndSave
  <2> QED
    BY <2>1 DEF NoJob, Updates
<1>6. CASE StartCall
  <2>1. job'.call \in Calls
    BY <1>6 DEF StartCall
  <2> QED
    BY <2>1 DEF Calls, Updates
<1>7. CASE Forward
  <2>1. job.call \in Calls /\ job'.call = job.call
    BY <1>7, CallKept DEF Forward
  <2> QED
    BY <2>1 DEF Calls, Updates
<1> QED
  BY <1>1, <1>2, <1>3, <1>4, <1>5, <1>6, <1>7
     DEF Next, Rollout, Driver, Compute, Train, Save, Finished

LEMMA RoundsStep == FlowInv /\ DataInv /\ StepsInv /\ RoundsInv /\ [Next]_vars => RoundsInv'
<1> SUFFICES ASSUME FlowInv, DataInv, StepsInv, RoundsInv, [Next]_vars, job'.call \in Updates
             PROVE  RoundsInv'
  BY DEF RoundsInv
<1> QED
  BY OnlyTrains, RoundsQuiet, RoundsStarted, RoundsNextMini, RoundsTrained, RoundsStepped

\* All epochs are over when nothing is at hand and no mini-batch is left.
LEMMA RoundsOver ==
  ASSUME FlowInv, DataInv, StepsInv, RoundsInv
  PROVE  EachRowTrained
<1> SUFFICES ASSUME job.call \in Updates, job.rows[0] = <<>>, job.minis[0] = <<>>,
                    NEW i \in Ids
             PROVE  trained[i] = cfg.epochs
  BY DEF EachRowTrained
<1>1. cfg \in Configs /\ lens \in LenProfiles /\ BatchOK(batch) /\ job.done \in Nat
  BY DEF FlowInv, DataInv, StepsInv
<1>2. i \in 1 .. RowCount /\ 0 \in Ranks
  BY <1>1, LensType, AnyRank
<1>3. PICK r \in TrainMesh.collect : r \in Ranks /\ In(RankRows[r], i)
  BY <1>1, <1>2, HomeOf
<1>4. trained[i] \in Nat /\ trained[i] + ToDo(r, i) = cfg.epochs
  BY <1>2, <1>3 DEF RoundsInv, EpochsKept
<1>5. Pending(r, i) = 0
  <2>1. PICK m \in Nat : \A s \in Ranks : AtHand(s, m)
    BY DEF RoundsInv
  <2>2. m = 0
    BY <1>2, <2>1 DEF AtHand
  <2> QED
    BY <1>1, <1>3, <2>1, <2>2, NothingAhead
<1>6. Left(job.minis[r], i) = 0
  <2>1. PICK sizes \in Seq(Nat \ {0}) : \A s \in Ranks : Sized(job.minis[s], sizes)
    BY DEF StepsInv
  <2>2. Len(job.minis[r]) = Len(job.minis[0]) /\ Len(job.minis[0]) = 0
    BY <1>2, <1>3, <2>1 DEF Sized
  <2>3. Holding(job.minis[r], i) = {}
    BY <2>2 DEF Holding
  <2> QED
    BY <2>3, FS_EmptySet DEF Left
<1> QED
  BY <1>4, <1>5, <1>6 DEF ToDo

(* An update trains every row as often as there are epochs, on one data    *)
(* parallel rank each time, however the rows are shuffled, divided into    *)
(* mini-batches and micro-batches and spread over ranks of any layout, and *)
(* whether the micro-batches are dynamic or not (update_policy,            *)
(* update_critic).                                                         *)
THEOREM RowsAreTrained == Spec => []EachRowTrained
<1>1. Init => FlowInv /\ RaisedInv /\ DataInv /\ StepsInv /\ RoundsInv
  <2>1. Init => job.call \notin Updates
    BY DEF Init, NoJob, Updates
  <2> QED
    BY <2>1, FlowInit, DataInit, StepsInit DEF Init, RaisedInv, RoundsInv
<1>2. FlowInv /\ RaisedInv /\ DataInv /\ StepsInv /\ RoundsInv /\ [Next]_vars
      => FlowInv' /\ RaisedInv' /\ DataInv' /\ StepsInv' /\ RoundsInv'
  BY FlowStep, RaisedStep, DataStep, StepsStep, RoundsStep
<1>3. FlowInv /\ DataInv /\ StepsInv /\ RoundsInv => EachRowTrained
  BY RoundsOver
<1> QED
  BY <1>1, <1>2, <1>3, PTL DEF Spec

-----------------------------------------------------------------------------
(* Sizes of parts. *)

LEMMA FullParts ==
  ASSUME NEW b \in Nat \ {0}, NEW t \in Nat, NEW n, n = t * b
  PROVE  PartCount(n, b) = t /\ \A j \in 1 .. t : PartSize(j, b, n) = b
<1>1. PartCount(n, b) = t
  <2> DEFINE r == b - 1
             x == t * b
  <2>1. r \in 0 .. b - 1 /\ r = b - 1
    OBVIOUS
  <2>2. x \in Nat
    OBVIOUS
  <2> HIDE DEF r
  <2>3. (t * b + r) \div b = t
    BY <2>1, PlaceOf
  <2> HIDE DEF x
  <2>4. n + b - 1 = x + r /\ x = t * b
    BY <2>1, <2>2 DEF x
  <2> QED
    BY <2>3, <2>4 DEF PartCount
<1>2. ASSUME NEW j \in 1 .. t PROVE PartSize(j, b, n) = b
  <2> DEFINE i == j - 1
             u == i * b
  <2>1. i \in Nat /\ j = i + 1 /\ t \in Nat /\ j \in Int /\ j <= t
    OBVIOUS
  <2> HIDE DEF i
  <2>2. u \in Nat /\ j * b = u + b
    BY <2>1
  <2>3. j * b <= t * b
    BY <2>1, TimesMonotone
  <2> HIDE DEF u
  <2>4. (j - 1) * b = u
    BY <2>1 DEF u
  <2>5. PartEnd(j, b, n) = u + b
    BY <2>2, <2>3 DEF PartEnd
  <2>6. PartSize(j, b, n) = (u + b) - u
    BY <2>4, <2>5 DEF PartSize
  <2> QED
    BY <2>2, <2>6
<1> QED
  BY <1>1, <1>2

\* Parts of size c * b of t * b rows.
Multiples(n, size, t, c, b) ==
  b \in Nat \ {0} /\ c \in Nat \ {0} /\ t \in Nat /\ size = c * b /\ n = t * b

LEMMA PartsOfMultiples ==
  ASSUME NEW n, NEW size, NEW t, NEW c, NEW b, Multiples(n, size, t, c, b),
         NEW j \in 1 .. PartCount(n, size)
  PROVE  \E s \in Nat \ {0} : PartSize(j, size, n) = s * b
<1> USE DEF Multiples
<1>1. size \in Nat \ {0} /\ n \in Nat
  OBVIOUS
<1>2. /\ PartCount(n, size) \in Nat /\ (j - 1) * size \in Nat
      /\ PartSize(j, size, n) \in 1 .. size
  BY <1>1, PartEnds DEF PartSize
<1> DEFINE i == j - 1
           u == i * size
           d == i * c
<1>3. i \in Nat /\ j = i + 1
  BY <1>2
<1> HIDE DEF i
<1>4. u = d * b /\ d \in Nat /\ u \in Nat /\ j * size = u + size /\ (j - 1) * size = u
  BY <1>1, <1>3
<1> HIDE DEF u, d
<1>5. CASE u + size <= n
  <2>1. PartSize(j, size, n) = (u + size) - u
    BY <1>4, <1>5 DEF PartSize, PartEnd
  <2>2. PartSize(j, size, n) = c * b
    BY <1>1, <1>4, <2>1
  <2> QED
    BY <2>2
<1>6. CASE ~ (u + size <= n)
  <2>1. PartSize(j, size, n) = n - u
    BY <1>4, <1>6 DEF PartSize, PartEnd
  <2> DEFINE s == t - d
  <2>2. s \in Int /\ PartSize(j, size, n) = s * b
    BY <1>4, <2>1
  <2> HIDE DEF s
  <2>3. s * b > 0
    BY <1>2, <2>2
  <2>4. s > 0
    <3> SUFFICES ASSUME s <= 0 PROVE FALSE
      BY <2>2
    <3>1. s * b <= 0 * b
      BY <2>2, TimesMonotone
    <3> QED
      BY <2>2, <2>3, <3>1
  <2> QED
    BY <2>2, <2>4
<1> QED
  BY <1>1, <1>4, <1>5, <1>6

-----------------------------------------------------------------------------
\* Rows that are a number of full micro-batches; with Megatron, of one mini-batch.
Fits(m) ==
  /\ \E t \in Nat \ {0} : m = t * cfg.micro
  /\ cfg.megatron => m = LocalMini

LEMMA Cancel ==
  ASSUME NEW p \in Nat \ {0}, NEW a \in Nat, NEW b \in Nat, a * p = b * p
  PROVE  a = b
<1>1. a < b <=> a * p < b * p
  BY LessTimes
<1>2. b < a <=> b * p < a * p
  BY LessTimes
<1> DEFINE x == a * p
           y == b * p
<1>3. x \in Int /\ y \in Int /\ x = y
  OBVIOUS
<1> HIDE DEF x, y
<1>4. ~ (x < y) /\ ~ (y < x)
  BY <1>3
<1> QED
  BY <1>1, <1>2, <1>4 DEF x, y

\* The sizes of Megatron's mini-batches and micro-batches.
LEMMA MegatronSizes ==
  ASSUME cfg \in Configs, lens \in LenProfiles, cfg.megatron
  PROVE  /\ cfg.micro # 0 /\ \E q \in Nat \ {0} : LocalMini = q * cfg.micro
         /\ \E k \in Nat : RowCount \div DpSize = k * LocalMini
<1> DEFINE P == cfg.sp * cfg.pp
           D == DpSize
           M == cfg.mini
           b == cfg.micro
           n == RowCount
<1>1. /\ cfg.sp \in Nat \ {0} /\ cfg.pp \in Nat \ {0} /\ cfg.world \in Nat \ {0}
      /\ M \in Nat \ {0} /\ cfg.micro \in Nat /\ cfg.world % P = 0
  BY ConfigNumbers
<1>2. n % M = 0 /\ cfg.micro # 0 /\ (M * cfg.sp * cfg.pp) % (cfg.world * b) = 0
  BY MegatronAssumption DEF RowCount
<1>3. P \in Nat \ {0}
  BY <1>1
<1>4. D \in Nat \ {0} /\ cfg.world = D * P
  <2> DEFINE w == cfg.world
  <2>1. w \in Nat \ {0} /\ w % P = 0 /\ D = w \div P
    BY <1>1 DEF DpSize
  <2> HIDE DEF P, w, D
  <2> QED
    BY <1>3, <2>1, Share DEF w
<1>5. b \in Nat \ {0} /\ n \in Nat \ {0}
  BY <1>1, <1>2, LensType
<1>6. M * P = M * cfg.sp * cfg.pp
  <2> DEFINE s == cfg.sp
             t == cfg.pp
  <2>1. s \in Int /\ t \in Int /\ M \in Int
    BY <1>1
  <2> HIDE DEF s, t, M
  <2>2. M * (s * t) = M * s * t
    BY <2>1
  <2> QED
    BY <2>2 DEF s, t
<1>7. LocalMini = M \div D
  BY DEF LocalMini, DpSize
<1> HIDE DEF P, D, M, b, n
<1> DEFINE x == M * P
           y == cfg.world * b
           q == x \div y
<1>8. x \in Nat \ {0} /\ y \in Nat \ {0} /\ x % y = 0
  BY <1>1, <1>2, <1>3, <1>5, <1>6
<1>9. q \in Nat \ {0} /\ x = q * y
  <2> HIDE DEF x, y
  <2> QED
    BY <1>8, Share
<1> HIDE DEF q
<1>10. M * P = ((q * b) * D) * P
  <2>1. y = (D * P) * b
    BY <1>4
  <2>2. q * ((D * P) * b) = ((q * b) * D) * P
    BY <1>3, <1>4, <1>5, <1>9
  <2> QED
    BY <1>9, <2>1, <2>2
<1> DEFINE e == q * b
<1>11. e \in Nat \ {0}
  BY <1>5, <1>9
<1> HIDE DEF e
<1>12. M = e * D
  <2> DEFINE f == e * D
  <2>1. f \in Nat /\ M * P = f * P
    BY <1>4, <1>10, <1>11 DEF e
  <2> HIDE DEF f
  <2>2. M = f
    BY <1>1, <1>3, <2>1, Cancel
  <2> QED
    BY <2>2 DEF f
<1>13. LocalMini = e
  <2>1. (e * D + 0) \div D = e
    BY <1>4, <1>11, PlaceOf
  <2>2. e * D + 0 = M
    BY <1>1, <1>12
  <2> QED
    BY <1>7, <2>1, <2>2
<1> DEFINE k == n \div M
<1>14. n = k * M /\ k \in Nat
  <2>1. n % M = 0 /\ M \in Nat \ {0}
    BY <1>1, <1>2
  <2> QED
    BY <1>5, <2>1, Share
<1> HIDE DEF k
<1>15. n \div D = k * e
  <2> DEFINE f == k * e
  <2>1. f \in Nat /\ n = f * D
    BY <1>4, <1>11, <1>12, <1>14
  <2> HIDE DEF f
  <2>2. (f * D + 0) \div D = f
    BY <1>4, <2>1, PlaceOf
  <2>3. f * D + 0 = n
    BY <1>5, <2>1
  <2> QED
    BY <2>2, <2>3 DEF f
<1> QED
  BY <1>2, <1>9, <1>13, <1>14, <1>15 DEF e, b, n, D

-----------------------------------------------------------------------------
\* With fixed micro-batches all sizes are multiples of theirs.
LEMMA SizesFit ==
  ASSUME MicroBatchesFill, cfg \in Configs, lens \in LenProfiles, BatchOK(batch), cfg.micro # 0
  PROVE  /\ \E c \in Nat \ {0} : LocalMini = c * cfg.micro
         /\ \E t \in Nat : RowCount \div DpSize = t * cfg.micro
         /\ cfg.megatron => \E k \in Nat : RowCount \div DpSize = k * LocalMini
<1> DEFINE b == cfg.micro
           n == RowCount \div DpSize
           L == LocalMini
<1>1. b \in Nat \ {0} /\ n \in Nat \ {0} /\ L \in Nat \ {0}
  BY ConfigNumbers, RankRowsType, LocalMiniSize
<1>2. CASE cfg.megatron
  <2>1. PICK q \in Nat \ {0}, k \in Nat : L = q * b /\ n = k * L
    BY <1>2, MegatronSizes
  <2> HIDE DEF b, n, L
  <2>2. n = (k * q) * b /\ k * q \in Nat
    BY <1>1, <2>1
  <2> QED
    BY <1>2, <2>1, <2>2 DEF b, n, L
<1>3. CASE ~ cfg.megatron
  <2>1. L % b = 0 /\ n % b = 0
    BY <1>3 DEF MicroBatchesFill, LocalMini, DpSize, RowCount
  <2> HIDE DEF b, n, L
  <2>2. L \div b \in Nat \ {0} /\ L = (L \div b) * b
    BY <1>1, <2>1, Share
  <2>3. n \div b \in Nat \ {0} /\ n = (n \div b) * b
    BY <1>1, <2>1, Share
  <2> QED
    BY <1>3, <2>2, <2>3 DEF b, n, L
<1> QED
  BY <1>2, <1>3

LEMMA MinisFit ==
  ASSUME MicroBatchesFill, cfg \in Configs, lens \in LenProfiles, BatchOK(batch), cfg.micro # 0,
         NEW S, NEW w \in Seq(S), Len(w) = RowCount \div DpSize,
         NEW orders \in EpochOrders(Len(w)), NEW all, all = MiniBatches(w, orders)
  PROVE  \A p \in 1 .. Len(all) : Fits(Len(all[p]))
<1> DEFINE n == Len(w)
           E == cfg.epochs
           L == LocalMini
           k == PartCount(n, L)
           b == cfg.micro
           parts(e) == Split(Reorder(w, orders[e]), L)
           joined == [e \in 1 .. E |-> parts(e)]
<1>1. n \in Nat /\ E \in Nat \ {0} /\ L \in Nat \ {0} /\ b \in Nat \ {0}
  BY ConfigNumbers, LocalMiniSize
<1>2. k \in Nat
  BY <1>1, PartEnds
<1>3. /\ Joined(joined, E, k, Seq(S), all)
      /\ \A e \in 1 .. E : \A j \in 1 .. k : Len(parts(e)[j]) = PartSize(j, L, n)
  BY <1>1, MiniBatchesType
<1>4. PICK c \in Nat \ {0}, t \in Nat :
        L = c * b /\ n = t * b /\ (cfg.megatron => \E f \in Nat : n = f * L)
  BY SizesFit
<1> HIDE DEF n, L, k, b, parts
<1>5. ASSUME NEW j \in 1 .. k PROVE Fits(PartSize(j, L, n))
  <2>1. \E s \in Nat \ {0} : PartSize(j, L, n) = s * b
    <3>1. j \in 1 .. PartCount(n, L) /\ Multiples(n, L, t, c, b)
      BY <1>1, <1>4 DEF k, Multiples
    <3> QED
      BY <3>1, PartsOfMultiples
  <2>2. ASSUME cfg.megatron PROVE PartSize(j, L, n) = L
    <3>1. PICK f \in Nat : n = f * L
      BY <1>4, <2>2
    <3>2. PartCount(n, L) = f /\ \A i \in 1 .. f : PartSize(i, L, n) = L
      BY <1>1, <3>1, FullParts
    <3> QED
      BY <3>2 DEF k
  <2> QED
    BY <2>1, <2>2 DEF Fits, b, L
<1>6. \A p \in 1 .. E * k : HasPlace(p, E, k)
  <2> TAKE p \in 1 .. E * k
  <2> HIDE DEF E
  <2> QED
    BY <1>1, <1>2, Places
<1>7. ASSUME NEW p \in 1 .. Len(all) PROVE Fits(Len(all[p]))
  <2>1. p \in 1 .. E * k
    BY <1>3 DEF Joined
  <2>2. PICK e \in 1 .. E, j \in 1 .. k : (e - 1) * k + j = p
    BY <1>6, <2>1 DEF HasPlace
  <2>3. all[p] = parts(e)[j]
    BY <1>3, <2>2 DEF Joined
  <2>4. Len(all[p]) = PartSize(j, L, n)
    BY <1>3, <2>3
  <2> QED
    BY <1>5, <2>4
<1> QED
  BY <1>7

\* Fixed micro-batches of rows that fit them are full.
LEMMA MicrosFull ==
  ASSUME cfg \in Configs, cfg.micro # 0, NEW m, Fits(m),
         NEW micro, micro = Split(Positions(m), cfg.micro)
  PROVE  /\ m = Len(micro) * cfg.micro /\ Len(micro) \in Nat \ {0}
         /\ \A q \in 1 .. Len(micro) : Len(micro[q]) = cfg.micro
<1> DEFINE b == cfg.micro
<1>1. b \in Nat \ {0}
  BY ConfigNumbers
<1>2. PICK t \in Nat \ {0} : m = t * b
  BY DEF Fits
<1> HIDE DEF b
<1> DEFINE w == Positions(m)
           S == 1 .. m
<1>3. m \in Nat
  BY <1>1, <1>2
<1>4. w \in Seq(S) /\ Len(w) = m
  BY <1>3, PositionsType
<1> HIDE DEF w, S
<1>5. micro = Split(w, b)
  BY DEF w, b
<1>6. IsSplit(micro, w, b, S)
  BY <1>1, <1>4, <1>5, SplitType
<1>7. PartCount(m, b) = t /\ \A j \in 1 .. t : PartSize(j, b, m) = b
  BY <1>1, <1>2, FullParts
<1>8. Len(micro) = t /\ \A q \in 1 .. t : Len(micro[q]) = b
  BY <1>4, <1>6, <1>7 DEF IsSplit, PartSize
<1> QED
  BY <1>2, <1>8 DEF b

LEMMA Ratio ==
  ASSUME NEW u \in Nat, NEW x \in Nat \ {0}
  PROVE  (u * x) \div x = u
<1>1. (u * x + 0) \div x = u
  BY PlaceOf
<1> DEFINE y == u * x
<1>2. y \in Nat
  OBVIOUS
<1> HIDE DEF y
<1>3. y + 0 = y
  BY <1>2
<1> QED
  BY <1>1, <1>3 DEF y

\* Every row of a micro-batch weighs as much.
LEMMA WeightIsUnit ==
  ASSUME cfg \in Configs, job.call \in Updates, LocalMini \in Nat \ {0},
         cfg.micro # 0 => \E c \in Nat \ {0} : LocalMini = c * cfg.micro,
         NEW m \in Nat \ {0}, cfg.micro # 0 => Fits(m),
         \A s \in Ranks : MicroOK(job.micro[s], m, job.call),
         NEW r \in Ranks, NEW q \in 1 .. Len(job.micro[r])
  PROVE  RowWeight(Len(job.micro[r][q])) = Unit
<1> DEFINE L == LocalMini
           n == Len(job.micro[r][q])
           b == cfg.micro
<1>1. MicroSize(job.call) = b /\ (Dynamic(job.call) <=> b = 0) /\ b \in Nat
  BY ConfigNumbers DEF MicroSize, Dynamic
<1>2. Unit = 12
  BY DEF Unit
<1>3. CASE b = 0
  <2>1. ~ cfg.megatron
    BY <1>3, MegatronAssumption
  <2>2. LossScale(n) = <<n, L>>
    BY <1>1, <1>3, <2>1 DEF LossScale
  <2>3. n \in Nat \ {0}
    <3> DEFINE micro == job.micro[r]
    <3>1. PICK k : Covers(micro, m, k)
      BY <1>1, <1>3 DEF MicroOK
    <3>2. micro \in Seq(Seq(1 .. m)) /\ Len(micro) = k /\ \A j \in 1 .. k : micro[j] # <<>>
      BY <3>1 DEF Covers, Shares
    <3> HIDE DEF micro
    <3>3. micro[q] \in Seq(1 .. m) /\ micro[q] # <<>>
      BY <3>2, ElementOfSeq DEF micro
    <3>4. Len(micro[q]) \in Nat \ {0}
      BY <3>3
    <3> QED
      BY <3>4 DEF micro
  <2>4. RowWeight(n) = (12 * L * n) \div (n * L)
    <3> HIDE DEF n, L
    <3>1. LossScale(n)[1] = n /\ LossScale(n)[2] = L
      BY <2>2
    <3> QED
      BY <1>2, <3>1 DEF RowWeight, L
  <2> HIDE DEF n, L
  <2> DEFINE x == n * L
  <2>5. x \in Nat \ {0} /\ 12 * L * n = 12 * x
    BY <2>3 DEF L
  <2> HIDE DEF x
  <2>6. (12 * x) \div x = 12
    BY <2>5, Ratio
  <2> QED
    BY <1>2, <2>4, <2>5, <2>6 DEF x, n
<1>4. CASE b # 0
  <2> DEFINE full(s) == job.micro[s]
  <2>1. \A s \in Ranks : full(s) = Split(Positions(m), b)
    BY <1>1, <1>4 DEF MicroOK
  <2> DEFINE micro == Split(Positions(m), cfg.micro)
  <2>2. /\ m = Len(micro) * b /\ Len(micro) \in Nat \ {0}
        /\ \A j \in 1 .. Len(micro) : Len(micro[j]) = b
    <3>1. Fits(m)
      BY <1>4
    <3> QED
      BY <1>4, <3>1, MicrosFull
  <2>3. 0 \in Ranks
    BY AnyRank
  <2> DEFINE k == Len(micro)
  <2>4. job.micro[0] = micro /\ n = b /\ k \in Nat \ {0} /\ m = k * b
    BY <2>1, <2>2, <2>3
  <2> HIDE DEF micro, n, b
  <2>5. \E d \in Nat \ {0} : LossScale(n) = <<1, d>> /\ L = d * b
    <3>1. CASE cfg.megatron
      <4>1. m = L
        BY <1>4, <3>1 DEF Fits, b
      <4>2. LossScale(n) = <<1, Len(job.micro[0])>>
        BY <3>1 DEF LossScale
      <4> QED
        BY <2>4, <4>1, <4>2
    <3>2. CASE ~ cfg.megatron
      <4>1. LossScale(n) = <<1, L \div b>>
        BY <1>1, <1>4, <3>2 DEF LossScale, b
      <4>2. PICK d \in Nat \ {0} : L = d * b
        BY <1>4 DEF L, b
      <4>3. L \div b = d
        BY <1>1, <1>4, <4>2, Ratio
      <4> QED
        BY <4>1, <4>2, <4>3
    <3> QED
      BY <3>1, <3>2
  <2>6. PICK d \in Nat \ {0} : LossScale(n) = <<1, d>> /\ L = d * b
    BY <2>5
  <2>7. RowWeight(n) = (12 * L * 1) \div (n * d)
    <3>1. LossScale(n)[1] = 1 /\ LossScale(n)[2] = d
      BY <2>6
    <3> QED
      BY <1>2, <3>1 DEF RowWeight
  <2> HIDE DEF L
  <2>8. L \in Nat \ {0} /\ 12 * L * 1 = 12 * L /\ n * d = L
    <3>1. L \in Nat \ {0}
      BY DEF L
    <3>2. n * d = d * b
      BY <1>1, <2>4
    <3> QED
      BY <2>6, <3>1, <3>2
  <2>9. (12 * L) \div L = 12
    BY <2>8, Ratio
  <2> QED
    BY <1>2, <2>7, <2>8, <2>9 DEF n
<1> QED
  BY <1>3, <1>4

-----------------------------------------------------------------------------
(* The weights of the rows. *)

\* What a micro-batch on every rank adds to the weight of row i.
Gain(i) ==
  MapThenSumSet(LAMBDA rp : RowWeight(Len(job.micro[rp[1]][job.done + 1])), Occurrences(i))

LEMMA GainOf ==
  ASSUME NEW i, NEW S, S = Occurrences(i), IsFiniteSet(S),
         \A rp \in S : RowWeight(Len(job.micro[rp[1]][job.done + 1])) = Unit
  PROVE  /\ S = {} => Gain(i) = 0
         /\ \A x : S = {x} => Gain(i) = Unit
<1> DEFINE f == [rp \in S |-> Unit]
           weight(rp) == RowWeight(Len(job.micro[rp[1]][job.done + 1]))
           Gaining(g) ==
             g = [s \in SUBSET S |-> IF s = {} THEN 0
                                     ELSE weight(CHOOSE x \in s : TRUE)
                                            + g[s \ {CHOOSE x \in s : TRUE}]]
           chosen == CHOOSE g : Gaining(g)
<1>1. Gain(i) = chosen[S]
  BY DEF Gain, MapThenSumSet, MapThenFoldSet
<1>2. \A rp \in S : f[rp] = weight(rp) /\ f[rp] = Unit
  OBVIOUS
<1>3. Integral(f, S)
  BY <1>2 DEF Integral, Unit
<1> HIDE DEF f, weight
<1>4. ASSUME NEW g PROVE Gaining(g) <=> Adding(f, S, g)
  <2> DEFINE one(s) == CHOOSE x \in s : TRUE
             rest(s) == g[s \ {one(s)}]
  <2>1. \A s \in SUBSET S : s # {} => weight(one(s)) = f[one(s)]
    <3> TAKE s \in SUBSET S
    <3>1. s # {} => one(s) \in s
      OBVIOUS
    <3> HIDE DEF one
    <3> QED
      BY <1>2, <3>1
  <2>2. [s \in SUBSET S |-> IF s = {} THEN 0 ELSE weight(one(s)) + rest(s)]
          = [s \in SUBSET S |-> IF s = {} THEN 0 ELSE f[one(s)] + rest(s)]
    <3> HIDE DEF one, rest
    <3> QED
      BY <2>1
  <2> QED
    BY <2>2 DEF Adding
<1>5. Adding(f, S, chosen)
  <2>1. PICK g : Adding(f, S, g)
    BY <1>3, AddingExists
  <2> HIDE DEF Gaining
  <2>2. Gaining(g)
    BY <1>4, <2>1
  <2>3. Gaining(chosen)
    BY <2>2
  <2> HIDE DEF chosen
  <2> QED
    BY <1>4, <2>3
<1> HIDE DEF chosen
<1>6. SumOver(f, S) = chosen[S]
  BY <1>3, <1>5, AddingWithin
<1>7. S = {} => SumOver(f, S) = 0
  BY <1>3, SumType
<1>8. ASSUME NEW x, S = {x} PROVE SumOver(f, S) = Unit
  <2>1. Integral(f, S \ {x}) /\ SumOver(f, S) = f[x] + SumOver(f, S \ {x})
    BY <1>3, <1>8, SumTakeOut
  <2>2. SumOver(f, S \ {x}) = 0
    BY <1>8, <2>1, SumType
  <2>3. f[x] = Unit
    BY <1>2, <1>8
  <2> QED
    BY <2>1, <2>2, <2>3 DEF Unit
<1> QED
  BY <1>1, <1>6, <1>7, <1>8

\* Ranks with the same data parallel rank.
Twins(r, s) == TrainMesh.dpRank[r] = TrainMesh.dpRank[s]

LEMMA TwinRows ==
  ASSUME cfg \in Configs, lens \in LenProfiles, BatchOK(batch),
         NEW r \in Ranks, NEW s \in Ranks, Twins(r, s)
  PROVE  RankRows[r] = RankRows[s]
<1> DEFINE ids == IdsOf(batch)
           T == 1 .. RowCount
<1>1. ids \in Seq(T)
  BY LensType, IdsType
<1>2. WellMeshed(TrainMesh, DpSize) /\ DOMAIN TrainMesh.dpRank = Ranks
  BY TrainMeshed
<1>3. RankRows = DispatchNd(ids, TrainMesh)
  BY DEF RankRows
<1> HIDE DEF ids, T
<1>4. \A q \in Ranks : DispatchNd(ids, TrainMesh)[q] = Chunk(ids, DpSize)[TrainMesh.dpRank[q]]
  BY <1>1, <1>2, DispatchType
<1> QED
  BY <1>3, <1>4 DEF Twins

\* The weight row i has of the rows at hand of rank r.
Given(r, i) ==
  IF In(job.rows[r], i) /\ ~ Ahead(job.rows[r], job.micro[r], job.done, i) THEN Unit ELSE 0

TwinsAlike ==
  \A r, s \in Ranks : Twins(r, s) => job.minis[r] = job.minis[s] /\ job.rows[r] = job.rows[s]

SizesKept ==
  cfg.micro # 0 =>
    \A r \in Ranks :
      /\ \A p \in 1 .. Len(job.minis[r]) : Fits(Len(job.minis[r][p]))
      /\ job.rows[0] # <<>> => Fits(Len(job.rows[r]))

WeightsKept ==
  job.rows[0] # <<>> =>
    \A r \in TrainMesh.collect : \A i \in 1 .. RowCount :
      In(RankRows[r], i) => grad[i] = Given(r, i)

GradInv == job.call \in Updates => TwinsAlike /\ SizesKept /\ WeightsKept

LEMMA SameSizes ==
  ASSUME UNCHANGED <<cfg, lens, batch>>
  PROVE  /\ \A r, s : Twins(r, s)' <=> Twins(r, s)
         /\ \A m : Fits(m)' <=> Fits(m)
BY SameLayout DEF Twins, Fits

LEMMA GradQuiet ==
  ASSUME GradInv, UNCHANGED <<cfg, lens, batch, job, grad>>
  PROVE  GradInv'
<1>1. /\ Ranks' = Ranks /\ RowCount' = RowCount /\ TrainMesh' = TrainMesh /\ RankRows' = RankRows
      /\ (\A r, s : Twins(r, s)' <=> Twins(r, s)) /\ \A m : Fits(m)' <=> Fits(m)
  BY SameLayout, SameSizes
<1>2. TwinsAlike' <=> TwinsAlike
  BY <1>1 DEF TwinsAlike
<1>3. SizesKept' <=> SizesKept
  BY <1>1 DEF SizesKept
<1>4. ASSUME NEW r, NEW i PROVE Given(r, i)' = Given(r, i)
  BY DEF Given, Unit
<1>5. WeightsKept' <=> WeightsKept
  BY <1>1, <1>4 DEF WeightsKept
<1> QED
  BY <1>2, <1>3, <1>5 DEF GradInv

LEMMA GradStarted ==
  ASSUME MicroBatchesFill, FlowInv, DataInv, StartUpdate
  PROVE  GradInv'
<1>1. /\ UNCHANGED <<cfg, lens, batch>> /\ cfg \in Configs /\ lens \in LenProfiles
      /\ BatchOK(batch)
  BY DEF StartUpdate, FlowInv, DataInv
<1>2. /\ Ranks' = Ranks /\ RowCount' = RowCount /\ TrainMesh' = TrainMesh /\ RankRows' = RankRows
      /\ (\A r, s : Twins(r, s)' <=> Twins(r, s)) /\ \A m : Fits(m)' <=> Fits(m)
  BY <1>1, SameLayout, SameSizes
<1> DEFINE n == RowCount \div DpSize
<1>3. \A r \in Ranks : RankRows[r] \in Seq(1 .. RowCount) /\ Len(RankRows[r]) = n
  BY <1>1, RankRowsType
<1>4. 0 \in Ranks
  BY <1>1, AnyRank
<1>5. PICK orders \in EpochOrders(Len(RankRows[0])) :
        job' = [call |-> pc, minis |-> [r \in Ranks |-> MiniBatches(RankRows[r], orders)],
                rows |-> [r \in Ranks |-> <<>>], micro |-> [r \in Ranks |-> <<>>], done |-> 0]
  BY DEF StartUpdate
<1>6. \A r \in Ranks : job'.minis[r] = MiniBatches(RankRows[r], orders) /\ job'.rows[r] = <<>>
  BY <1>5
<1>7. orders \in EpochOrders(n)
  BY <1>3, <1>4, <1>5
<1> HIDE DEF n
<1>8. TwinsAlike'
  <2> SUFFICES ASSUME NEW r \in Ranks, NEW s \in Ranks, Twins(r, s)
               PROVE  job'.minis[r] = job'.minis[s] /\ job'.rows[r] = job'.rows[s]
    BY <1>2 DEF TwinsAlike
  <2>1. RankRows[r] = RankRows[s]
    BY <1>1, TwinRows
  <2> QED
    BY <1>6, <2>1
<1>9. ASSUME cfg.micro # 0, NEW r \in Ranks
      PROVE  \A p \in 1 .. Len(job'.minis[r]) : Fits(Len(job'.minis[r][p]))
  <2> DEFINE w == RankRows[r]
             S == 1 .. RowCount
             all == job'.minis[r]
  <2>1. w \in Seq(S) /\ Len(w) = n
    BY <1>3
  <2>2. all = MiniBatches(w, orders)
    BY <1>6
  <2> HIDE DEF w, S, all
  <2>3. orders \in EpochOrders(Len(w)) /\ Len(w) = RowCount \div DpSize
    BY <1>7, <2>1 DEF n
  <2> QED
    BY <1>1, <1>9, <2>1, <2>2, <2>3, MinisFit DEF all
<1>10. SizesKept'
  BY <1>1, <1>2, <1>4, <1>6, <1>9 DEF SizesKept
<1>11. WeightsKept'
  BY <1>4, <1>6 DEF WeightsKept
<1> QED
  BY <1>8, <1>10, <1>11 DEF GradInv

-----------------------------------------------------------------------------
\* What a mini-batch on hand has of its row is nothing before the first micro-batch.
LEMMA NothingDone ==
  ASSUME cfg \in Configs, NEW call \in Calls \cup Updates, NEW m \in Nat, NEW rows, Len(rows) = m,
         NEW micro, m # 0 => MicroOK(micro, m, call), NEW i
  PROVE  ~ (In(rows, i) /\ ~ Ahead(rows, micro, 0, i))
<1>1. CASE m = 0
  <2>1. 1 .. Len(rows) = {}
    BY <1>1
  <2> QED
    BY <2>1 DEF In
<1>2. CASE m # 0
  <2>1. PICK c : Covers(micro, m, c)
    BY <1>2, MicroCovers
  <2> QED
    BY <1>2, <2>1, AheadAll
<1> QED
  BY <1>1, <1>2

LEMMA GradNextMini ==
  ASSUME FlowInv, DataInv, StepsInv, RoundsInv, GradInv, BeginMiniBatch
  PROVE  GradInv'
<1>1. /\ UNCHANGED <<cfg, lens, batch, trained>> /\ cfg \in Configs /\ lens \in LenProfiles
      /\ BatchOK(batch) /\ job.call \in Updates /\ job.minis[0] # <<>> /\ grad' = ZeroGrad
  BY DEF BeginMiniBatch, FlowInv, DataInv, workerVars
<1>2. /\ Ranks' = Ranks /\ RowCount' = RowCount /\ TrainMesh' = TrainMesh /\ RankRows' = RankRows
      /\ (\A micro, m, call : MicroOK(micro, m, call)' <=> MicroOK(micro, m, call))
      /\ (\A r, s : Twins(r, s)' <=> Twins(r, s)) /\ \A m : Fits(m)' <=> Fits(m)
  BY <1>1, SameLayout, SameSizes
<1> DEFINE rows == [r \in Ranks |-> Head(job.minis[r])]
           left == [r \in Ranks |-> Tail(job.minis[r])]
           micro == MicroBatches(rows, job.call)
<1>3. /\ job'.call = job.call /\ job'.rows = rows /\ job'.micro = micro /\ job'.done = 0
      /\ job'.minis = left
  <2>1. job' = [job EXCEPT !.rows = rows, !.micro = micro, !.done = 0, !.minis = left]
    BY DEF BeginMiniBatch
  <2>2. IsUpdating(job)
    BY <1>1, OneAtATime
  <2> HIDE DEF rows, micro, left
  <2> QED
    BY <2>1, <2>2 DEF IsUpdating
<1>4. \A r \in Ranks : rows[r] = Head(job.minis[r]) /\ left[r] = Tail(job.minis[r])
  OBVIOUS
<1> HIDE DEF rows, left, micro
<1>5. TwinsAlike'
  <2> SUFFICES ASSUME NEW r \in Ranks, NEW s \in Ranks, Twins(r, s)
               PROVE  job'.minis[r] = job'.minis[s] /\ job'.rows[r] = job'.rows[s]
    BY <1>2 DEF TwinsAlike
  <2>1. job.minis[r] = job.minis[s]
    BY <1>1 DEF GradInv, TwinsAlike
  <2> QED
    BY <1>3, <1>4, <2>1
<1>6. ASSUME cfg.micro # 0, NEW r \in Ranks
      PROVE  /\ \A p \in 1 .. Len(left[r]) : Fits(Len(left[r][p]))
             /\ Fits(Len(rows[r]))
  <2> DEFINE minis == job.minis[r]
             T == Seq(1 .. RowCount)
             n == Len(minis)
  <2>1. minis \in Seq(T) /\ n \in Nat \ {0}
    <3>1. PICK sizes \in Seq(Nat \ {0}) : \A s \in Ranks : Sized(job.minis[s], sizes)
      BY <1>1 DEF StepsInv
    <3>2. /\ Len(job.minis[0]) = Len(sizes) /\ job.minis[0] \in Seq(T)
          /\ Len(minis) = Len(sizes) /\ minis \in Seq(T)
      BY <1>1, <3>1, AnyRank DEF Sized
    <3> HIDE DEF T
    <3> QED
      BY <1>1, <3>2
  <2>2. \A p \in 1 .. n : Fits(Len(minis[p]))
    BY <1>1, <1>6 DEF GradInv, SizesKept
  <2>3. rows[r] = Head(minis) /\ left[r] = Tail(minis)
    BY <1>4
  <2> HIDE DEF minis, T
  <2>4. rows[r] = minis[1] /\ Len(left[r]) = n - 1 /\ \A p \in 1 .. n - 1 : left[r][p] = minis[p + 1]
    BY <2>1, <2>3
  <2> HIDE DEF n
  <2>5. 1 \in 1 .. n /\ \A p \in 1 .. n - 1 : p + 1 \in 1 .. n
    BY <2>1
  <2> QED
    BY <2>2, <2>4, <2>5
<1>7. SizesKept'
  BY <1>1, <1>2, <1>3, <1>6 DEF SizesKept
<1>8. RoundsInv'
  BY RoundsNextMini
<1>9. WeightsKept'
  <2> SUFFICES ASSUME NEW r \in TrainMesh.collect, NEW i \in 1 .. RowCount
               PROVE  grad'[i] = Given(r, i)'
    BY <1>2 DEF WeightsKept
  <2>1. grad'[i] = 0
    BY <1>1, LensType DEF ZeroGrad
  <2>2. PICK m \in Nat : \A s \in Ranks : AtHand(s, m)'
    BY <1>1, <1>2, <1>3, <1>8 DEF RoundsInv
  <2>3. r \in Ranks
    BY <1>1, CollectsOnce
  <2>4. Len(rows[r]) = m /\ (m # 0 => MicroOK(micro[r], m, job.call))
    BY <1>2, <1>3, <2>2, <2>3 DEF AtHand
  <2>5. ~ (In(rows[r], i) /\ ~ Ahead(rows[r], micro[r], 0, i))
    <3> DEFINE w == rows[r]
               u == micro[r]
               call == job.call
    <3>1. call \in Calls \cup Updates /\ Len(w) = m /\ (m # 0 => MicroOK(u, m, call))
      BY <1>1, <2>4
    <3> HIDE DEF w, u, call
    <3>2. ~ (In(w, i) /\ ~ Ahead(w, u, 0, i))
      BY <1>1, <3>1, NothingDone
    <3> QED
      BY <3>2 DEF w, u
  <2> QED
    BY <1>3, <2>1, <2>5 DEF Given
<1> QED
  BY <1>5, <1>7, <1>9 DEF GradInv

\* After the optimizer step no row is at hand.
LEMMA GradStepped ==
  ASSUME FlowInv, GradInv, OptimizerStep
  PROVE  GradInv'
<1>1. /\ UNCHANGED <<cfg, lens, batch>> /\ job.call \in Updates /\ job'.minis = job.minis
      /\ job'.rows = [r \in Ranks |-> <<>>]
  BY MinisKept
<1>2. /\ Ranks' = Ranks /\ (\A r, s : Twins(r, s)' <=> Twins(r, s)) /\ \A m : Fits(m)' <=> Fits(m)
  BY <1>1, SameLayout, SameSizes
<1>3. (\A r \in Ranks : job'.rows[r] = <<>>) /\ 0 \in Ranks
  BY <1>1, AnyRank DEF FlowInv
<1>4. TwinsAlike'
  <2> SUFFICES ASSUME NEW r \in Ranks, NEW s \in Ranks, Twins(r, s)
               PROVE  job'.minis[r] = job'.minis[s] /\ job'.rows[r] = job'.rows[s]
    BY <1>2 DEF TwinsAlike
  <2>1. job.minis[r] = job.minis[s]
    BY <1>1 DEF GradInv, TwinsAlike
  <2> QED
    BY <1>1, <1>3, <2>1
<1>5. SizesKept'
  <2> SUFFICES ASSUME cfg.micro # 0, NEW r \in Ranks, NEW p \in 1 .. Len(job.minis[r])
               PROVE  Fits(Len(job.minis[r][p]))
    BY <1>1, <1>2, <1>3 DEF SizesKept
  <2> QED
    BY <1>1 DEF GradInv, SizesKept
<1>6. WeightsKept'
  BY <1>3 DEF WeightsKept
<1> QED
  BY <1>4, <1>5, <1>6 DEF GradInv

-----------------------------------------------------------------------------
\* Each row of the micro-batches that all ranks are at weighs as much.
LEMMA WeighsAlike ==
  ASSUME MicroBatchesFill, FlowInv, DataInv, StepsInv, RoundsInv, GradInv, ForwardBackward,
         NEW r \in Ranks
  PROVE  RowWeight(Len(job.micro[r][job.done + 1])) = Unit
<1>1. /\ cfg \in Configs /\ lens \in LenProfiles /\ BatchOK(batch) /\ job.call \in Updates
      /\ AllRanksAtMicroBatch /\ job.rows[0] # <<>> /\ job.done \in Nat
  BY DEF ForwardBackward, FlowInv, DataInv, StepsInv
<1>2. PICK m \in Nat : \A s \in Ranks : AtHand(s, m)
  BY <1>1 DEF RoundsInv
<1>3. 0 \in Ranks /\ LocalMini \in Nat \ {0}
  BY <1>1, AnyRank, LocalMiniSize
<1>4. m # 0
  BY <1>1, <1>2, <1>3 DEF AtHand
<1>5. \A s \in Ranks : MicroOK(job.micro[s], m, job.call)
  BY <1>2, <1>4 DEF AtHand
<1>6. cfg.micro # 0 => Fits(m)
  BY <1>1, <1>2, <1>3 DEF AtHand, GradInv, SizesKept
<1>7. cfg.micro # 0 => \E c \in Nat \ {0} : LocalMini = c * cfg.micro
  BY <1>1, SizesFit
<1> DEFINE micro == job.micro[r]
           q == job.done + 1
<1>8. q \in 1 .. Len(micro)
  <2>1. MicroOK(micro, m, job.call)
    BY <1>5
  <2>2. job.done < Len(micro)
    BY <1>1 DEF AllRanksAtMicroBatch
  <2> HIDE DEF micro
  <2>3. PICK k : Covers(micro, m, k)
    BY <1>1, <1>4, <2>1, MicroCovers
  <2>4. Len(micro) \in Nat
    BY <2>3 DEF Covers, Shares
  <2> QED
    BY <1>1, <2>2, <2>4
<1> QED
  BY <1>1, <1>3, <1>4, <1>5, <1>6, <1>7, <1>8, WeightIsUnit

\* What the micro-batches add to a row: its weight, when it is in one of them.
LEMMA GainOnce ==
  ASSUME MicroBatchesFill, FlowInv, DataInv, StepsInv, RoundsInv, GradInv, ForwardBackward,
         NEW r \in TrainMesh.collect, NEW i \in 1 .. RowCount, In(RankRows[r], i)
  PROVE  Gain(i) = IF At(job.rows[r], job.micro[r][job.done + 1], i) THEN Unit ELSE 0
<1> DEFINE S == Occurrences(i)
           now == At(job.rows[r], job.micro[r][job.done + 1], i)
<1>1. \A rp \in S : RowWeight(Len(job.micro[rp[1]][job.done + 1])) = Unit
  <2> TAKE rp \in S
  <2>1. rp[1] \in Ranks
    BY DEF Occurrences
  <2> QED
    BY <2>1, WeighsAlike
<1>2. OnlyAt(i, r)
  BY OccursOnce
<1>3. CASE now
  <2>1. PICK p : S = {<<r, p>>}
    BY <1>2, <1>3 DEF OnlyAt
  <2>2. IsFiniteSet(S)
    BY <2>1, FS_Singleton
  <2>3. \A x : S = {x} => Gain(i) = Unit
    BY <1>1, <2>2, GainOf
  <2> QED
    BY <1>3, <2>1, <2>3
<1>4. CASE ~ now
  <2>1. S = {}
    BY <1>2, <1>4 DEF OnlyAt
  <2>2. IsFiniteSet(S)
    BY <2>1, FS_EmptySet
  <2>3. S = {} => Gain(i) = 0
    BY <1>1, <2>2, GainOf
  <2> QED
    BY <1>4, <2>1, <2>3
<1> QED
  BY <1>3, <1>4

\* A micro-batch on every rank: its rows have their weight.
LEMMA GradTrained ==
  ASSUME MicroBatchesFill, FlowInv, DataInv, StepsInv, RoundsInv, GradInv, ForwardBackward
  PROVE  GradInv'
<1>1. /\ UNCHANGED <<cfg, lens, batch>> /\ job'.call = job.call /\ job.call \in Updates
      /\ job'.minis = job.minis /\ job'.rows = job.rows /\ job'.micro = job.micro
      /\ job'.done = job.done + 1
  BY MinisKept
<1>2. /\ cfg \in Configs /\ lens \in LenProfiles /\ BatchOK(batch)
      /\ AllRanksAtMicroBatch /\ job.rows[0] # <<>> /\ job.done \in Nat
      /\ grad' = [i \in Ids |-> grad[i] + Gain(i)]
  BY <1>1 DEF ForwardBackward, FlowInv, DataInv, StepsInv, Gain
<1>3. /\ Ranks' = Ranks /\ RowCount' = RowCount /\ TrainMesh' = TrainMesh /\ RankRows' = RankRows
      /\ (\A r, s : Twins(r, s)' <=> Twins(r, s)) /\ \A m : Fits(m)' <=> Fits(m)
  BY <1>1, SameLayout, SameSizes
<1>4. TwinsAlike'
  BY <1>1, <1>3 DEF GradInv, TwinsAlike
<1>5. SizesKept'
  BY <1>1, <1>3 DEF GradInv, SizesKept
<1>6. PICK m \in Nat : \A r \in Ranks : AtHand(r, m)
  BY <1>1 DEF RoundsInv
<1>7. Ids = 1 .. RowCount /\ 0 \in Ranks
  BY <1>2, LensType, AnyRank
<1>8. m # 0
  BY <1>2, <1>6, <1>7 DEF AtHand
<1>9. WeightsKept'
  <2> SUFFICES ASSUME NEW r \in TrainMesh.collect, NEW i \in 1 .. RowCount, In(RankRows[r], i)
               PROVE  grad'[i] = Given(r, i)'
    BY <1>1, <1>3 DEF WeightsKept
  <2>1. r \in Ranks
    BY <1>2, CollectsOnce
  <2> DEFINE rows == job.rows[r]
             micro == job.micro[r]
             call == job.call
             d == job.done
             now == At(rows, micro[d + 1], i)
  <2>2. PICK k : Covers(micro, m, k)
    <3>1. MicroOK(micro, m, call) /\ call \in Calls \cup Updates
      BY <1>1, <1>6, <1>8, <2>1 DEF AtHand
    <3> HIDE DEF micro, call
    <3> QED
      BY <1>2, <1>8, <3>1, MicroCovers
  <2>3. d \in Nat /\ d < Len(micro) /\ Len(rows) = m /\ Distinct(rows)
    BY <1>2, <1>6, <2>1 DEF AllRanksAtMicroBatch, AtHand, Within
  <2>4. grad'[i] = grad[i] + (IF now THEN Unit ELSE 0)
    BY <1>2, <1>7, GainOnce
  <2>5. grad[i] = Given(r, i)
    BY <1>1, <1>2 DEF GradInv, WeightsKept
  <2>6. now => In(rows, i)
    <3>1. ASSUME NEW a \in 1 .. Len(micro[d + 1]) PROVE micro[d + 1][a] \in 1 .. Len(rows)
      <4> DEFINE part == micro[d + 1]
      <4>1. d + 1 \in 1 .. Len(micro) /\ micro \in Seq(Seq(1 .. m))
        <5>1. micro \in Seq(Seq(1 .. m))
          BY <2>2 DEF Covers, Shares
        <5> HIDE DEF micro, d
        <5>2. Len(micro) \in Nat
          BY <5>1
        <5> QED
          BY <2>3, <5>1, <5>2
      <4>2. part \in Seq(1 .. m)
        <5> HIDE DEF micro
        <5> QED
          BY <4>1, ElementOfSeq
      <4> HIDE DEF part, rows
      <4>3. a \in 1 .. Len(part)
        BY DEF part
      <4>4. part[a] \in 1 .. m
        BY <4>2, <4>3, ElementOfSeq
      <4> QED
        BY <2>3, <4>4 DEF part
    <3> HIDE DEF rows, micro, d
    <3> QED
      BY <3>1 DEF At, In, now
  <2>7. /\ Given(r, i) = IF In(rows, i) /\ ~ Ahead(rows, micro, d, i) THEN Unit ELSE 0
        /\ Given(r, i)' = IF In(rows, i) /\ ~ Ahead(rows, micro, d + 1, i) THEN Unit ELSE 0
    BY <1>1 DEF Given, Unit
  <2> HIDE DEF rows, micro, d
  <2>8. /\ Ahead(rows, micro, d, i) <=> now \/ Ahead(rows, micro, d + 1, i)
        /\ ~ (now /\ Ahead(rows, micro, d + 1, i))
    BY <2>2, <2>3, AheadStep
  <2> HIDE DEF now
  <2> QED
    BY <2>4, <2>5, <2>6, <2>7, <2>8 DEF Unit
<1> QED
  BY <1>4, <1>5, <1>9 DEF GradInv

-----------------------------------------------------------------------------
LEMMA GradStep ==
  MicroBatchesFill /\ FlowInv /\ DataInv /\ StepsInv /\ RoundsInv /\ GradInv /\ [Next]_vars => GradInv'
<1> SUFFICES ASSUME MicroBatchesFill, FlowInv, DataInv, StepsInv, RoundsInv, GradInv, [Next]_vars,
                    job'.call \in Updates
             PROVE  GradInv'
  BY DEF GradInv
<1> QED
  BY OnlyTrains, GradQuiet, GradStarted, GradNextMini, GradTrained, GradStepped

\* At the optimizer step the rows of the mini-batch, on whatever rank, have their weight.
LEMMA GradDue ==
  ASSUME FlowInv, DataInv, StepsInv, RoundsInv, GradInv
  PROVE  EqualWeights
<1> SUFFICES ASSUME job.call \in Updates, job.rows[0] # <<>>, AllRanksFinished, NEW i \in Ids
             PROVE  grad[i] = IF \E r \in Ranks : i \in ToSet(job.rows[r]) THEN Unit ELSE 0
  BY DEF EqualWeights
<1>1. cfg \in Configs /\ lens \in LenProfiles /\ BatchOK(batch) /\ job.done \in Nat
  BY DEF FlowInv, DataInv, StepsInv
<1>2. i \in 1 .. RowCount /\ 0 \in Ranks
  BY <1>1, LensType, AnyRank
<1>3. PICK r \in TrainMesh.collect : r \in Ranks /\ HeldBy(i, TrainMesh.dpRank[r])
  BY <1>1, <1>2, HomeOf
<1>4. In(RankRows[r], i)
  BY <1>3 DEF HeldBy
<1>5. grad[i] = Given(r, i)
  BY <1>2, <1>4 DEF GradInv, WeightsKept
<1>6. ~ Ahead(job.rows[r], job.micro[r], job.done, i)
  <2>1. job.done = Len(job.micro[r])
    BY <1>3 DEF AllRanksFinished
  <2>2. job.done + 1 .. job.done = {}
    BY <1>1
  <2> QED
    BY <2>1, <2>2 DEF Ahead
<1>7. PICK m \in Nat : \A s \in Ranks : AtHand(s, m)
  BY DEF RoundsInv
<1>8. ASSUME NEW s \in Ranks PROVE i \in ToSet(job.rows[s]) <=> In(job.rows[s], i)
  <2> DEFINE w == job.rows[s]
  <2>1. w \in Seq(1 .. RowCount)
    BY <1>7 DEF AtHand
  <2> HIDE DEF w
  <2>2. i \in ToSet(w) <=> In(w, i)
    BY <2>1 DEF ToSet, In
  <2> QED
    BY <2>2 DEF w
<1>9. ASSUME NEW s \in Ranks, In(job.rows[s], i) PROVE In(job.rows[r], i)
  <2>1. In(RankRows[s], i)
    BY <1>7, <1>9 DEF AtHand, Within
  <2>2. Twins(s, r)
    BY <1>3, <2>1 DEF HeldBy, Twins
  <2>3. job.rows[s] = job.rows[r]
    BY <1>3, <2>2 DEF GradInv, TwinsAlike
  <2> QED
    BY <1>9, <2>3
<1>10. (\E s \in Ranks : i \in ToSet(job.rows[s])) <=> In(job.rows[r], i)
  BY <1>3, <1>8, <1>9
<1> QED
  BY <1>5, <1>6, <1>10 DEF Given

(* When a worker steps its optimizer, every row of the mini-batch has the  *)
(* same weight in the gradient and no other row has any, for any batch,    *)
(* layout and balance of micro-batches, dynamic ones too: the factors      *)
(* fsdp_workers.py and Megatron's schedule put on the loss of a            *)
(* micro-batch undo the means, so long as fixed micro-batches are full.    *)
THEOREM WeightsAreEqual ==
  ASSUME MicroBatchesFill
  PROVE  Spec => []EqualWeights
<1> DEFINE Inv == FlowInv /\ RaisedInv /\ DataInv /\ StepsInv /\ RoundsInv /\ GradInv
<1>1. Init => Inv
  <2>1. Init => job.call \notin Updates
    BY DEF Init, NoJob, Updates
  <2> QED
    BY <2>1, FlowInit, DataInit, StepsInit DEF Init, RaisedInv, RoundsInv, GradInv
<1>2. Inv /\ [Next]_vars => Inv'
  BY FlowStep, RaisedStep, DataStep, StepsStep, RoundsStep, GradStep
<1>3. Inv => EqualWeights
  BY GradDue
<1> QED
  BY <1>1, <1>2, <1>3, PTL DEF Spec

-----------------------------------------------------------------------------
(* The scores. *)

\* The chunks of embeddings, put together again, are those of all rows in order.
LEMMA EmbedRewardsIs ==
  ASSUME NEW n \in Nat, NEW sims, Len(sims) = n, NEW gts, NEW predicted
  PROVE  EmbedRewards(sims, gts, predicted)
           = [i \in 1 .. n |-> SimToReward(Calibrated(sims[i], gts[i], predicted[i]))]
<1> DEFINE score(i) == SimToReward(Calibrated(sims[i], gts[i], predicted[i]))
           w == [i \in 1 .. n |-> score(i)]
           S == {score(i) : i \in 1 .. n}
           size == ScoreChunk
           k == PartCount(n, size)
           chunk(c) == [a \in 1 .. Min({size, n - (c - 1) * size}) |-> score((c - 1) * size + a)]
           parts == Split(w, size)
<1>1. size \in Nat \ {0}
  BY StatsAssumption
<1>2. EmbedRewards(sims, gts, predicted) = FlattenSeq([c \in 1 .. k |-> chunk(c)])
  BY DEF EmbedRewards, PartCount
<1> HIDE DEF score, chunk
<1>3. w \in [1 .. n -> S] /\ \A i \in 1 .. n : w[i] = score(i)
  OBVIOUS
<1>4. w \in Seq(S) /\ Len(w) = n
  BY <1>3
<1> HIDE DEF w, S, parts, size
<1>5. IsSplit(parts, w, size, S)
  BY <1>1, <1>4, SplitType DEF parts
<1>6. /\ parts = [c \in 1 .. k |-> parts[c]] /\ k \in Nat
      /\ \A c \in 1 .. k : /\ parts[c] \in Seq(S)
                           /\ Len(parts[c]) = PartEnd(c, size, n) - (c - 1) * size
                           /\ \A a \in 1 .. Len(parts[c]) : parts[c][a] = w[(c - 1) * size + a]
  BY <1>1, <1>4, <1>5, PartEnds DEF IsSplit
<1>7. ASSUME NEW c \in 1 .. k PROVE chunk(c) = parts[c]
  <2> DEFINE from == (c - 1) * size
             m == Min({size, n - from})
  <2>1. /\ from \in Nat /\ from < n /\ PartEnd(c, size, n) \in from + 1 .. n
        /\ PartEnd(c, size, n) = IF c * size <= n THEN c * size ELSE n
    BY <1>1, PartEnds DEF k, PartEnd
  <2>2. c * size = from + size
    BY <1>1, <1>6
  <2> HIDE DEF from, k
  <2>3. m = PartEnd(c, size, n) - from
    <3>1. n - from \in Nat
      BY <2>1
    <3>2. m = IF size <= n - from THEN size ELSE n - from
      BY <1>1, <3>1, MinOfTwo
    <3> HIDE DEF m
    <3>3. CASE from + size <= n
      BY <1>1, <2>1, <2>2, <3>2, <3>3
    <3>4. CASE ~ (from + size <= n)
      BY <1>1, <2>1, <2>2, <3>2, <3>4
    <3> QED
      BY <3>3, <3>4
  <2>4. chunk(c) = [a \in 1 .. m |-> score(from + a)]
    BY DEF chunk, from
  <2> HIDE DEF m
  <2>5. parts[c] \in Seq(S) /\ Len(parts[c]) = m /\ \A a \in 1 .. m : parts[c][a] = w[from + a]
    BY <1>6, <2>3 DEF from
  <2>6. \A a \in 1 .. m : w[from + a] = score(from + a)
    <3> TAKE a \in 1 .. m
    <3>1. from + a \in 1 .. n
      BY <2>1, <2>3
    <3> QED
      BY <1>3, <3>1
  <2>7. parts[c] = [a \in 1 .. m |-> parts[c][a]]
    BY <2>5
  <2> QED
    BY <2>4, <2>5, <2>6, <2>7
<1>8. [c \in 1 .. k |-> chunk(c)] = parts
  <2> HIDE DEF k
  <2> QED
    BY <1>6, <1>7
<1>9. FlattenSeq(parts) = w
  BY <1>1, <1>4, SplitFlattens DEF parts
<1> QED
  BY <1>2, <1>8, <1>9 DEF w, score

\* The average similarity of all pairs is a number.
LEMMA MuRefType == MuRef \in Int
<1> DEFINE D == DOMAIN PairStats
           f == [p \in D |-> PairStats[p].count * PairStats[p].mean]
           h == [p \in D |-> PairStats[p].count]
           Weighing(g) ==
             g = [s \in SUBSET D |-> IF s = {} THEN 0
                                     ELSE PairStats[CHOOSE x \in s : TRUE].count
                                            * PairStats[CHOOSE x \in s : TRUE].mean
                                            + g[s \ {CHOOSE x \in s : TRUE}]]
           Counting(g) ==
             g = [s \in SUBSET D |-> IF s = {} THEN 0
                                     ELSE PairStats[CHOOSE x \in s : TRUE].count
                                            + g[s \ {CHOOSE x \in s : TRUE}]]
           weighed == CHOOSE g : Weighing(g)
           counted == CHOOSE g : Counting(g)
<1>1. MuRef = weighed[D] \div counted[D]
  BY DEF MuRef, MapThenSumSet, MapThenFoldSet
<1>2. IsFiniteSet(D) /\ D # {}
      /\ \A p \in D : PairStats[p].count \in Nat \ {0} /\ PairStats[p].mean \in Int
  BY StatsAssumption
<1>3. \A p \in D : /\ f[p] = PairStats[p].count * PairStats[p].mean /\ f[p] \in Int
                   /\ h[p] = PairStats[p].count /\ h[p] \in Int /\ 1 <= h[p]
  BY <1>2
<1> HIDE DEF D, f, h
<1>4. Integral(f, D) /\ Integral(h, D)
  BY <1>2, <1>3 DEF Integral
<1>5. \A s \in SUBSET D : s # {} => (CHOOSE x \in s : TRUE) \in D
  OBVIOUS
<1>6. ASSUME NEW g PROVE Weighing(g) <=> Adding(f, D, g)
  BY <1>3, <1>5 DEF Adding
<1>7. ASSUME NEW g PROVE Counting(g) <=> Adding(h, D, g)
  BY <1>3, <1>5 DEF Adding
<1>8. Adding(f, D, weighed)
  <2>1. PICK g : Adding(f, D, g)
    BY <1>4, AddingExists
  <2> HIDE DEF Weighing
  <2>2. Weighing(g)
    BY <1>6, <2>1
  <2>3. Weighing(weighed)
    BY <2>2
  <2> HIDE DEF weighed
  <2> QED
    BY <1>6, <2>3
<1>9. Adding(h, D, counted)
  <2>1. PICK g : Adding(h, D, g)
    BY <1>4, AddingExists
  <2> HIDE DEF Counting
  <2>2. Counting(g)
    BY <1>7, <2>1
  <2>3. Counting(counted)
    BY <2>2
  <2> HIDE DEF counted
  <2> QED
    BY <1>7, <2>3
<1> HIDE DEF weighed, counted, Weighing, Counting
<1>10. weighed[D] \in Int /\ counted[D] = SumOver(h, D) /\ SumOver(h, D) \in Int
  BY <1>4, <1>8, <1>9, AddingWithin, SumType
<1>11. SumOver(h, D) >= 1
  <2>1. Cardinality(D) \in Nat \ {0}
    BY <1>2, FS_CardinalityType, FS_EmptySet
  <2> DEFINE least == [x \in D |-> 1]
             T == {h[x] : x \in D}
             hi == Max(T)
  <2>2. T \subseteq Int /\ T # {} /\ IsFiniteSet(T)
    <3>1. T \subseteq Int /\ T # {}
      BY <1>2, <1>3
    <3>2. IsFiniteSet(T)
      BY <1>2, FiniteImage
    <3> QED
      BY <3>1, <3>2
  <2>3. hi \in Int /\ \A x \in D : h[x] <= hi
    <3>1. Max(T) \in T /\ \A y \in T : y <= Max(T)
      BY <2>2, GreatestOf
    <3> QED
      BY <2>2, <3>1
  <2> HIDE DEF hi
  <2>4. 1 * Cardinality(D) <= SumOver(h, D)
    BY <1>3, <1>4, <2>3, SumWithin
  <2> QED
    BY <1>10, <2>1, <2>4
<1> QED
  BY <1>1, <1>10, <1>11

-----------------------------------------------------------------------------
\* A pair with statistics is corrected by how far its mean is from that of all pairs.
LEMMA CorrectedBy ==
  ASSUME NEW raw \in Int, NEW gt, NEW resp, {gt, resp} \in DOMAIN PairStats
  PROVE  /\ PairStats[{gt, resp}].mean \in Int
         /\ Calibrated(raw, gt, resp)
              = Clamp(raw - (PairStats[{gt, resp}].mean - MuRef), -SimUnit, SimUnit)
<1> DEFINE row == PairStats[{gt, resp}]
           c == row.count
           x == row.mean - MuRef
<1>1. c \in Nat \ {0} /\ row.mean \in Int /\ MuRef \in Int
  BY StatsAssumption, MuRefType
<1>2. x \in Int
  BY <1>1
<1>3. Calibrated(raw, gt, resp) = Clamp(raw - (c * x) \div (c + KShrink), -SimUnit, SimUnit)
  BY DEF Calibrated
<1>4. c + KShrink = c
  BY <1>1 DEF KShrink
<1> HIDE DEF c, x
<1>5. (c * x) \div c = x
  <2> DEFINE a == c * x
  <2>1. a \in Int /\ a = x * c /\ x * c <= a /\ a <= x * c
    BY <1>1, <1>2
  <2> HIDE DEF a
  <2>2. a \div c \in x .. x
    BY <1>1, <1>2, <2>1, QuotientWithin
  <2> QED
    BY <1>2, <2>2 DEF a
<1> QED
  BY <1>1, <1>3, <1>4, <1>5 DEF x

(* The score of response i, whatever batch it is scored in.                *)
FairScore(i) ==
  LET r == Responses[i]
  IN  IF LanguageMatches(r.appears, r.asked) THEN SimToReward(Calibrated(r.sim, r.truth, r.appears))
                                             ELSE 0

LEMMA ScoreBatchIs ==
  ASSUME NEW n \in Nat, NEW sims, Len(sims) = n, NEW gts, NEW predicted, NEW targets
  PROVE  ScoreBatch(sims, gts, predicted, targets)
           = [i \in 1 .. n |->
               IF LanguageMatches(predicted[i], targets[i])
                 THEN SimToReward(Calibrated(sims[i], gts[i], predicted[i])) ELSE 0]
<1> DEFINE embed == EmbedRewards(sims, gts, predicted)
<1>1. \A i \in 1 .. n : embed[i] = SimToReward(Calibrated(sims[i], gts[i], predicted[i]))
  <2>1. embed = [i \in 1 .. n |-> SimToReward(Calibrated(sims[i], gts[i], predicted[i]))]
    BY EmbedRewardsIs
  <2> HIDE DEF embed
  <2> QED
    BY <2>1
<1>2. ScoreBatch(sims, gts, predicted, targets)
        = [i \in 1 .. n |-> IF LanguageMatches(predicted[i], targets[i]) THEN embed[i] ELSE 0]
  BY DEF ScoreBatch
<1> HIDE DEF embed
<1> QED
  BY <1>1, <1>2

\* Equal similarity above the average of the pair of languages, equal score.
LEMMA AlikeScored ==
  ASSUME NEW i \in DOMAIN Responses, NEW j \in DOMAIN Responses, Calibratable(i), Calibratable(j),
         Excess(i) = Excess(j)
  PROVE  FairScore(i) = FairScore(j)
<1> DEFINE row(k) == PairStats[{Responses[k].truth, Responses[k].appears}]
           at(k) == Responses[k].sim - (row(k).mean - MuRef)
<1>1. ASSUME NEW k \in DOMAIN Responses, Calibratable(k)
      PROVE  /\ FairScore(k) = SimToReward(Clamp(at(k), -SimUnit, SimUnit))
             /\ at(k) = Excess(k) + MuRef /\ Excess(k) \in Int
  <2> DEFINE r == Responses[k]
  <2>1. LanguageMatches(r.appears, r.asked) /\ {r.truth, r.appears} \in DOMAIN PairStats
    BY <1>1 DEF Calibratable
  <2>2. r.sim \in Int
    BY ResponsesAssumption
  <2>3. /\ row(k).mean \in Int
        /\ Calibrated(r.sim, r.truth, r.appears) = Clamp(at(k), -SimUnit, SimUnit)
    BY <2>1, <2>2, CorrectedBy
  <2>4. FairScore(k) = SimToReward(Clamp(at(k), -SimUnit, SimUnit))
    BY <2>1, <2>3 DEF FairScore
  <2>5. Excess(k) = r.sim - row(k).mean
    BY DEF Excess
  <2> QED
    BY <2>2, <2>3, <2>4, <2>5, MuRefType
<1> HIDE DEF at
<1>2. at(i) = at(j)
  BY <1>1, MuRefType
<1> QED
  BY <1>1, <1>2

-----------------------------------------------------------------------------
(* From the reward to the next call each row has the score of its response. *)
ScoredInv ==
  pc = "old_log_probs" /\ ~cfg.rm =>
    \A p \in 1 .. RowCount : batch[p].score = FairScore(batch[p].id)

LEMMA ScoredNow ==
  ASSUME FlowInv, DataInv, ComputeReward
  PROVE  ScoredInv'
<1> DEFINE of == [i \in DOMAIN batch |-> IF cfg.rm THEN batch[i].rm_scores.of
                                                   ELSE batch[i].responses.of]
           field(f) == [i \in DOMAIN batch |-> Responses[of[i]][f]]
           scores == IF cfg.rm THEN field("sim")
                     ELSE ScoreBatch(field("sim"), field("truth"), field("appears"), field("asked"))
           scored == [i \in DOMAIN batch |-> [batch[i] EXCEPT !.score = scores[i]]]
           cells == [i \in 1 .. Len(batch) |-> [of |-> of[i], by |-> 0]]
<1>1. batch' = Union(scored, "rewards", cells) /\ pc = "rewards" /\ UNCHANGED <<cfg, lens>>
  BY DEF ComputeReward, workerVars
<1>2. cfg \in Configs /\ BatchOK(batch) /\ RowCount \in Nat /\ RowCount' = RowCount
  BY <1>1, LensType DEF FlowInv, DataInv, RowCount
<1> SUFFICES ASSUME ~cfg.rm, NEW p \in 1 .. RowCount
             PROVE  batch'[p].score = FairScore(batch'[p].id)
  BY <1>1, <1>2 DEF ScoredInv
<1>3. Len(batch) = RowCount /\ DOMAIN batch = 1 .. RowCount /\ DOMAIN batch[p] = RowFields
  BY <1>2, RowsLen DEF BatchOK, HasRows
<1>4. \A i \in 1 .. RowCount : of[i] = batch[i].id
  <2>1. PICK w : \A i \in 1 .. RowCount : batch[i].responses = [of |-> batch[i].id, by |-> w]
    BY <1>1 DEF DataInv, FilledInv, Filled, AfterResponses
  <2> TAKE i \in 1 .. RowCount
  <2>2. of[i] = batch[i].responses.of
    BY <1>3
  <2>3. batch[i].responses = [of |-> batch[i].id, by |-> w]
    BY <2>1
  <2> HIDE DEF of
  <2> QED
    BY <2>2, <2>3
<1> HIDE DEF of
<1>5. scores[p] = FairScore(batch[p].id)
  <2> DEFINE sims == field("sim")
             gts == field("truth")
             predicted == field("appears")
             targets == field("asked")
             r == Responses[batch[p].id]
  <2>1. /\ sims[p] = r.sim /\ gts[p] = r.truth /\ predicted[p] = r.appears /\ targets[p] = r.asked
        /\ Len(sims) = RowCount
    BY <1>2, <1>3, <1>4
  <2>2. scores = ScoreBatch(sims, gts, predicted, targets)
    OBVIOUS
  <2> HIDE DEF scores, sims, gts, predicted, targets
  <2>3. scores = [i \in 1 .. RowCount |->
                    IF LanguageMatches(predicted[i], targets[i])
                      THEN SimToReward(Calibrated(sims[i], gts[i], predicted[i])) ELSE 0]
    BY <1>2, <2>1, <2>2, ScoreBatchIs
  <2>4. scores[p] = IF LanguageMatches(predicted[p], targets[p])
                      THEN SimToReward(Calibrated(sims[p], gts[p], predicted[p])) ELSE 0
    BY <2>3
  <2> QED
    BY <2>1, <2>4 DEF FairScore
<1> HIDE DEF scores, field
<1>6. Len(scored) = RowCount /\ scored[p] = [batch[p] EXCEPT !.score = scores[p]]
  BY <1>2, <1>3
<1> HIDE DEF scored
<1>7. batch'[p] = [scored[p] EXCEPT !["rewards"] = cells[p]]
  BY <1>1, <1>6 DEF Union
<1>8. /\ "score" \in RowFields /\ "rewards" # "score" /\ "rewards" # "id" /\ "score" # "id"
  BY DEF RowFields
<1> HIDE DEF cells
<1>9. batch'[p].score = scores[p] /\ batch'[p].id = batch[p].id
  <2> DEFINE old == batch[p]
             mid == scored[p]
             new == batch'[p]
  <2>1. /\ mid = [old EXCEPT !["score"] = scores[p]] /\ new = [mid EXCEPT !["rewards"] = cells[p]]
        /\ {"score", "rewards", "id"} \subseteq DOMAIN old
    BY <1>3, <1>6, <1>7 DEF RowFields, Columns
  <2> HIDE DEF old, mid, new
  <2>2. mid["score"] = scores[p] /\ mid["id"] = old["id"] /\ DOMAIN mid = DOMAIN old
    BY <1>8, <2>1
  <2>3. new["score"] = mid["score"] /\ new["id"] = mid["id"]
    BY <1>8, <2>1, <2>2
  <2> QED
    BY <2>2, <2>3 DEF new, old
<1> QED
  BY <1>5, <1>9

LEMMA ScoredStep == FlowInv /\ RaisedInv /\ DataInv /\ ScoredInv /\ [Next]_vars => ScoredInv'
<1> SUFFICES ASSUME FlowInv, RaisedInv, DataInv, ScoredInv, [Next]_vars, pc' = "old_log_probs"
             PROVE  ScoredInv'
  BY DEF ScoredInv
<1>1. CASE UNCHANGED <<pc, cfg, lens, batch>>
  BY <1>1 DEF ScoredInv, RowCount
<1>2. CASE ComputeReward
  BY <1>2, ScoredNow
<1>3. ComputeReward \/ UNCHANGED <<pc, cfg, lens, batch>>
  <2> USE DEF workerVars
  <2>1. CASE UNCHANGED vars
    BY <2>1 DEF vars
  <2>2. CASE SendPrompts \/ SwitchMode \/ Generate \/ LeaveRollout
    BY <2>2 DEF SendPrompts, SwitchMode, Generate, LeaveRollout, TrainerMode, Summon,
                OffloadSummoned, ResumeWeights, UpdateWeights, ResumeCache, MegatronSummon,
                MegatronUpdateWeights
  <2>3. CASE ReceiveResponses
    <3>1. request # NoRequest /\ request.purpose \in {"val_before_train", "generate", "testing"}
      <4>1. request # NoRequest /\ pc \in GenerateCalls
        BY <2>3 DEF ReceiveResponses, FlowInv
      <4>2. PICK prompts, output : request = [purpose |-> pc, prompts |-> prompts, output |-> output]
        BY <4>1 DEF FlowInv
      <4> QED
        BY <4>1, <4>2 DEF GenerateCalls
    <3> QED
      BY <2>3, <3>1 DEF ReceiveResponses, NextCall
  <2>4. CASE BalanceBatch \/ ComputeAdvantage \/ SkipActorUpdate
    BY <2>4 DEF BalanceBatch, ComputeAdvantage, SkipActorUpdate, NextCall
  <2>5. CASE EndStep \/ MegatronStepFails \/ EndSave
    BY <2>5 DEF EndStep, MegatronStepFails, EndSave
  <2>6. CASE StartCall \/ Forward \/ StartUpdate \/ BeginMiniBatch \/ ForwardBackward
             \/ OptimizerStep \/ BeginSave
    BY <2>6 DEF StartCall, Forward, StartUpdate, BeginMiniBatch, ForwardBackward, OptimizerStep,
                BeginSave
  <2>7. CASE FinishCall \/ FinishUpdate
    <3>1. job # NoJob /\ pc # "raised"
      <4>1. job.call \in Calls \/ (job.call \in Updates /\ job.rows[0] = <<>>)
        BY <2>7 DEF FinishCall, FinishUpdate
      <4>2. job.call \in Calls \cup Updates
        BY <4>1
      <4>3. job # NoJob
        BY <4>2 DEF NoJob, Calls, Updates
      <4>4. job.call \in Calls => job.call \notin Updates
        BY DEF Calls, Updates
      <4> QED
        BY <4>1, <4>3, <4>4 DEF RaisedInv
    <3>2. pc \in Calls \cup Updates /\ pc' = NextCall[pc]
      BY <2>7, <3>1 DEF FlowInv, FinishCall, FinishUpdate
    <3> QED
      BY <3>2 DEF NextCall, Calls, Updates
  <2> QED
    BY <2>1, <2>2, <2>3, <2>4, <2>5, <2>6, <2>7
       DEF Next, Rollout, Driver, Compute, Train, Save, Finished
<1> QED
  BY <1>1, <1>2, <1>3

-----------------------------------------------------------------------------
\* A row of the dataset is in one place of the batch.
LEMMA PositionIs ==
  ASSUME cfg \in Configs, lens \in LenProfiles, BatchOK(batch), NEW i \in Ids
  PROVE  Position(i) \in 1 .. RowCount /\ batch[Position(i)].id = i
<1>1. RowCount \in Nat /\ i \in 1 .. RowCount
  BY LensType
<1>2. DOMAIN batch = 1 .. RowCount
  BY <1>1, RowsLen DEF BatchOK
<1>3. \E p \in DOMAIN batch : batch[p].id = i
  BY <1>1, <1>2 DEF BatchOK, EachOnce
<1> QED
  BY <1>2, <1>3 DEF Position

(* What a response is scored with does not depend on the batch, the chunk  *)
(* or the other responses it is scored with, so two equally good responses *)
(* get the same score in whatever languages they are asked for, and one in *)
(* another language gets none (compute_score_batch,                        *)
(* calibrate_anchor_to_ref_cosine): for any statistics of the languages    *)
(* and any sizes of batch and chunk.                                       *)
THEOREM ScoringIsFair == Spec => []ScoresFair
<1>1. Init => FlowInv /\ RaisedInv /\ DataInv /\ ScoredInv
  BY FlowInit, DataInit DEF Init, RaisedInv, ScoredInv
<1>2. FlowInv /\ RaisedInv /\ DataInv /\ ScoredInv /\ [Next]_vars
        => FlowInv' /\ RaisedInv' /\ DataInv' /\ ScoredInv'
  BY FlowStep, RaisedStep, DataStep, ScoredStep
<1>3. FlowInv /\ DataInv /\ ScoredInv => ScoresFair
  <2> SUFFICES ASSUME FlowInv, DataInv, ScoredInv, pc = "old_log_probs", ~cfg.rm
               PROVE  \A i, j \in Ids :
                        /\ Responses[i].appears # Responses[i].asked => ScoreOf(i) = 0
                        /\ Calibratable(i) /\ Calibratable(j) /\ Excess(i) = Excess(j)
                             => ScoreOf(i) = ScoreOf(j)
    BY DEF ScoresFair
  <2>1. ASSUME NEW i \in Ids PROVE i \in DOMAIN Responses /\ ScoreOf(i) = FairScore(i)
    <3>1. cfg \in Configs /\ lens \in LenProfiles /\ BatchOK(batch)
      BY DEF FlowInv, DataInv
    <3>2. Position(i) \in 1 .. RowCount /\ batch[Position(i)].id = i
      BY <3>1, PositionIs
    <3>3. i \in DOMAIN Responses
      BY <3>1, ResponsesAssumption DEF Ids
    <3> QED
      BY <3>2, <3>3 DEF ScoreOf, ScoredInv
  <2>2. ASSUME NEW i \in Ids, Responses[i].appears # Responses[i].asked PROVE FairScore(i) = 0
    BY <2>2 DEF FairScore, LanguageMatches
  <2>3. ASSUME NEW i \in Ids, NEW j \in Ids, Calibratable(i), Calibratable(j), Excess(i) = Excess(j)
        PROVE  FairScore(i) = FairScore(j)
    BY <2>1, <2>3, AlikeScored
  <2> QED
    BY <2>1, <2>2, <2>3
<1> QED
  BY <1>1, <1>2, <1>3, PTL DEF Spec

-----------------------------------------------------------------------------
(* The advantages of the rollouts of a prompt.                             *)

LEMMA SumOfIs ==
  ASSUME NEW S, NEW f
  PROVE  SumOf(f, S) = SumOver(f, S)
BY DEF SumOf, SumOver

(* Scores, uids and lengths of the rows of a batch, one of each for a row. *)
RowsOf(scores, uids, weights) ==
  \E n \in Nat : /\ DOMAIN scores = 1 .. n /\ DOMAIN uids = 1 .. n /\ DOMAIN weights = 1 .. n
                 /\ \A j \in 1 .. n : scores[j] \in Int /\ weights[j] \in Nat

(* All advantages of a group are the scores times a, less b; weighted,     *)
(* they cancel if there are two or more.                                   *)
CentredAt(adv, scores, w, group, a, b, d) ==
  /\ \A p \in group : adv[p] = Quotient(a * scores[p] - b, d)
  /\ Cardinality(group) > 1 =>
       a * SumOver([p \in group |-> w[p] * scores[p]], group) = b * SumOver(w, group)

Centred(adv, scores, w, group) ==
  \E a \in Nat, b \in Int : \E d : CentredAt(adv, scores, w, group, a, b, d)

LEMMA GroupIs ==
  ASSUME NEW scores, NEW uids, NEW weights, RowsOf(scores, uids, weights), NEW q \in DOMAIN uids,
         NEW group, group = Group(uids, q)
  PROVE  /\ \A p \in group : Group(uids, p) = group /\ p \in DOMAIN scores
         /\ IsFiniteSet(group) /\ q \in group /\ Cardinality(group) \in Nat \ {0}
         /\ Integral(scores, group) /\ Integral(weights, group)
         /\ \A p \in group : weights[p] \in Nat
<1>1. PICK n \in Nat : /\ DOMAIN scores = 1 .. n /\ DOMAIN uids = 1 .. n /\ DOMAIN weights = 1 .. n
                       /\ \A j \in 1 .. n : scores[j] \in Int /\ weights[j] \in Nat
  BY DEF RowsOf
<1>2. group \subseteq 1 .. n /\ q \in group /\ \A p \in group : Group(uids, p) = group
  BY <1>1 DEF Group
<1>3. IsFiniteSet(group)
  <2>1. IsFiniteSet(1 .. n)
    BY FS_Interval
  <2> QED
    BY <1>2, <2>1, FS_Subset
<1>4. Cardinality(group) \in Nat \ {0}
  BY <1>2, <1>3, FS_CardinalityType, FS_EmptySet
<1> QED
  BY <1>1, <1>2, <1>3, <1>4, SMTT(30) DEF Integral

(* With equal weights, a times the scores less their sum cancels if a is   *)
(* the number of scores times what b is of the sum.                        *)
LEMMA EvenlyCentred ==
  ASSUME NEW group, IsFiniteSet(group), NEW scores, Integral(scores, group),
         NEW ones, \A p \in group : ones[p] = 1
  PROVE  /\ SumOver([p \in group |-> ones[p] * scores[p]], group) = SumOver(scores, group)
         /\ SumOver(ones, group) = Cardinality(group)
<1>1. \A p \in group : scores[p] \in Int
  BY DEF Integral
<1> DEFINE h == [p \in group |-> ones[p] * scores[p]]
<1>2. \A p \in group : h[p] = scores[p]
  BY <1>1
<1> HIDE DEF h
<1>3. SumOver(h, group) = SumOver(scores, group)
  BY <1>2, SumSame
<1> QED
  BY <1>3, SumOfOnes DEF h

LEMMA MinusMeanIs ==
  ASSUME NEW scores, NEW uids, NEW weights, RowsOf(scores, uids, weights), NEW q \in DOMAIN uids,
         NEW group, group = Group(uids, q), NEW k, k = Cardinality(group),
         NEW p \in group
  PROVE  MinusMean(scores, uids, p)
           = IF k = 1 THEN Quotient(scores[p], 1)
             ELSE Quotient(k * scores[p] - SumOver(scores, group), k)
<1>1. Group(uids, p) = group
  BY GroupIs
<1> QED
  BY <1>1, SumOfIs DEF MinusMean

LEMMA OneIsItself == \A x \in Int : 1 * x - 0 = x
OBVIOUS

LEMMA MinusMeanCentred ==
  ASSUME NEW scores, NEW uids, NEW weights, RowsOf(scores, uids, weights), NEW q \in DOMAIN uids,
         NEW group, group = Group(uids, q), NEW ones, \A p \in group : ones[p] = 1,
         NEW adv, \A p \in group : adv[p] = MinusMean(scores, uids, p)
  PROVE  Centred(adv, scores, ones, group)
<1> DEFINE k == Cardinality(group)
           s == SumOver(scores, group)
<1>1. IsFiniteSet(group) /\ Integral(scores, group) /\ k \in Nat \ {0}
  BY GroupIs
<1>2. s \in Int /\ \A p \in group : scores[p] \in Int
  BY <1>1, SumType DEF Integral
<1>3. \A p \in group : adv[p] = IF k = 1 THEN Quotient(scores[p], 1)
                                ELSE Quotient(k * scores[p] - s, k)
  BY MinusMeanIs
<1>4. CASE k = 1
  <2>1. \A p \in group : adv[p] = Quotient(1 * scores[p] - 0, 1)
    BY <1>2, <1>3, <1>4, OneIsItself
  <2>2. CentredAt(adv, scores, ones, group, 1, 0, 1)
    BY <1>4, <2>1 DEF CentredAt
  <2> QED
    BY <2>2 DEF Centred
<1>5. CASE k # 1
  <2>1. \A p \in group : adv[p] = Quotient(k * scores[p] - s, k)
    BY <1>3, <1>5
  <2>2. k * SumOver([p \in group |-> ones[p] * scores[p]], group) = s * SumOver(ones, group)
    <3>1. SumOver([p \in group |-> ones[p] * scores[p]], group) = s /\ SumOver(ones, group) = k
      BY <1>1, EvenlyCentred
    <3> HIDE DEF k, s
    <3>2. k * s = s * k
      BY <1>1, <1>2
    <3> QED
      BY <3>1, <3>2
  <2>3. CentredAt(adv, scores, ones, group, k, s, k)
    BY <2>1, <2>2 DEF CentredAt
  <2> HIDE DEF k, s
  <2> QED
    BY <1>1, <1>2, <2>3 DEF Centred
<1> QED
  BY <1>4, <1>5

LEMMA RlooCentred ==
  ASSUME NEW scores, NEW uids, NEW weights, RowsOf(scores, uids, weights), NEW q \in DOMAIN uids,
         NEW group, group = Group(uids, q), NEW ones, \A p \in group : ones[p] = 1,
         NEW adv, \A p \in group : adv[p] = Rloo(scores, uids, weights, p)
  PROVE  Centred(adv, scores, ones, group)
<1> DEFINE k == Cardinality(group)
           s == SumOver(scores, group)
<1>1. IsFiniteSet(group) /\ Integral(scores, group) /\ k \in Nat \ {0}
  BY GroupIs
<1>2. s \in Int /\ \A p \in group : scores[p] \in Int
  BY <1>1, SumType DEF Integral
<1>3. \A p \in group : adv[p] = IF k = 1 THEN Quotient(scores[p], 1)
                                ELSE Quotient(k * scores[p] - s, k - 1)
  <2> TAKE p \in group
  <2>1. Group(uids, p) = group
    BY GroupIs
  <2> QED
    BY <2>1, SumOfIs DEF Rloo
<1>4. CASE k = 1
  <2>1. \A p \in group : adv[p] = Quotient(1 * scores[p] - 0, 1)
    BY <1>2, <1>3, <1>4, OneIsItself
  <2>2. CentredAt(adv, scores, ones, group, 1, 0, 1)
    BY <1>4, <2>1 DEF CentredAt
  <2> QED
    BY <2>2 DEF Centred
<1>5. CASE k # 1
  <2>1. \A p \in group : adv[p] = Quotient(k * scores[p] - s, k - 1)
    BY <1>3, <1>5
  <2>2. k * SumOver([p \in group |-> ones[p] * scores[p]], group) = s * SumOver(ones, group)
    <3>1. SumOver([p \in group |-> ones[p] * scores[p]], group) = s /\ SumOver(ones, group) = k
      BY <1>1, EvenlyCentred
    <3> HIDE DEF k, s
    <3>2. k * s = s * k
      BY <1>1, <1>2
    <3> QED
      BY <3>1, <3>2
  <2>3. CentredAt(adv, scores, ones, group, k, s, k - 1)
    BY <2>1, <2>2 DEF CentredAt
  <2> HIDE DEF k, s
  <2> QED
    BY <1>1, <1>2, <2>3 DEF Centred
<1> QED
  BY <1>4, <1>5

LEMMA OpoCentred ==
  ASSUME NEW scores, NEW uids, NEW weights, RowsOf(scores, uids, weights), NEW q \in DOMAIN uids,
         NEW group, group = Group(uids, q),
         NEW adv, \A p \in group : adv[p] = Opo(scores, uids, weights, p)
  PROVE  Centred(adv, scores, weights, group)
<1> DEFINE k == Cardinality(group)
           w == SumOver(weights, group)
           v == SumOver([j \in DOMAIN scores |-> weights[j] * scores[j]], group)
<1>1. /\ IsFiniteSet(group) /\ Integral(scores, group) /\ Integral(weights, group) /\ k \in Nat \ {0}
      /\ group \subseteq DOMAIN scores /\ \A p \in group : weights[p] \in Nat
  BY GroupIs
<1>2. \A p \in group : scores[p] \in Int
  BY <1>1 DEF Integral
<1>3. \A p \in group : adv[p] = IF k = 1 THEN Quotient(scores[p], 1)
                                ELSE Quotient(w * scores[p] - v, w)
  <2> TAKE p \in group
  <2>1. Group(uids, p) = group
    BY GroupIs
  <2> QED
    BY <2>1, SumOfIs DEF Opo
<1>4. CASE k = 1
  <2>1. \A p \in group : adv[p] = Quotient(1 * scores[p] - 0, 1)
    BY <1>2, <1>3, <1>4, OneIsItself
  <2>2. CentredAt(adv, scores, weights, group, 1, 0, 1)
    BY <1>4, <2>1 DEF CentredAt
  <2> QED
    BY <2>2 DEF Centred
<1>5. CASE k # 1
  <2>1. \A p \in group : adv[p] = Quotient(w * scores[p] - v, w)
    BY <1>3, <1>5
  <2>2. w \in Nat
    <3>1. 0 * Cardinality(group) <= SumOver(weights, group) \/ group = {}
      <4>1. \A p \in group : weights[p] \in 0 .. weights[p]
        BY <1>1
      <4> DEFINE W == {weights[p] : p \in group}
      <4>2. W \in SUBSET Int /\ IsFiniteSet(W) /\ W # {}
        BY <1>1, FiniteImage, FS_EmptySet
      <4>3. Max(W) \in W /\ \A y \in W : y <= Max(W)
        <5> HIDE DEF W
        <5> QED
          BY <4>2, GreatestOf
      <4> DEFINE hi == Max(W)
      <4>4. hi \in Int /\ \A p \in group : 0 <= weights[p] /\ weights[p] <= hi
        BY <1>1, <4>3
      <4> HIDE DEF hi
      <4> QED
        BY <1>1, <4>4, SumWithin
    <3>2. group # {}
      BY <1>1, FS_EmptySet
    <3> QED
      BY <1>1, <3>1, <3>2, SumType
  <2>3. SumOver([p \in group |-> weights[p] * scores[p]], group) = v /\ v \in Int
    <3> DEFINE f == [j \in DOMAIN scores |-> weights[j] * scores[j]]
               h == [p \in group |-> weights[p] * scores[p]]
    <3>1. \A p \in group : h[p] = f[p] /\ f[p] \in Int
      BY <1>1, <1>2
    <3> HIDE DEF f, h
    <3>2. Integral(f, group)
      BY <1>1, <3>1 DEF Integral
    <3>3. SumOver(h, group) = SumOver(f, group) /\ SumOver(f, group) \in Int
      BY <3>1, <3>2, SumSame, SumType
    <3> QED
      BY <3>3 DEF f, h
  <2>4. w * v = v * w
    <3> HIDE DEF w, v
    <3> QED
      BY <2>2, <2>3
  <2>5. CentredAt(adv, scores, weights, group, w, v, w)
    BY <2>1, <2>3, <2>4 DEF CentredAt
  <2> HIDE DEF w, v
  <2> QED
    BY <2>2, <2>3, <2>5 DEF Centred
<1> QED
  BY <1>4, <1>5

-----------------------------------------------------------------------------
LEMMA GpgCentred ==
  ASSUME NEW scores, NEW uids, NEW weights, RowsOf(scores, uids, weights), NEW q \in DOMAIN uids,
         NEW group, group = Group(uids, q), NEW ones, \A p \in group : ones[p] = 1,
         NEW adv, \A p \in group : adv[p] = Gpg(scores, uids, weights, p)
  PROVE  Centred(adv, scores, ones, group)
<1> DEFINE f == [p \in group |-> MinusMean(scores, uids, p)]
           n == Len(scores)
           m == Max({Cardinality({j \in DOMAIN scores : scores[j] # 0}), 1})
<1>1. Centred(f, scores, ones, group)
  <2>1. \A p \in group : f[p] = MinusMean(scores, uids, p)
    OBVIOUS
  <2> HIDE DEF f
  <2> QED
    BY <2>1, MinusMeanCentred
<1>0. PICK a \in Nat, b \in Int : \E d : CentredAt(f, scores, ones, group, a, b, d)
  BY <1>1 DEF Centred
<1>2. PICK d : CentredAt(f, scores, ones, group, a, b, d)
  BY <1>0
<1>3. n \in Nat
  BY DEF RowsOf
<1>4. IsFiniteSet(group) /\ Integral(scores, group) /\ Cardinality(group) \in Nat
  BY GroupIs
<1>5. \A p \in group : adv[p] = Quotient(n * f[p].num, m * f[p].den)
  BY DEF Gpg
<1>6. \A p \in group : f[p] = Quotient(a * scores[p] - b, d)
  BY <1>2 DEF CentredAt
<1> DEFINE u == SumOver([p \in group |-> ones[p] * scores[p]], group)
           v == SumOver(ones, group)
<1>7. Cardinality(group) > 1 => a * u = b * v
  BY <1>2 DEF CentredAt
<1>8. u \in Int /\ v \in Int
  BY <1>4, EvenlyCentred, SumType
<1> HIDE DEF f, n, m, u, v
<1>9. \A p \in group : adv[p] = Quotient((n * a) * scores[p] - n * b, m * d)
  <2> TAKE p \in group
  <2>1. f[p].num = a * scores[p] - b /\ f[p].den = d
    <3> DEFINE x == a * scores[p] - b
    <3>1. f[p] = Quotient(x, d)
      BY <1>6
    <3> HIDE DEF x
    <3>2. f[p].num = x /\ f[p].den = d
      BY <3>1 DEF Quotient
    <3> QED
      BY <3>2 DEF x
  <2>2. scores[p] \in Int
    BY <1>4 DEF Integral
  <2>3. n * (a * scores[p] - b) = (n * a) * scores[p] - n * b
    BY <1>3, <2>2
  <2> QED
    BY <1>5, <2>1, <2>3
<1>10. Cardinality(group) > 1 => (n * a) * u = (n * b) * v
  <2>1. (n * a) * u = n * (a * u) /\ (n * b) * v = n * (b * v)
    BY <1>3, <1>8
  <2> QED
    BY <1>7, <2>1
<1>11. CentredAt(adv, scores, ones, group, n * a, n * b, m * d)
  BY <1>9, <1>10 DEF CentredAt, u, v
<1>12. n * a \in Nat /\ n * b \in Int
  BY <1>3
<1> QED
  BY <1>11, <1>12 DEF Centred

(* The first of the best gets its lead over the others, the others nothing. *)
LEMMA LeadsOf ==
  ASSUME NEW scores, NEW uids, NEW weights, RowsOf(scores, uids, weights), NEW q \in DOMAIN uids,
         NEW group, group = Group(uids, q), Cardinality(group) > 1, NEW p \in group
  PROVE  LET lead == GrpoPassk(scores, uids, weights, p)
         IN  /\ lead.num >= 0
             /\ lead.num > 0 => \A j \in group : scores[j] <= scores[p]
<1> DEFINE all == {scores[j] : j \in group}
           best == Max(all)
           firsts == {j \in group : scores[j] = best}
           first == Min(firsts)
           rest == {scores[j] : j \in group \ {first}}
           second == Max(rest)
<1>1. /\ IsFiniteSet(group) /\ group \subseteq DOMAIN scores /\ \A j \in group : scores[j] \in Int
      /\ Cardinality(group) \in Nat /\ Group(uids, p) = group
  BY GroupIs DEF Integral
<1>2. best \in all /\ \A y \in all : y <= best
  <2>1. all \in SUBSET Int /\ all # {} /\ IsFiniteSet(all)
    BY <1>1, FiniteImage
  <2> HIDE DEF all
  <2> QED
    BY <2>1, GreatestOf
<1>3. first \in group /\ scores[first] = best
  <2>1. firsts \in SUBSET Int
    BY <1>1 DEF RowsOf
  <2>2. firsts # {}
    BY <1>2
  <2>3. firsts \subseteq group
    OBVIOUS
  <2>4. first \in firsts
    <3> HIDE DEF firsts
    <3>1. IsFiniteSet(firsts)
      BY <1>1, <2>3, FS_Subset
    <3> QED
      BY <2>1, <2>2, <3>1, SmallestOf
  <2> QED
    BY <2>4
<1> HIDE DEF first
<1>4. second \in rest
  <2>1. rest \subseteq all
    OBVIOUS
  <2>2. Cardinality(group \ {first}) = Cardinality(group) - 1 /\ IsFiniteSet(group \ {first})
    BY <1>1, <1>3, FS_RemoveElement
  <2>3. group \ {first} # {}
    BY <1>1, <2>2, FS_EmptySet
  <2>4. rest \in SUBSET Int /\ rest # {}
    BY <1>1, <2>3
  <2>5. IsFiniteSet(rest)
    BY <2>2, FiniteImage
  <2> HIDE DEF rest
  <2> QED
    BY <2>4, <2>5, GreatestOf
<1>5. best \in Int /\ second \in Int /\ second <= best
  BY <1>1, <1>2, <1>4
<1>6. GrpoPassk(scores, uids, weights, p) = Quotient(IF p = first THEN best - second ELSE 0, 1)
  BY <1>1 DEF GrpoPassk, first
<1>7. \A j \in group : scores[j] <= best
  BY <1>2
<1> HIDE DEF best, second
<1> QED
  BY <1>3, <1>5, <1>6, <1>7 DEF Quotient

-----------------------------------------------------------------------------
LEMMA CentredCancels ==
  ASSUME NEW group, NEW scores, Integral(scores, group), NEW w, Integral(w, group),
         NEW adv, Centred(adv, scores, w, group), Cardinality(group) > 1,
         NEW k, \A p \in group : k[p] = w[p] * adv[p].num
  PROVE  Integral(k, group) /\ SumOver(k, group) = 0
<1>0. PICK a \in Nat, b \in Int : \E d : CentredAt(adv, scores, w, group, a, b, d)
  BY DEF Centred
<1>1. PICK d : CentredAt(adv, scores, w, group, a, b, d)
  BY <1>0
<1> DEFINE f == [p \in group |-> w[p] * scores[p]]
<1>2. \A p \in group : w[p] \in Int /\ scores[p] \in Int
  BY DEF Integral
<1>3. Integral(f, group)
  BY <1>2 DEF Integral
<1>4. a * SumOver(f, group) = b * SumOver(w, group)
  BY <1>1 DEF CentredAt
<1>5. \A p \in group : k[p] = a * f[p] - b * w[p]
  <2> TAKE p \in group
  <2>1. adv[p] = Quotient(a * scores[p] - b, d)
    BY <1>1 DEF CentredAt
  <2> DEFINE x == scores[p]
             y == w[p]
             num == a * x - b
  <2>2. adv[p] = Quotient(num, d)
    BY <2>1
  <2> HIDE DEF num
  <2>3. adv[p].num = num
    BY <2>2 DEF Quotient
  <2>4. k[p] = y * num /\ f[p] = y * x /\ x \in Int /\ y \in Int
    BY <1>2, <2>3
  <2> HIDE DEF x, y
  <2>5. y * num = a * (y * x) - b * y
    BY <2>4 DEF num
  <2> QED
    BY <2>4, <2>5 DEF y
<1> HIDE DEF f
<1>6. Integral(k, group) /\ SumOver(k, group) = a * SumOver(f, group) - b * SumOver(w, group)
  <2>1. a \in Int /\ Combines(k, f, w, a, b, group)
    BY <1>5 DEF Combines
  <2> QED
    BY <1>3, <2>1, SumCombine
<1>7. SumOver(k, group) \in Int /\ SumOver(f, group) \in Int /\ SumOver(w, group) \in Int
  BY <1>3, <1>6, SumType
<1> QED
  BY <1>4, <1>6, <1>7

LEMMA CentredOrders ==
  ASSUME NEW group, NEW scores, Integral(scores, group), NEW w,
         NEW adv, Centred(adv, scores, w, group), NEW p \in group, NEW q \in group
  PROVE  /\ adv[p].den = adv[q].den
         /\ scores[p] >= scores[q] => adv[p].num >= adv[q].num
<1>0. PICK a \in Nat, b \in Int : \E d : CentredAt(adv, scores, w, group, a, b, d)
  BY DEF Centred
<1>1. PICK d : CentredAt(adv, scores, w, group, a, b, d)
  BY <1>0
<1>2. scores[p] \in Int /\ scores[q] \in Int
  BY DEF Integral
<1> DEFINE x == a * scores[p] - b
           y == a * scores[q] - b
<1>3. adv[p] = Quotient(x, d) /\ adv[q] = Quotient(y, d)
  BY <1>1 DEF CentredAt
<1>4. scores[p] >= scores[q] => x >= y
  <2> SUFFICES ASSUME scores[p] >= scores[q] PROVE x >= y
    OBVIOUS
  <2>1. scores[q] * a <= scores[p] * a /\ scores[q] * a \in Int /\ scores[p] * a \in Int
    BY <1>2, TimesMonotone
  <2>2. scores[q] * a = a * scores[q] /\ scores[p] * a = a * scores[p]
    BY <1>2
  <2> QED
    BY <2>1, <2>2
<1> HIDE DEF x, y
<1> QED
  BY <1>3, <1>4 DEF Quotient

(* What the estimators are given for the batch.                            *)
BatchScores == [j \in DOMAIN batch |-> batch[j].score]
BatchUids == [j \in DOMAIN batch |-> Uid(batch[j].id)]
BatchLengths == [j \in DOMAIN batch |-> Cardinality(Generated(batch[j].id))]

ScoresTyped == \A p \in 1 .. RowCount : batch[p].score \in Int

LEMMA GeneratedFinite ==
  ASSUME cfg \in Configs, lens \in LenProfiles, NEW i \in Ids
  PROVE  /\ i \in DOMAIN Masks /\ Masks[i] \in Seq({0, 1})
         /\ Generated(i) \subseteq 1 .. Len(Masks[i]) /\ IsFiniteSet(Generated(i))
         /\ Cardinality(Generated(i)) \in Nat
<1>1. i \in DOMAIN Masks /\ Masks[i] \in Seq({0, 1})
  BY AdvantagesAssumption DEF Ids
<1>2. Generated(i) \subseteq 1 .. Len(Masks[i]) /\ Len(Masks[i]) \in Nat
  BY <1>1 DEF Generated
<1>3. IsFiniteSet(1 .. Len(Masks[i]))
  BY <1>2, FS_Interval
<1>4. IsFiniteSet(Generated(i))
  BY <1>2, <1>3, FS_Subset
<1> QED
  BY <1>1, <1>2, <1>4, FS_CardinalityType

LEMMA BatchRows ==
  ASSUME cfg \in Configs, lens \in LenProfiles, BatchOK(batch), ScoresTyped
  PROVE  /\ DOMAIN batch = 1 .. RowCount /\ RowsOf(BatchScores, BatchUids, BatchLengths)
         /\ \A p \in 1 .. RowCount : /\ BatchScores[p] = batch[p].score
                                     /\ BatchUids[p] = Uid(batch[p].id) /\ batch[p].id \in Ids
                                     /\ BatchLengths[p] = Cardinality(Generated(batch[p].id))
<1>1. RowCount \in Nat /\ Ids = 1 .. RowCount
  BY LensType
<1>2. DOMAIN batch = 1 .. RowCount /\ \A p \in 1 .. RowCount : batch[p].id \in Ids
  BY <1>1, RowsLen DEF BatchOK, HasRows
<1>3. \A p \in 1 .. RowCount : /\ BatchScores[p] = batch[p].score
                               /\ BatchUids[p] = Uid(batch[p].id)
                               /\ BatchLengths[p] = Cardinality(Generated(batch[p].id))
  BY <1>2 DEF BatchScores, BatchUids, BatchLengths
<1>4. \A p \in 1 .. RowCount : BatchScores[p] \in Int /\ BatchLengths[p] \in Nat
  BY <1>2, <1>3, GeneratedFinite DEF ScoresTyped
<1>5. DOMAIN BatchScores = 1 .. RowCount /\ DOMAIN BatchUids = 1 .. RowCount
      /\ DOMAIN BatchLengths = 1 .. RowCount
  BY <1>2 DEF BatchScores, BatchUids, BatchLengths
<1> QED
  BY <1>1, <1>2, <1>3, <1>4, <1>5 DEF RowsOf

(* The weight of a row: under OPO its length.                              *)
BatchWeights == [p \in DOMAIN batch |-> IF cfg.adv = "opo" THEN BatchLengths[p] ELSE 1]

LEMMA AdvantagesCentred ==
  ASSUME cfg \in Configs, lens \in LenProfiles, BatchOK(batch), ScoresTyped,
         cfg.adv \notin {"gae", "grpo_passk"}, NEW q \in 1 .. RowCount,
         NEW group, group = Group(BatchUids, q),
         NEW adv, \A p \in 1 .. RowCount : adv[p] = AdvantageAt(p)
  PROVE  Centred(adv, BatchScores, BatchWeights, group) /\ Integral(BatchWeights, group)
<1> DEFINE s == BatchScores
           u == BatchUids
           l == BatchLengths
           w == BatchWeights
<1>1. DOMAIN batch = 1 .. RowCount /\ RowsOf(s, u, l) /\ DOMAIN u = 1 .. RowCount
  BY BatchRows DEF BatchUids
<1>2. /\ group \subseteq 1 .. RowCount /\ IsFiniteSet(group) /\ \A p \in group : l[p] \in Nat
  <2>1. group \subseteq 1 .. RowCount
    BY <1>1 DEF Group
  <2> HIDE DEF s, u, l
  <2>2. group = Group(u, q) /\ q \in DOMAIN u
    BY <1>1 DEF u
  <2> QED
    BY <1>1, <2>1, <2>2, GroupIs, ZenonT(30)
<1>3. \A p \in group : w[p] = IF cfg.adv = "opo" THEN l[p] ELSE 1
  BY <1>1, <1>2 DEF BatchWeights
<1>4. Integral(w, group)
  BY <1>2, <1>3 DEF Integral
<1>5. cfg.adv \in {"grpo", "reinforce_plus_plus_baseline", "rloo", "opo", "gpg"}
  BY AdvantagesAssumption DEF Estimators
<1>6. \A p \in group :
        adv[p] = CASE cfg.adv = "grpo" -> Grpo(s, u, l, p)
                   [] cfg.adv = "reinforce_plus_plus_baseline" -> ReinforcePlusPlusBaseline(s, u, l, p)
                   [] cfg.adv = "rloo" -> Rloo(s, u, l, p)
                   [] cfg.adv = "opo" -> Opo(s, u, l, p)
                   [] cfg.adv = "gpg" -> Gpg(s, u, l, p)
  BY <1>2, <1>5 DEF AdvantageAt, BatchScores, BatchUids, BatchLengths
<1> HIDE DEF s, u, l, w
<1>7. CASE cfg.adv \in {"grpo", "reinforce_plus_plus_baseline"}
  <2>1. \A p \in group : adv[p] = MinusMean(s, u, p)
    BY <1>6, <1>7 DEF Grpo, ReinforcePlusPlusBaseline
  <2>2. \A p \in group : w[p] = 1
    BY <1>3, <1>7
  <2>3. Centred(adv, s, w, group)
    BY <1>1, <2>1, <2>2, MinusMeanCentred DEF u
  <2> QED
    BY <1>4, <2>3 DEF s, w
<1>8. CASE cfg.adv = "rloo"
  <2>1. \A p \in group : adv[p] = Rloo(s, u, l, p)
    BY <1>6, <1>8
  <2>2. \A p \in group : w[p] = 1
    BY <1>3, <1>8
  <2>3. Centred(adv, s, w, group)
    BY <1>1, <2>1, <2>2, RlooCentred DEF u
  <2> QED
    BY <1>4, <2>3 DEF s, w
<1>9. CASE cfg.adv = "gpg"
  <2>1. \A p \in group : adv[p] = Gpg(s, u, l, p)
    BY <1>6, <1>9
  <2>2. \A p \in group : w[p] = 1
    BY <1>3, <1>9
  <2>3. Centred(adv, s, w, group)
    BY <1>1, <2>1, <2>2, GpgCentred DEF u
  <2> QED
    BY <1>4, <2>3 DEF s, w
<1>10. CASE cfg.adv = "opo"
  <2>1. \A p \in group : adv[p] = Opo(s, u, l, p)
    BY <1>6, <1>10
  <2>2. w = l
    <3>1. DOMAIN batch = 1 .. RowCount
      BY <1>1
    <3> QED
      BY <1>10, <3>1 DEF w, l, BatchWeights, BatchLengths
  <2>3. Centred(adv, s, l, group)
    BY <1>1, <2>1, OpoCentred DEF u
  <2> QED
    BY <1>4, <2>2, <2>3 DEF s, w
<1> QED
  BY <1>5, <1>7, <1>8, <1>9, <1>10

-----------------------------------------------------------------------------
LEMMA PositionOf ==
  ASSUME cfg \in Configs, lens \in LenProfiles, BatchOK(batch), NEW p \in 1 .. RowCount
  PROVE  batch[p].id \in Ids /\ Position(batch[p].id) = p
<1>1. RowCount \in Nat /\ Ids = 1 .. RowCount
  BY LensType
<1>2. batch[p].id \in Ids
  BY <1>1 DEF BatchOK, HasRows
<1>3. Position(batch[p].id) \in 1 .. RowCount /\ batch[Position(batch[p].id)].id = batch[p].id
  BY <1>2, PositionIs
<1>4. Position(batch[p].id) = p
  BY <1>3 DEF BatchOK, EachOnce
<1> QED
  BY <1>2, <1>4

(* The rollouts of a prompt are at the places of its group in the batch.   *)
PeersOf(i) == {j \in Ids : Uid(j) = Uid(i)}
Positioned == [j \in Ids |-> Position(j)]

LEMMA PeersInGroup ==
  ASSUME cfg \in Configs, lens \in LenProfiles, BatchOK(batch), ScoresTyped, NEW i \in Ids,
         NEW group, group = Group(BatchUids, Position(i)),
         NEW peers, peers = PeersOf(i)
  PROVE  /\ IsFiniteSet(peers) /\ OneToOne(Positioned, peers) /\ ImageOf(Positioned, peers) = group
         /\ Cardinality(peers) = Cardinality(group)
         /\ \A j \in peers :
              /\ j \in Ids /\ Positioned[j] \in group /\ Positioned[j] = Position(j)
              /\ Position(j) \in 1 .. RowCount /\ batch[Position(j)].id = j
              /\ BatchScores[Position(j)] = ScoreOf(j)
              /\ BatchLengths[Position(j)] = Cardinality(Generated(j))
<1>1. RowCount \in Nat /\ Ids = 1 .. RowCount
  BY LensType
<1>2. /\ DOMAIN batch = 1 .. RowCount /\ DOMAIN BatchUids = 1 .. RowCount
      /\ \A p \in 1 .. RowCount : /\ BatchScores[p] = batch[p].score
                                  /\ BatchUids[p] = Uid(batch[p].id) /\ batch[p].id \in Ids
                                  /\ BatchLengths[p] = Cardinality(Generated(batch[p].id))
  BY BatchRows DEF BatchUids
<1>3. \A j \in Ids : Position(j) \in 1 .. RowCount /\ batch[Position(j)].id = j
  BY PositionIs
<1>4. peers \subseteq Ids /\ IsFiniteSet(peers)
  <2>1. IsFiniteSet(1 .. RowCount)
    BY <1>1, FS_Interval
  <2> QED
    BY <1>1, <2>1, FS_Subset DEF PeersOf
<1>5. OneToOne(Positioned, peers)
  <2> SUFFICES ASSUME NEW x \in peers, NEW y \in peers, Positioned[x] = Positioned[y] PROVE x = y
    BY DEF OneToOne
  <2>1. Position(x) = Position(y)
    BY <1>4 DEF Positioned
  <2> QED
    BY <1>3, <1>4, <2>1
<1>6. \A j \in peers : Positioned[j] = Position(j) /\ Position(j) \in group
  <2> TAKE j \in peers
  <2>1. j \in Ids /\ Uid(j) = Uid(i)
    BY DEF PeersOf
  <2>2. BatchUids[Position(j)] = Uid(j) /\ BatchUids[Position(i)] = Uid(i)
    BY <1>2, <1>3, <2>1
  <2>3. Position(j) \in group
    BY <1>2, <1>3, <2>1, <2>2 DEF Group
  <2> QED
    BY <2>1, <2>3 DEF Positioned
<1>7. \A p \in group : \E j \in peers : Positioned[j] = p
  <2> TAKE p \in group
  <2>1. p \in 1 .. RowCount /\ BatchUids[p] = BatchUids[Position(i)]
    BY <1>2 DEF Group
  <2>2. BatchUids[p] = Uid(batch[p].id) /\ BatchUids[Position(i)] = Uid(i)
    BY <1>2, <1>3, <2>1
  <2>3. batch[p].id \in Ids /\ Position(batch[p].id) = p
    BY <2>1, PositionOf
  <2>4. batch[p].id \in peers
    BY <2>1, <2>2, <2>3 DEF PeersOf
  <2> QED
    BY <2>3, <2>4 DEF Positioned
<1>8. ImageOf(Positioned, peers) = group
  BY <1>6, <1>7 DEF ImageOf
<1>9. Cardinality(peers) = Cardinality(group)
  <2> DEFINE f == [j \in peers |-> Positioned[j]]
  <2>1. f \in Bijection(peers, group)
    BY <1>5, <1>6, <1>7 DEF Bijection, Injection, Surjection, IsInjective, OneToOne
  <2> HIDE DEF f
  <2> QED
    BY <1>4, <2>1, FS_Bijection DEF ExistsBijection
<1>10. \A j \in peers : /\ BatchScores[Position(j)] = ScoreOf(j)
                        /\ BatchLengths[Position(j)] = Cardinality(Generated(j))
  BY <1>2, <1>3, <1>4 DEF ScoreOf
<1> QED
  BY <1>3, <1>4, <1>5, <1>6, <1>8, <1>9, <1>10

-----------------------------------------------------------------------------
(* Every row has the advantage of its place in the batch.                  *)
Advanced == \A p \in 1 .. RowCount : batch[p].advantages = AdvantageAt(p)

LEMMA LeadersCompared ==
  ASSUME cfg \in Configs, lens \in LenProfiles, BatchOK(batch), ScoresTyped, Advanced,
         cfg.adv = "grpo_passk", NEW i \in Ids, NEW peers, peers = PeersOf(i),
         NEW adv, adv = [j \in Ids |-> batch[Position(j)].advantages]
  PROVE  /\ Cardinality(peers) > 1 => PeersCancel(peers, adv)
         /\ OrderKept(peers, adv)
<1> DEFINE s == BatchScores
           u == BatchUids
           l == BatchLengths
           group == Group(u, Position(i))
<1>1. /\ IsFiniteSet(peers) /\ ImageOf(Positioned, peers) = group
      /\ Cardinality(peers) = Cardinality(group)
      /\ \A j \in peers : /\ j \in Ids /\ Positioned[j] \in group /\ Positioned[j] = Position(j)
                          /\ Position(j) \in 1 .. RowCount /\ s[Position(j)] = ScoreOf(j)
  BY PeersInGroup
<1>2. \A j \in peers : adv[j] = GrpoPassk(s, u, l, Position(j))
  <2> TAKE j \in peers
  <2>1. adv[j] = AdvantageAt(Position(j))
    BY <1>1 DEF Advanced
  <2>2. AdvantageAt(Position(j)) = GrpoPassk(s, u, l, Position(j))
    BY DEF AdvantageAt, BatchScores, BatchUids, BatchLengths
  <2> QED
    BY <2>1, <2>2
<1>3. RowsOf(s, u, l) /\ Position(i) \in DOMAIN u
  <2>1. Position(i) \in 1 .. RowCount /\ DOMAIN batch = 1 .. RowCount
    BY PositionIs, BatchRows
  <2> QED
    BY <2>1, BatchRows DEF BatchUids
<1>4. i \in peers
  BY DEF PeersOf
<1>5. \A j \in peers : ScoreOf(j) \in Int
  <2> TAKE j \in peers
  <2>1. s[Position(j)] = ScoreOf(j) /\ Position(j) \in 1 .. RowCount
    BY <1>1
  <2> QED
    BY <2>1, BatchRows DEF ScoresTyped
<1> HIDE DEF s, u, l
<1>6. ASSUME Cardinality(peers) > 1, NEW j \in peers
      PROVE  /\ adv[j].num >= 0
             /\ adv[j].num > 0 => ScoreOf(j) = Max({ScoreOf(x) : x \in peers})
  <2> DEFINE lead == GrpoPassk(s, u, l, Position(j))
  <2>1. /\ lead.num >= 0
        /\ lead.num > 0 => \A x \in group : s[x] <= s[Position(j)]
    <3>1. Cardinality(group) > 1 /\ Position(j) \in group
      BY <1>1, <1>6
    <3> QED
      BY <1>3, <3>1, LeadsOf
  <2>2. adv[j] = lead
    BY <1>2
  <2> HIDE DEF lead, group
  <2>3. ASSUME lead.num > 0 PROVE ScoreOf(j) = Max({ScoreOf(x) : x \in peers})
    <3> DEFINE all == {ScoreOf(x) : x \in peers}
    <3>1. \A x \in peers : ScoreOf(x) <= ScoreOf(j)
      BY <1>1, <2>1, <2>3
    <3>2. all \in SUBSET Int /\ all # {} /\ ScoreOf(j) \in all
      BY <1>5
    <3>3. IsFiniteSet(all)
      <4> DEFINE f == [x \in peers |-> ScoreOf(x)]
      <4>1. all = {f[x] : x \in peers}
        OBVIOUS
      <4> HIDE DEF f, all
      <4> QED
        BY <1>1, <4>1, FiniteImage
    <3>4. \A y \in all : y <= ScoreOf(j)
      BY <3>1
    <3> HIDE DEF all
    <3>5. Max(all) \in all /\ \A y \in all : y <= Max(all)
      BY <3>2, <3>3, GreatestOf
    <3>6. Max(all) \in Int /\ ScoreOf(j) \in Int /\ Max(all) <= ScoreOf(j) /\ ScoreOf(j) <= Max(all)
      BY <3>2, <3>4, <3>5
    <3> QED
      BY <3>6 DEF all
  <2> QED
    BY <2>1, <2>2, <2>3
<1>7. \A j \in peers : adv[j].den = 1
  <2> TAKE j \in peers
  <2>1. GrpoPassk(s, u, l, Position(j)).den = 1
    BY DEF GrpoPassk, Quotient
  <2> QED
    BY <1>2, <2>1
<1>8. OrderKept(peers, adv)
  BY <1>7 DEF OrderKept
<1>9. Cardinality(peers) > 1 => PeersCancel(peers, adv)
  BY <1>6 DEF PeersCancel
<1> QED
  BY <1>8, <1>9

LEMMA PeersCompared ==
  ASSUME cfg \in Configs, lens \in LenProfiles, BatchOK(batch), ScoresTyped, Advanced,
         cfg.adv \notin {"gae", "grpo_passk"}, NEW i \in Ids, NEW peers, peers = PeersOf(i),
         NEW adv, adv = [j \in Ids |-> batch[Position(j)].advantages]
  PROVE  /\ Cardinality(peers) > 1 => PeersCancel(peers, adv)
         /\ OrderKept(peers, adv)
<1> DEFINE s == BatchScores
           w == BatchWeights
           group == Group(BatchUids, Position(i))
           given == [p \in 1 .. RowCount |-> AdvantageAt(p)]
<1>1. /\ IsFiniteSet(peers) /\ OneToOne(Positioned, peers) /\ ImageOf(Positioned, peers) = group
      /\ Cardinality(peers) = Cardinality(group)
      /\ \A j \in peers : /\ j \in Ids /\ Positioned[j] \in group /\ Positioned[j] = Position(j)
                          /\ Position(j) \in 1 .. RowCount /\ s[Position(j)] = ScoreOf(j)
                          /\ BatchLengths[Position(j)] = Cardinality(Generated(j))
  BY PeersInGroup
<1>2. Centred(given, s, w, group) /\ Integral(w, group)
  <2>1. Position(i) \in 1 .. RowCount
    BY PositionIs
  <2>2. \A p \in 1 .. RowCount : given[p] = AdvantageAt(p)
    OBVIOUS
  <2> HIDE DEF given
  <2> QED
    BY <2>1, <2>2, AdvantagesCentred
<1>3. Integral(s, group)
  <2>1. Position(i) \in 1 .. RowCount /\ DOMAIN batch = 1 .. RowCount
    BY PositionIs, BatchRows
  <2>2. Position(i) \in DOMAIN BatchUids /\ RowsOf(s, BatchUids, BatchLengths)
    BY <2>1, BatchRows DEF BatchUids
  <2> HIDE DEF s
  <2> QED
    BY <2>2, GroupIs
<1>4. \A j \in peers : adv[j] = given[Position(j)]
  <2> TAKE j \in peers
  <2>1. adv[j] = AdvantageAt(Position(j)) /\ Position(j) \in 1 .. RowCount
    BY <1>1 DEF Advanced
  <2> QED
    BY <2>1
<1>5. \A j \in peers : w[Position(j)] = IF cfg.adv = "opo" THEN Cardinality(Generated(j)) ELSE 1
  <2>1. DOMAIN batch = 1 .. RowCount
    BY BatchRows
  <2> QED
    BY <1>1, <2>1 DEF BatchWeights
<1> HIDE DEF s, w, given, group
<1>6. OrderKept(peers, adv)
  <2> SUFFICES ASSUME NEW j \in peers, NEW x \in peers
               PROVE  /\ adv[j].den = adv[x].den
                      /\ ScoreOf(j) >= ScoreOf(x) => adv[j].num >= adv[x].num
    BY DEF OrderKept
  <2>1. Position(j) \in group /\ Position(x) \in group
    BY <1>1
  <2>2. /\ given[Position(j)].den = given[Position(x)].den
        /\ s[Position(j)] >= s[Position(x)] => given[Position(j)].num >= given[Position(x)].num
    BY <1>2, <1>3, <2>1, CentredOrders
  <2> QED
    BY <1>1, <1>4, <2>2
<1>7. ASSUME Cardinality(peers) > 1 PROVE PeersCancel(peers, adv)
  <2> DEFINE k == [p \in group |-> w[p] * given[p].num]
             weight(j) == IF cfg.adv = "opo" THEN Cardinality(Generated(j)) ELSE 1
             f == [j \in peers |-> weight(j) * adv[j].num]
  <2>1. Integral(k, group) /\ SumOver(k, group) = 0
    <3>1. \A p \in group : k[p] = w[p] * given[p].num
      OBVIOUS
    <3>2. Cardinality(group) > 1
      BY <1>1, <1>7
    <3> HIDE DEF k
    <3> QED
      BY <1>2, <1>3, <3>1, <3>2, CentredCancels
  <2>2. \A j \in peers : f[j] = k[Positioned[j]]
    BY <1>1, <1>4, <1>5
  <2> HIDE DEF k, weight, f
  <2>3. SumOver(f, peers) = 0
    BY <1>1, <2>1, <2>2, SumMoved
  <2>4. SumOf(f, peers) = 0
    BY <2>3, SumOfIs
  <2> QED
    BY <2>4 DEF PeersCancel, f, weight
<1> QED
  BY <1>6, <1>7

-----------------------------------------------------------------------------
(* The powers of gamma * lam are what their definition says.               *)
Powers(f, n) == f = [k \in 0 .. n |-> IF k = 0 THEN 1 ELSE Gamma * Lam * f[k - 1]]

LEMMA PowersExist == \A n \in Nat : \E f : Powers(f, n)
<1> DEFINE G == {n \in Nat : \E f : Powers(f, n)}
<1>1. 0 \in G
  <2> DEFINE f == [k \in 0 .. 0 |-> 1]
  <2>1. Powers(f, 0)
    BY DEF Powers
  <2> QED
    BY <2>1
<1>2. ASSUME NEW n \in Nat, n \in G PROVE n + 1 \in G
  <2>1. PICK f : Powers(f, n)
    BY <1>2
  <2> DEFINE h == [k \in 0 .. n + 1 |-> IF k = 0 THEN 1 ELSE Gamma * Lam * f[k - 1]]
  <2>2. \A k \in 0 .. n : h[k] = f[k]
    BY <2>1 DEF Powers
  <2>3. \A k \in 0 .. n + 1 : h[k] = IF k = 0 THEN 1 ELSE Gamma * Lam * h[k - 1]
    <3> TAKE k \in 0 .. n + 1
    <3>1. k # 0 => k - 1 \in 0 .. n
      OBVIOUS
    <3> QED
      BY <2>2, <3>1
  <2>4. h = [k \in 0 .. n + 1 |-> h[k]]
    OBVIOUS
  <2> HIDE DEF h
  <2>5. Powers(h, n + 1)
    BY <2>3, <2>4 DEF Powers
  <2> QED
    BY <2>5
<1> HIDE DEF G
<1>3. \A n \in Nat : n \in G
  BY <1>1, <1>2, SetInduction
<1> QED
  BY <1>3 DEF G

LEMMA PowersAgree ==
  ASSUME NEW n \in Nat, NEW m \in Nat, NEW f, Powers(f, n), NEW h, Powers(h, m)
  PROVE  \A k \in Nat : k <= n /\ k <= m => f[k] = h[k]
<1> DEFINE G == {k \in Nat : k <= n /\ k <= m => f[k] = h[k]}
<1>1. 0 \in G
  BY DEF Powers
<1>2. ASSUME NEW k \in Nat, k \in G PROVE k + 1 \in G
  <2> SUFFICES ASSUME k + 1 <= n, k + 1 <= m PROVE f[k + 1] = h[k + 1]
    OBVIOUS
  <2>1. f[k] = h[k]
    BY <1>2
  <2>2. k + 1 \in 0 .. n /\ k + 1 \in 0 .. m /\ k + 1 # 0 /\ (k + 1) - 1 = k
    OBVIOUS
  <2>3. f[k + 1] = Gamma * Lam * f[k] /\ h[k + 1] = Gamma * Lam * h[k]
    BY <2>2 DEF Powers
  <2> QED
    BY <2>1, <2>3
<1> HIDE DEF G
<1>3. \A k \in Nat : k \in G
  BY <1>1, <1>2, SetInduction
<1> QED
  BY <1>3 DEF G

LEMMA DiscountIs ==
  /\ Discount[0] = 1
  /\ \A k \in Nat : Discount[k + 1] = Gamma * Lam * Discount[k] /\ Discount[k] \in Int
<1> DEFINE P(n) == CHOOSE f : Powers(f, n)
           f == [k \in Nat |-> P(k)[k]]
<1>1. \A n \in Nat : Powers(P(n), n)
  BY PowersExist
<1>2. \A k \in Nat : f[k] = IF k = 0 THEN 1 ELSE Gamma * Lam * f[k - 1]
  <2> TAKE k \in Nat
  <2> HIDE DEF P
  <2>1. P(k)[k] = IF k = 0 THEN 1 ELSE Gamma * Lam * P(k)[k - 1]
    BY <1>1 DEF Powers
  <2>2. k # 0 => P(k)[k - 1] = P(k - 1)[k - 1]
    <3> SUFFICES ASSUME k # 0 PROVE P(k)[k - 1] = P(k - 1)[k - 1]
      OBVIOUS
    <3>1. k - 1 \in Nat /\ k - 1 <= k
      OBVIOUS
    <3>2. Powers(P(k), k) /\ Powers(P(k - 1), k - 1)
      BY <1>1, <3>1
    <3> QED
      BY <3>1, <3>2, PowersAgree
  <2> QED
    BY <2>1, <2>2
<1>3. f = [k \in Nat |-> f[k]]
  OBVIOUS
<1> HIDE DEF f
<1>4. f = [k \in Nat |-> IF k = 0 THEN 1 ELSE Gamma * Lam * f[k - 1]]
  BY <1>2, <1>3
<1>5. Discount = [k \in Nat |-> IF k = 0 THEN 1 ELSE Gamma * Lam * Discount[k - 1]]
  BY <1>4 DEF Discount
<1>6. Discount[0] = 1
  BY <1>5
<1>7. \A k \in Nat : Discount[k + 1] = Gamma * Lam * Discount[k]
  <2> TAKE k \in Nat
  <2>1. k + 1 \in Nat /\ k + 1 # 0 /\ (k + 1) - 1 = k
    OBVIOUS
  <2> QED
    BY <1>5, <2>1
<1>8. \A k \in Nat : Discount[k] \in Int
  <2> DEFINE G == {k \in Nat : Discount[k] \in Int}
  <2>1. 0 \in G
    BY <1>6
  <2>2. ASSUME NEW k \in Nat, k \in G PROVE k + 1 \in G
    <3>1. Gamma \in Int /\ Lam \in Int
      BY AdvantagesAssumption
    <3>2. Gamma * Lam * Discount[k] \in Int
      BY <2>2, <3>1
    <3> QED
      BY <1>7, <2>2, <3>2
  <2> HIDE DEF G
  <2>3. \A k \in Nat : k \in G
    BY <2>1, <2>2, SetInduction
  <2> QED
    BY <2>3 DEF G
<1> QED
  BY <1>6, <1>7, <1>8

-----------------------------------------------------------------------------
(* GAE, from the last token back.                                          *)
GaeStart == [nextvalue |-> 0, carried |-> 0, advantages |-> <<>>]
GaeStep(rewards, values, mask, gamma, lam, t, later) ==
  LET delta == rewards[t] + gamma * later.nextvalue - values[t]
      carried == IF mask[t] = 1 THEN delta + gamma * lam * later.carried ELSE later.carried
      nextvalue == IF mask[t] = 1 THEN values[t] ELSE later.nextvalue
  IN  [nextvalue |-> nextvalue, carried |-> carried,
       advantages |-> <<carried>> \o later.advantages]
GaeStates == [nextvalue : Int, carried : Int, advantages : Seq(Int)]
Tokens(mask) == [t \in 1 .. Len(mask) |-> t]

(* g[s] is what the fold makes of the tokens of s.                         *)
Gaining(g, rewards, values, mask, gamma, lam) ==
  g = [s \in SUBSET DOMAIN Tokens(mask) |->
         IF s = {} THEN GaeStart
         ELSE GaeStep(rewards, values, mask, gamma, lam, Tokens(mask)[Min(s)], g[s \ {Min(s)}])]

GaeTyped(rewards, values, mask, gamma, lam) ==
  /\ Len(mask) \in Nat /\ gamma \in Int /\ lam \in Int
  /\ \A t \in 1 .. Len(mask) : rewards[t] \in Int /\ values[t] \in Int

LEMMA GaeStepType ==
  ASSUME NEW rewards, NEW values, NEW mask, NEW gamma, NEW lam,
         GaeTyped(rewards, values, mask, gamma, lam), NEW t \in 1 .. Len(mask),
         NEW later \in GaeStates
  PROVE  GaeStep(rewards, values, mask, gamma, lam, t, later) \in GaeStates
<1> DEFINE delta == rewards[t] + gamma * later.nextvalue - values[t]
           carried == IF mask[t] = 1 THEN delta + gamma * lam * later.carried ELSE later.carried
           nextvalue == IF mask[t] = 1 THEN values[t] ELSE later.nextvalue
<1>1. /\ later.nextvalue \in Int /\ later.carried \in Int /\ later.advantages \in Seq(Int)
      /\ rewards[t] \in Int /\ values[t] \in Int /\ gamma \in Int /\ lam \in Int
  BY DEF GaeStates, GaeTyped
<1>2. carried \in Int
  <2>1. delta \in Int
    BY <1>1, SMTT(30)
  <2>2. gamma * lam * later.carried \in Int
    BY <1>1
  <2> QED
    BY <1>1, <2>1, <2>2
<1>3. nextvalue \in Int
  BY <1>1
<1>4. GaeStep(rewards, values, mask, gamma, lam, t, later)
        = [nextvalue |-> nextvalue, carried |-> carried,
           advantages |-> <<carried>> \o later.advantages]
  BY DEF GaeStep
<1> HIDE DEF carried, nextvalue
<1>5. <<carried>> \o later.advantages \in Seq(Int)
  BY <1>1, <1>2
<1> QED
  BY <1>2, <1>3, <1>4, <1>5 DEF GaeStates

LEMMA GainingExists ==
  ASSUME NEW rewards, NEW values, NEW mask, NEW gamma, NEW lam,
         GaeTyped(rewards, values, mask, gamma, lam)
  PROVE  \E g : Gaining(g, rewards, values, mask, gamma, lam)
<1> DEFINE S == DOMAIN Tokens(mask)
           next == [s \in SUBSET S |-> Min(s)]
           op == [p \in S \X GaeStates |->
                    GaeStep(rewards, values, mask, gamma, lam, Tokens(mask)[p[1]], p[2])]
<1>1. Len(mask) \in Nat /\ S = 1 .. Len(mask) /\ \A t \in S : Tokens(mask)[t] = t
  BY DEF Tokens, GaeTyped
<1>2. IsFiniteSet(S)
  BY <1>1, FS_Interval
<1>3. Chooses(next, S)
  <2> SUFFICES ASSUME NEW s \in SUBSET S, s # {} PROVE next[s] \in s
    BY DEF Chooses
  <2>1. s \in SUBSET Int
    BY <1>1
  <2>2. IsFiniteSet(s)
    BY <1>2, FS_Subset
  <2>3. Min(s) \in s
    BY <2>1, <2>2, SmallestOf
  <2> QED
    BY <2>3
<1>4. \A x \in S : \A v \in GaeStates :
        /\ op[<<x, v>>] = GaeStep(rewards, values, mask, gamma, lam, Tokens(mask)[x], v)
        /\ op[<<x, v>>] \in GaeStates
  <2> SUFFICES ASSUME NEW x \in S, NEW v \in GaeStates
               PROVE  /\ op[<<x, v>>] = GaeStep(rewards, values, mask, gamma, lam, Tokens(mask)[x], v)
                      /\ op[<<x, v>>] \in GaeStates
    BY Zenon
  <2>1. op[<<x, v>>] = GaeStep(rewards, values, mask, gamma, lam, Tokens(mask)[x], v)
    OBVIOUS
  <2>2. GaeStep(rewards, values, mask, gamma, lam, Tokens(mask)[x], v) \in GaeStates
    BY <1>1, GaeStepType
  <2> QED
    BY <2>1, <2>2
<1>5. GaeStart \in GaeStates
  BY DEF GaeStart, GaeStates
<1>6. \A s \in SUBSET S : next[s] = Min(s)
  OBVIOUS
<1> HIDE DEF S, next, op
<1>7. PICK g : FoldsSubsets(g, S, next, GaeStart, op)
  BY <1>2, <1>3, FoldExists
<1>8. \A s \in SUBSET S : g[s] \in GaeStates
  BY <1>2, <1>3, <1>4, <1>5, <1>7, FoldType
<1>9. ASSUME NEW s \in SUBSET S
      PROVE  g[s] = IF s = {} THEN GaeStart
                    ELSE GaeStep(rewards, values, mask, gamma, lam, Tokens(mask)[Min(s)], g[s \ {Min(s)}])
  <2>1. g[s] = IF s = {} THEN GaeStart ELSE op[<<next[s], g[s \ {next[s]}]>>]
    BY <1>7 DEF FoldsSubsets
  <2>2. ASSUME s # {}
        PROVE  op[<<next[s], g[s \ {next[s]}]>>]
                 = GaeStep(rewards, values, mask, gamma, lam, Tokens(mask)[next[s]], g[s \ {next[s]}])
    <3>1. next[s] \in S /\ g[s \ {next[s]}] \in GaeStates
      BY <1>3, <1>8, <2>2 DEF Chooses
    <3> QED
      BY <1>4, <3>1
  <2> QED
    BY <1>6, <2>1, <2>2
<1>10. g = [s \in SUBSET S |-> g[s]]
  BY <1>7 DEF FoldsSubsets
<1>11. Gaining(g, rewards, values, mask, gamma, lam)
  BY <1>9, <1>10 DEF Gaining, S
<1> QED
  BY <1>11

LEMMA GaeIs ==
  ASSUME NEW rewards, NEW values, NEW mask, NEW gamma, NEW lam,
         GaeTyped(rewards, values, mask, gamma, lam)
  PROVE  \E g : /\ Gaining(g, rewards, values, mask, gamma, lam)
                /\ Gae(rewards, values, mask, gamma, lam) = g[1 .. Len(mask)].advantages
<1> DEFINE chosen == CHOOSE g : Gaining(g, rewards, values, mask, gamma, lam)
<1>1. Gaining(chosen, rewards, values, mask, gamma, lam)
  BY GainingExists
<1>2. Gae(rewards, values, mask, gamma, lam) = chosen[DOMAIN Tokens(mask)].advantages
  BY DEF Gae, FoldRight, MapThenFoldSet, Gaining, GaeStep, GaeStart, Tokens
<1>3. DOMAIN Tokens(mask) = 1 .. Len(mask)
  BY DEF Tokens
<1> QED
  BY <1>1, <1>2, <1>3

-----------------------------------------------------------------------------
(* What is carried, and the next value, from each token on: a token that   *)
(* was not generated changes neither.                                      *)
Carries(carried, nexts, rewards, values, mask, gamma, lam) ==
  /\ carried \in [1 .. Len(mask) + 1 -> Int] /\ nexts \in [1 .. Len(mask) + 1 -> Int]
  /\ carried[Len(mask) + 1] = 0 /\ nexts[Len(mask) + 1] = 0
  /\ \A t \in 1 .. Len(mask) :
       IF mask[t] = 1
         THEN /\ carried[t] = rewards[t] + gamma * nexts[t + 1] - values[t]
                                + gamma * lam * carried[t + 1]
              /\ nexts[t] = values[t]
         ELSE carried[t] = carried[t + 1] /\ nexts[t] = nexts[t + 1]

LEMMA LeastOfInterval ==
  ASSUME NEW n \in Nat, NEW t \in 1 .. n
  PROVE  /\ Min(t .. n) = t /\ (t .. n) \ {t} = (t + 1) .. n /\ t .. n # {}
         /\ t .. n \in SUBSET (1 .. n)
<1>1. t .. n \in SUBSET Int /\ IsFiniteSet(t .. n) /\ t \in t .. n
  BY FS_Interval
<1>2. Min(t .. n) \in t .. n /\ Min(t .. n) <= t
  BY <1>1, SmallestOf
<1> QED
  BY <1>2

(* What the fold has made of the tokens from t on.                         *)
CarriedFrom(state, carried, nexts, t, n) ==
  /\ state.nextvalue = nexts[t] /\ state.carried = carried[t]
  /\ state.advantages \in Seq(Int) /\ Len(state.advantages) = n + 1 - t
  /\ \A u \in t .. n : state.advantages[u + 1 - t] = carried[u]

LEMMA GaeFollows ==
  ASSUME NEW rewards, NEW values, NEW mask, NEW gamma, NEW lam,
         GaeTyped(rewards, values, mask, gamma, lam),
         NEW carried, NEW nexts, Carries(carried, nexts, rewards, values, mask, gamma, lam)
  PROVE  \A t \in 1 .. Len(mask) : Gae(rewards, values, mask, gamma, lam)[t] = carried[t]
<1> DEFINE n == Len(mask)
<1>1. PICK g : /\ Gaining(g, rewards, values, mask, gamma, lam)
               /\ Gae(rewards, values, mask, gamma, lam) = g[1 .. n].advantages
  BY GaeIs
<1>2. n \in Nat
  BY DEF GaeTyped
<1>3. \A s \in SUBSET (1 .. n) :
        g[s] = IF s = {} THEN GaeStart
               ELSE GaeStep(rewards, values, mask, gamma, lam, Tokens(mask)[Min(s)], g[s \ {Min(s)}])
  <2>1. DOMAIN Tokens(mask) = 1 .. n
    BY DEF Tokens
  <2> QED
    BY <1>1, <2>1 DEF Gaining
<1> DEFINE G == {k \in Nat : k <= n => CarriedFrom(g[(n + 1 - k) .. n], carried, nexts, n + 1 - k, n)}
<1> HIDE DEF n
<1>4. 0 \in G
  <2>1. n + 1 - 0 = n + 1 /\ (n + 1) .. n = {} /\ {} \in SUBSET (1 .. n)
    BY <1>2
  <2>2. g[(n + 1) .. n] = GaeStart
    BY <1>3, <2>1
  <2>3. carried[n + 1] = 0 /\ nexts[n + 1] = 0
    BY DEF Carries, n
  <2>4. n + 1 - (n + 1) = 0
    BY <1>2
  <2>5. CarriedFrom(GaeStart, carried, nexts, n + 1, n)
    <3>1. \A u \in (n + 1) .. n : FALSE
      BY <1>2
    <3>2. <<>> \in Seq(Int) /\ Len(<<>>) = 0
      OBVIOUS
    <3> QED
      BY <2>3, <2>4, <3>1, <3>2 DEF CarriedFrom, GaeStart
  <2> QED
    BY <2>1, <2>2, <2>5
<1>5. ASSUME NEW k \in Nat, k \in G PROVE k + 1 \in G
  <2> SUFFICES ASSUME k + 1 <= n
               PROVE  CarriedFrom(g[(n + 1 - (k + 1)) .. n], carried, nexts, n + 1 - (k + 1), n)
    OBVIOUS
  <2> DEFINE t == n - k
  <2>1. t \in 1 .. n /\ n + 1 - (k + 1) = t /\ n + 1 - k = t + 1 /\ k <= n
    BY <1>2
  <2> HIDE DEF t
  <2> DEFINE later == g[(t + 1) .. n]
             state == g[t .. n]
             delta == rewards[t] + gamma * later.nextvalue - values[t]
             c == IF mask[t] = 1 THEN delta + gamma * lam * later.carried ELSE later.carried
             nv == IF mask[t] = 1 THEN values[t] ELSE later.nextvalue
  <2>2. CarriedFrom(later, carried, nexts, t + 1, n)
    BY <1>5, <2>1
  <2>3. state = GaeStep(rewards, values, mask, gamma, lam, t, later)
    <3>1. /\ Min(t .. n) = t /\ (t .. n) \ {t} = (t + 1) .. n /\ t .. n # {}
          /\ t .. n \in SUBSET (1 .. n)
      BY <1>2, <2>1, LeastOfInterval
    <3>2. Tokens(mask)[t] = t
      BY <2>1 DEF Tokens, n
    <3> QED
      BY <1>3, <3>1, <3>2
  <2>4. state = [nextvalue |-> nv, carried |-> c, advantages |-> <<c>> \o later.advantages]
    BY <2>3 DEF GaeStep
  <2>5. /\ later.nextvalue = nexts[t + 1] /\ later.carried = carried[t + 1]
        /\ later.advantages \in Seq(Int) /\ Len(later.advantages) = n - t
        /\ \A u \in (t + 1) .. n : later.advantages[u - t] = carried[u]
    <3>1. n + 1 - (t + 1) = n - t /\ \A u \in (t + 1) .. n : u + 1 - (t + 1) = u - t
      BY <1>2, <2>1
    <3> QED
      BY <2>2, <3>1 DEF CarriedFrom
  <2>6. c = carried[t] /\ nv = nexts[t]
    BY <2>1, <2>5 DEF Carries, n
  <2>7. carried[t] \in Int
    <3>1. t \in 1 .. n + 1
      BY <1>2, <2>1
    <3> QED
      BY <3>1 DEF Carries, n
  <2> HIDE DEF later, state, delta, c, nv
  <2> DEFINE adv == <<carried[t]>> \o later.advantages
  <2>8. state.nextvalue = nexts[t] /\ state.carried = carried[t] /\ state.advantages = adv
    BY <2>4, <2>6
  <2>9. adv \in Seq(Int) /\ Len(adv) = n + 1 - t
    <3> DEFINE first == <<carried[t]>>
               rest == later.advantages
    <3>1. first \in Seq(Int) /\ Len(first) = 1 /\ rest \in Seq(Int) /\ Len(rest) = n - t
      BY <2>5, <2>7
    <3> HIDE DEF first, rest
    <3>2. first \o rest \in Seq(Int) /\ Len(first \o rest) = Len(first) + Len(rest)
      BY <3>1, ConcatProperties
    <3>3. 1 + (n - t) = n + 1 - t
      BY <1>2, <2>1
    <3> QED
      BY <3>1, <3>2, <3>3 DEF first, rest
  <2>10. ASSUME NEW u \in t .. n PROVE adv[u + 1 - t] = carried[u]
    <3>1. CASE u = t
      <4>1. u + 1 - t = 1
        BY <1>2, <2>1, <3>1
      <4> QED
        BY <2>5, <3>1, <4>1
    <3>2. CASE u # t
      <4>1. u \in (t + 1) .. n /\ u - t \in 1 .. Len(later.advantages) /\ u + 1 - t = (u - t) + 1
        BY <1>2, <2>1, <2>5, <3>2
      <4>2. adv[(u - t) + 1] = later.advantages[u - t]
        BY <2>5, <4>1, SMTT(30)
      <4> QED
        BY <2>5, <4>1, <4>2
    <3> QED
      BY <3>1, <3>2
  <2> HIDE DEF adv
  <2>11. CarriedFrom(state, carried, nexts, t, n)
    BY <2>8, <2>9, <2>10 DEF CarriedFrom
  <2> QED
    BY <2>1, <2>11 DEF state
<1> HIDE DEF G
<1>6. \A k \in Nat : k \in G
  BY <1>4, <1>5, SetInduction
<1>7. CarriedFrom(g[1 .. n], carried, nexts, 1, n)
  <2>1. n + 1 - n = 1 /\ n \in G /\ n <= n
    BY <1>2, <1>6
  <2> QED
    BY <2>1 DEF G
<1>8. ASSUME NEW t \in 1 .. n PROVE g[1 .. n].advantages[t] = carried[t]
  <2>1. t + 1 - 1 = t
    BY <1>2
  <2> QED
    BY <1>7, <2>1 DEF CarriedFrom
<1> QED
  BY <1>1, <1>8 DEF n

-----------------------------------------------------------------------------
(* The discounted differences from each token on.                          *)
LaterThan(i, t) == {u \in Generated(i) : u >= t}
BetweenThem(i, t, u) == {w \in Generated(i) : t <= w /\ w < u}
Difference(i, u) == TokenRewards(i, ScoreOf(i))[u] + Gamma * NextValueIn(i, u) - TokenValues[i][u]
Terms(i, t) == [u \in LaterThan(i, t) |-> Discount[Cardinality(BetweenThem(i, t, u))] * Difference(i, u)]
NextFrom(i, t) == IF LaterThan(i, t) = {} THEN 0 ELSE TokenValues[i][Min(LaterThan(i, t))]

LEMMA DifferencesSummed ==
  ASSUME NEW i, NEW t
  PROVE  DiscountedDifferences(i, t) = SumOver(Terms(i, t), LaterThan(i, t))
BY SumOfIs DEF DiscountedDifferences, Terms, LaterThan, BetweenThem, Difference

LEMMA TokensTyped ==
  ASSUME cfg \in Configs, lens \in LenProfiles, NEW i \in Ids, ScoreOf(i) \in Int
  PROVE  /\ Len(Masks[i]) \in Nat /\ DOMAIN Masks[i] = 1 .. Len(Masks[i])
         /\ GaeTyped(TokenRewards(i, ScoreOf(i)), TokenValues[i], Masks[i], Gamma, Lam)
         /\ Gamma \in Int /\ Lam \in Int
         /\ \A t \in 1 .. Len(Masks[i]) : t \in Generated(i) <=> Masks[i][t] = 1
<1>1. i \in DOMAIN Masks /\ Masks[i] \in Seq({0, 1})
  BY GeneratedFinite
<1>2. /\ TokenValues[i] \in [DOMAIN Masks[i] -> Int] /\ Gamma \in Int /\ Lam \in Int
  BY <1>1, AdvantagesAssumption
<1>3. Len(Masks[i]) \in Nat /\ DOMAIN Masks[i] = 1 .. Len(Masks[i])
  BY <1>1
<1>4. \A t \in 1 .. Len(Masks[i]) : TokenRewards(i, ScoreOf(i))[t] \in Int /\ TokenValues[i][t] \in Int
  BY <1>2, <1>3 DEF TokenRewards
<1>5. \A t \in 1 .. Len(Masks[i]) : t \in Generated(i) <=> Masks[i][t] = 1
  BY <1>3 DEF Generated
<1> QED
  BY <1>2, <1>3, <1>4, <1>5 DEF GaeTyped

LEMMA NextFromType ==
  ASSUME cfg \in Configs, lens \in LenProfiles, NEW i \in Ids, ScoreOf(i) \in Int, NEW t \in Int
  PROVE  /\ NextFrom(i, t) \in Int
         /\ LaterThan(i, t) \subseteq 1 .. Len(Masks[i]) /\ IsFiniteSet(LaterThan(i, t))
         /\ LaterThan(i, t) # {} => /\ Min(LaterThan(i, t)) \in LaterThan(i, t)
                                    /\ \A u \in LaterThan(i, t) : Min(LaterThan(i, t)) <= u
<1> DEFINE L == LaterThan(i, t)
<1>1. L \subseteq 1 .. Len(Masks[i]) /\ Len(Masks[i]) \in Nat
  BY GeneratedFinite, TokensTyped DEF LaterThan
<1>2. IsFiniteSet(L) /\ L \in SUBSET Int
  <2>1. L \subseteq Generated(i) /\ IsFiniteSet(Generated(i))
    BY GeneratedFinite DEF LaterThan
  <2> QED
    BY <1>1, <2>1, FS_Subset
<1>3. ASSUME L # {} PROVE Min(L) \in L /\ \A u \in L : Min(L) <= u
  <2> HIDE DEF L
  <2> QED
    BY <1>2, <1>3, SmallestOf
<1>4. NextFrom(i, t) \in Int
  <2>1. CASE L = {}
    BY <2>1 DEF NextFrom
  <2>2. CASE L # {}
    <3>1. TokenValues[i][Min(L)] \in Int
      BY <1>1, <1>3, <2>2, TokensTyped DEF GaeTyped
    <3> QED
      BY <2>2, <3>1 DEF NextFrom
  <2> QED
    BY <2>1, <2>2
<1> QED
  BY <1>1, <1>2, <1>3, <1>4

LEMMA DifferenceType ==
  ASSUME cfg \in Configs, lens \in LenProfiles, NEW i \in Ids, ScoreOf(i) \in Int,
         NEW u \in Generated(i)
  PROVE  /\ Difference(i, u) \in Int /\ u \in 1 .. Len(Masks[i])
         /\ Difference(i, u) = TokenRewards(i, ScoreOf(i))[u] + Gamma * NextFrom(i, u + 1)
                                 - TokenValues[i][u]
<1>1. u \in 1 .. Len(Masks[i]) /\ Generated(i) \subseteq 1 .. Len(Masks[i]) /\ Len(Masks[i]) \in Nat
  BY GeneratedFinite, TokensTyped
<1>2. {w \in Generated(i) : w > u} = LaterThan(i, u + 1)
  BY <1>1 DEF LaterThan
<1>3. NextValueIn(i, u) = NextFrom(i, u + 1)
  BY <1>2 DEF NextValueIn, NextFrom
<1>4. NextFrom(i, u + 1) \in Int
  BY <1>1, NextFromType
<1>5. TokenRewards(i, ScoreOf(i))[u] \in Int /\ TokenValues[i][u] \in Int /\ Gamma \in Int
  BY <1>1, TokensTyped DEF GaeTyped
<1>6. Difference(i, u) = TokenRewards(i, ScoreOf(i))[u] + Gamma * NextFrom(i, u + 1)
                           - TokenValues[i][u]
  BY <1>3 DEF Difference
<1> DEFINE x == TokenRewards(i, ScoreOf(i))[u]
           y == NextFrom(i, u + 1)
           z == TokenValues[i][u]
<1>7. Difference(i, u) = x + Gamma * y - z /\ x \in Int /\ y \in Int /\ z \in Int
  BY <1>4, <1>5, <1>6
<1> HIDE DEF x, y, z
<1>8. Difference(i, u) \in Int
  BY <1>5, <1>7
<1> QED
  BY <1>1, <1>6, <1>8

LEMMA TermsType ==
  ASSUME cfg \in Configs, lens \in LenProfiles, NEW i \in Ids, ScoreOf(i) \in Int, NEW t \in Int
  PROVE  /\ Integral(Terms(i, t), LaterThan(i, t))
         /\ \A u \in LaterThan(i, t) :
              /\ IsFiniteSet(BetweenThem(i, t, u)) /\ Cardinality(BetweenThem(i, t, u)) \in Nat
              /\ Terms(i, t)[u] = Discount[Cardinality(BetweenThem(i, t, u))] * Difference(i, u)
              /\ u \in Generated(i)
<1>1. ASSUME NEW u \in LaterThan(i, t)
      PROVE  /\ IsFiniteSet(BetweenThem(i, t, u)) /\ Cardinality(BetweenThem(i, t, u)) \in Nat
             /\ Terms(i, t)[u] = Discount[Cardinality(BetweenThem(i, t, u))] * Difference(i, u)
             /\ u \in Generated(i) /\ Terms(i, t)[u] \in Int
  <2>1. BetweenThem(i, t, u) \subseteq Generated(i) /\ IsFiniteSet(Generated(i)) /\ u \in Generated(i)
    BY GeneratedFinite DEF BetweenThem, LaterThan
  <2>2. IsFiniteSet(BetweenThem(i, t, u)) /\ Cardinality(BetweenThem(i, t, u)) \in Nat
    BY <2>1, FS_Subset, FS_CardinalityType
  <2>3. Terms(i, t)[u] = Discount[Cardinality(BetweenThem(i, t, u))] * Difference(i, u)
    BY DEF Terms
  <2>4. Discount[Cardinality(BetweenThem(i, t, u))] \in Int /\ Difference(i, u) \in Int
    BY <2>1, <2>2, DiscountIs, DifferenceType
  <2> QED
    BY <2>1, <2>2, <2>3, <2>4
<1>2. IsFiniteSet(LaterThan(i, t))
  BY NextFromType
<1> QED
  BY <1>1, <1>2 DEF Integral

-----------------------------------------------------------------------------
(* A token that was not generated is passed over.                          *)
LEMMA PassedOver ==
  ASSUME cfg \in Configs, lens \in LenProfiles, NEW i \in Ids, ScoreOf(i) \in Int,
         NEW t \in 1 .. Len(Masks[i]), t \notin Generated(i)
  PROVE  /\ DiscountedDifferences(i, t) = DiscountedDifferences(i, t + 1)
         /\ NextFrom(i, t) = NextFrom(i, t + 1)
<1>1. Generated(i) \subseteq 1 .. Len(Masks[i]) /\ Len(Masks[i]) \in Nat
  BY GeneratedFinite, TokensTyped
<1>2. LaterThan(i, t) = LaterThan(i, t + 1)
  BY <1>1 DEF LaterThan
<1>3. \A u : BetweenThem(i, t, u) = BetweenThem(i, t + 1, u)
  BY <1>1 DEF BetweenThem
<1>4. Terms(i, t) = Terms(i, t + 1)
  BY <1>2, <1>3 DEF Terms
<1> QED
  BY <1>2, <1>4, DifferencesSummed DEF NextFrom

(* A token that was generated adds its own difference, and discounts those *)
(* after it once more.                                                     *)
LEMMA TakenUp ==
  ASSUME cfg \in Configs, lens \in LenProfiles, NEW i \in Ids, ScoreOf(i) \in Int,
         NEW t \in Generated(i)
  PROVE  /\ DiscountedDifferences(i, t)
              = Difference(i, t) + Gamma * Lam * DiscountedDifferences(i, t + 1)
         /\ NextFrom(i, t) = TokenValues[i][t]
<1> DEFINE L == LaterThan(i, t)
           R == LaterThan(i, t + 1)
           c == Gamma * Lam
<1>1. /\ Generated(i) \subseteq 1 .. Len(Masks[i]) /\ Len(Masks[i]) \in Nat /\ t \in Int
      /\ IsFiniteSet(Generated(i))
  BY GeneratedFinite, TokensTyped
<1>2. t \in L /\ L \ {t} = R /\ \A u \in L : t <= u
  BY <1>1 DEF LaterThan
<1>3. /\ Integral(Terms(i, t), L) /\ Integral(Terms(i, t + 1), R) /\ c \in Int
      /\ Difference(i, t) \in Int
  BY <1>1, TermsType, TokensTyped, DifferenceType
<1>4. Terms(i, t)[t] = Difference(i, t)
  <2>1. BetweenThem(i, t, t) = {}
    BY <1>1 DEF BetweenThem
  <2>2. Terms(i, t)[t] = Discount[Cardinality({})] * Difference(i, t)
    BY <1>1, <1>2, <2>1, TermsType
  <2>3. Discount[Cardinality({})] = 1
    BY DiscountIs, FS_EmptySet
  <2> QED
    BY <1>3, <2>2, <2>3
<1>5. \A u \in R : Terms(i, t)[u] = c * Terms(i, t + 1)[u]
  <2> TAKE u \in R
  <2> DEFINE A == BetweenThem(i, t, u)
             B == BetweenThem(i, t + 1, u)
  <2>1. u \in L /\ u \in Int /\ t < u
    BY <1>1 DEF LaterThan
  <2>2. A = B \cup {t} /\ t \notin B
    BY <1>1, <2>1 DEF BetweenThem
  <2>3. IsFiniteSet(B) /\ Cardinality(B) \in Nat
    BY <1>1, TermsType
  <2>4. Cardinality(A) = Cardinality(B) + 1
    <3> HIDE DEF A, B
    <3> QED
      BY <2>2, <2>3, FS_AddElement
  <2> DEFINE k == Cardinality(B)
             d == Difference(i, u)
  <2>5. Terms(i, t)[u] = Discount[k + 1] * d /\ Terms(i, t + 1)[u] = Discount[k] * d
    BY <1>1, <2>1, <2>4, TermsType
  <2>6. Discount[k + 1] = Gamma * Lam * Discount[k] /\ Discount[k] \in Int
    BY <2>3, DiscountIs
  <2>7. d \in Int
    BY <1>1, <2>1, TermsType, DifferenceType
  <2> DEFINE x == Discount[k]
  <2>8. Terms(i, t)[u] = c * x * d /\ Terms(i, t + 1)[u] = x * d /\ x \in Int
    BY <2>5, <2>6
  <2> HIDE DEF c, x, d
  <2>9. c * x * d = c * (x * d)
    BY <1>3, <2>7, <2>8
  <2> QED
    BY <2>8, <2>9
<1> HIDE DEF L, R, c
<1>6. SumOver(Terms(i, t), L) = Terms(i, t)[t] + SumOver(Terms(i, t), R)
  BY <1>2, <1>3, SumTakeOut
<1>7. SumOver(Terms(i, t), R) = c * SumOver(Terms(i, t + 1), R)
  <2> DEFINE f == Terms(i, t + 1)
             k == Terms(i, t)
             s == SumOver(f, R)
  <2>1. \A u \in R : f[u] \in Int /\ k[u] = c * f[u]
    BY <1>3, <1>5 DEF Integral
  <2> HIDE DEF f, k
  <2>2. Combines(k, f, f, c, 0, R)
    <3> SUFFICES ASSUME NEW u \in R PROVE k[u] = c * f[u] - 0 * f[u]
      BY DEF Combines
    <3>1. f[u] \in Int /\ k[u] = c * f[u] /\ c * f[u] \in Int /\ 0 * f[u] = 0
      BY <1>3, <2>1
    <3> QED
      BY <3>1
  <2>3. Integral(f, R) /\ 0 \in Int /\ c \in Int
    BY <1>3 DEF f
  <2>4. SumOver(k, R) = c * s - 0 * s
    BY <2>2, <2>3, SumCombine
  <2>5. s \in Int
    BY <2>3, SumType
  <2> HIDE DEF s
  <2>6. c * s - 0 * s = c * s
    BY <1>3, <2>5
  <2> QED
    BY <2>4, <2>6 DEF f, k, s
<1>8. DiscountedDifferences(i, t) = Difference(i, t) + c * DiscountedDifferences(i, t + 1)
  BY <1>4, <1>6, <1>7, DifferencesSummed DEF L, R
<1>9. NextFrom(i, t) = TokenValues[i][t]
  <2>1. LaterThan(i, t) # {} /\ t \in LaterThan(i, t)
    BY <1>2 DEF L
  <2>2. Min(LaterThan(i, t)) \in LaterThan(i, t) /\ Min(LaterThan(i, t)) <= t
    BY <1>1, <2>1, NextFromType
  <2>3. Min(LaterThan(i, t)) = t
    BY <1>1, <1>2, <2>2 DEF L, LaterThan
  <2> QED
    BY <2>1, <2>3 DEF NextFrom
<1> QED
  BY <1>8, <1>9 DEF c

(* The advantages of a response are the discounted differences.            *)
LEMMA GaeIsDiscounted ==
  ASSUME cfg \in Configs, lens \in LenProfiles, NEW i \in Ids, ScoreOf(i) \in Int
  PROVE  \A t \in 1 .. Len(Masks[i]) :
           Gae(TokenRewards(i, ScoreOf(i)), TokenValues[i], Masks[i], Gamma, Lam)[t]
             = DiscountedDifferences(i, t)
<1> DEFINE n == Len(Masks[i])
           carried == [t \in 1 .. n + 1 |-> DiscountedDifferences(i, t)]
           nexts == [t \in 1 .. n + 1 |-> NextFrom(i, t)]
           r == TokenRewards(i, ScoreOf(i))
           v == TokenValues[i]
<1>1. /\ n \in Nat /\ GaeTyped(r, v, Masks[i], Gamma, Lam)
      /\ \A t \in 1 .. n : t \in Generated(i) <=> Masks[i][t] = 1
  BY TokensTyped
<1>2. \A t \in 1 .. n + 1 : DiscountedDifferences(i, t) \in Int /\ NextFrom(i, t) \in Int
  <2> TAKE t \in 1 .. n + 1
  <2>1. t \in Int
    BY <1>1
  <2>2. Integral(Terms(i, t), LaterThan(i, t)) /\ NextFrom(i, t) \in Int
    BY <2>1, TermsType, NextFromType
  <2> QED
    BY <2>2, SumType, DifferencesSummed
<1>3. DiscountedDifferences(i, n + 1) = 0 /\ NextFrom(i, n + 1) = 0
  <2>1. LaterThan(i, n + 1) = {}
    BY <1>1, GeneratedFinite DEF LaterThan
  <2>2. Integral(Terms(i, n + 1), LaterThan(i, n + 1))
    BY <1>1, TermsType
  <2> QED
    BY <2>1, <2>2, SumType, DifferencesSummed DEF NextFrom
<1>4. ASSUME NEW t \in 1 .. n
      PROVE  IF Masks[i][t] = 1
               THEN /\ DiscountedDifferences(i, t)
                         = r[t] + Gamma * NextFrom(i, t + 1) - v[t]
                             + Gamma * Lam * DiscountedDifferences(i, t + 1)
                    /\ NextFrom(i, t) = v[t]
               ELSE /\ DiscountedDifferences(i, t) = DiscountedDifferences(i, t + 1)
                    /\ NextFrom(i, t) = NextFrom(i, t + 1)
  <2>1. CASE Masks[i][t] = 1
    <3>1. t \in Generated(i)
      BY <1>1, <2>1
    <3>2. Difference(i, t) = r[t] + Gamma * NextFrom(i, t + 1) - v[t]
      BY <3>1, DifferenceType
    <3> QED
      BY <2>1, <3>1, <3>2, TakenUp
  <2>2. CASE Masks[i][t] # 1
    <3>1. t \notin Generated(i)
      BY <1>1, <2>2
    <3> QED
      BY <2>2, <3>1, PassedOver
  <2> QED
    BY <2>1, <2>2
<1>5. \A t \in 1 .. n + 1 : carried[t] = DiscountedDifferences(i, t) /\ nexts[t] = NextFrom(i, t)
  OBVIOUS
<1>6. carried \in [1 .. n + 1 -> Int] /\ nexts \in [1 .. n + 1 -> Int]
  BY <1>2
<1> HIDE DEF carried, nexts, r, v
<1>7. carried[n + 1] = 0 /\ nexts[n + 1] = 0
  BY <1>1, <1>3, <1>5
<1>8. ASSUME NEW t \in 1 .. n
      PROVE  IF Masks[i][t] = 1
               THEN /\ carried[t] = r[t] + Gamma * nexts[t + 1] - v[t] + Gamma * Lam * carried[t + 1]
                    /\ nexts[t] = v[t]
               ELSE carried[t] = carried[t + 1] /\ nexts[t] = nexts[t + 1]
  <2>1. t \in 1 .. n + 1 /\ t + 1 \in 1 .. n + 1
    BY <1>1
  <2>2. /\ carried[t] = DiscountedDifferences(i, t) /\ nexts[t] = NextFrom(i, t)
        /\ carried[t + 1] = DiscountedDifferences(i, t + 1) /\ nexts[t + 1] = NextFrom(i, t + 1)
    BY <1>5, <2>1
  <2> QED
    BY <1>4, <2>2
<1>9. Carries(carried, nexts, r, v, Masks[i], Gamma, Lam)
  BY <1>6, <1>7, <1>8 DEF Carries
<1>10. \A t \in 1 .. n : Gae(r, v, Masks[i], Gamma, Lam)[t] = carried[t]
  BY <1>1, <1>9, GaeFollows
<1>11. \A t \in 1 .. n : carried[t] = DiscountedDifferences(i, t)
  BY <1>1, <1>5
<1> QED
  BY <1>10, <1>11 DEF r, v

-----------------------------------------------------------------------------
(* Scores are integers from the reward on.                                 *)
LEMMA ClampType ==
  ASSUME NEW x \in Int, NEW low \in Int, NEW high \in Int
  PROVE  Clamp(x, low, high) \in Int
<1> DEFINE S == {x, high}
<1>1. S \in SUBSET Int /\ S # {} /\ IsFiniteSet(S)
  <2>1. IsFiniteSet({x}) /\ S = {x} \cup {high}
    BY FS_Singleton
  <2> HIDE DEF S
  <2> QED
    BY <2>1, FS_AddElement DEF S
<1>2. Min(S) \in Int
  <2> HIDE DEF S
  <2> QED
    BY <1>1, SmallestOf
<1> DEFINE m == Min(S)
           T == {low, m}
<1>3. Clamp(x, low, high) = Max(T) /\ m \in Int
  BY <1>2 DEF Clamp
<1> HIDE DEF m
<1>4. T \in SUBSET Int /\ T # {} /\ IsFiniteSet(T)
  <2>1. IsFiniteSet({low}) /\ T = {low} \cup {m}
    BY FS_Singleton
  <2>2. T \in SUBSET Int /\ T # {}
    BY <1>3
  <2> HIDE DEF T
  <2> QED
    BY <2>1, <2>2, FS_AddElement
<1>5. Max(T) \in Int
  <2> HIDE DEF T
  <2> QED
    BY <1>4, GreatestOf
<1> QED
  BY <1>3, <1>5

LEMMA FairScoreType ==
  ASSUME NEW i \in DOMAIN Responses
  PROVE  FairScore(i) \in Int
<1> DEFINE r == Responses[i]
           c == Calibrated(r.sim, r.truth, r.appears)
<1>1. r.sim \in Int /\ SimUnit \in Int /\ -SimUnit \in Int /\ 2 * SimUnit \in Int /\ MuRef \in Int
  BY ResponsesAssumption, StatsAssumption, MuRefType
<1>2. c \in Int
  <2>1. CASE {r.truth, r.appears} \notin DOMAIN PairStats
    BY <1>1, <2>1 DEF Calibrated
  <2>2. CASE {r.truth, r.appears} \in DOMAIN PairStats
    <3> DEFINE sim == r.sim
               gt == r.truth
               resp == r.appears
               m == PairStats[{gt, resp}].mean
    <3>1. m \in Int /\ c = Clamp(sim - (m - MuRef), -SimUnit, SimUnit)
      <4>1. sim \in Int /\ {gt, resp} \in DOMAIN PairStats /\ c = Calibrated(sim, gt, resp)
        BY <1>1, <2>2
      <4> HIDE DEF r, c, sim, gt, resp
      <4> QED
        BY <4>1, CorrectedBy
    <3>2. r.sim - (m - MuRef) \in Int
      BY <1>1, <3>1
    <3> HIDE DEF c, m
    <3> QED
      BY <1>1, <3>1, <3>2, ClampType
  <2> QED
    BY <2>1, <2>2
<1> HIDE DEF c
<1>3. SimToReward(c) \in Int
  <2>1. c + SimUnit \in Int
    BY <1>1, <1>2
  <2> QED
    BY <1>1, <2>1, ClampType DEF SimToReward
<1> QED
  BY <1>3 DEF FairScore, c

LEMMA ScoresGiven ==
  ASSUME FlowInv, DataInv, ComputeReward
  PROVE  ScoresTyped'
<1> DEFINE of == [i \in DOMAIN batch |-> IF cfg.rm THEN batch[i].rm_scores.of
                                                   ELSE batch[i].responses.of]
           field(f) == [i \in DOMAIN batch |-> Responses[of[i]][f]]
           scores == IF cfg.rm THEN field("sim")
                     ELSE ScoreBatch(field("sim"), field("truth"), field("appears"), field("asked"))
           scored == [i \in DOMAIN batch |-> [batch[i] EXCEPT !.score = scores[i]]]
           cells == [i \in 1 .. Len(batch) |-> [of |-> of[i], by |-> 0]]
<1>1. /\ batch' = Union(scored, "rewards", cells) /\ pc = "rewards" /\ UNCHANGED <<cfg, lens>>
      /\ pc' = NextCall[pc]
  <2>1. batch' = Union(scored, "rewards", cells)
    BY Zenon DEF ComputeReward
  <2>2. pc = "rewards" /\ pc' = NextCall[pc] /\ UNCHANGED <<workerVars, lens>>
    BY Zenon DEF ComputeReward
  <2>3. UNCHANGED cfg
    BY <2>2, Zenon DEF workerVars
  <2> QED
    BY <2>1, <2>2, <2>3, Zenon
<1>2. /\ cfg \in Configs /\ lens \in LenProfiles /\ BatchOK(batch) /\ RowCount \in Nat
      /\ RowCount' = RowCount /\ Ids = 1 .. RowCount
  BY <1>1, LensType, Zenon DEF FlowInv, DataInv, RowCount
<1>3. \A i \in Ids : i \in DOMAIN Responses
  BY <1>2, ResponsesAssumption DEF Ids
<1>4. CASE ~cfg.rm
  <2>1. pc' = "old_log_probs" /\ ~cfg'.rm
    BY <1>1, <1>4, Zenon DEF NextCall
  <2>2. \A p \in 1 .. RowCount : batch'[p].score = FairScore(batch'[p].id)
    <3>1. ScoredInv'
      BY ScoredNow
    <3> QED
      BY <1>2, <2>1, <3>1 DEF ScoredInv
  <2>3. BatchOK(batch')
    BY <1>2, Rewarded
  <2>4. \A p \in 1 .. RowCount : batch'[p].id \in Ids
    BY <1>2, <2>3 DEF BatchOK, HasRows
  <2> HIDE DEF scored, cells
  <2>5. \A p \in 1 .. RowCount : batch'[p].score \in Int
    BY <1>3, <2>2, <2>4, FairScoreType
  <2> QED
    BY <1>2, <2>5 DEF ScoresTyped
<1>5. CASE cfg.rm
  <2> SUFFICES ASSUME NEW p \in 1 .. RowCount PROVE batch'[p].score \in Int
    BY <1>2 DEF ScoresTyped
  <2>1. Len(batch) = RowCount /\ DOMAIN batch = 1 .. RowCount /\ DOMAIN batch[p] = RowFields
    BY <1>2, RowsLen DEF BatchOK, HasRows
  <2>2. of[p] = batch[p].id
    <3>1. \A i \in 1 .. RowCount : batch[i].rm_scores = [of |-> batch[i].id, by |-> 0]
      BY <1>1, <1>5 DEF DataInv, FilledInv, Filled
    <3>2. of[p] = batch[p].rm_scores.of
      BY <1>5, <2>1
    <3>3. batch[p].rm_scores = [of |-> batch[p].id, by |-> 0]
      BY <3>1
    <3> HIDE DEF of
    <3> QED
      BY <3>2, <3>3
  <2> HIDE DEF of
  <2>3. scores[p] \in Int
    <3>1. batch[p].id \in Ids
      BY <1>2 DEF BatchOK, HasRows
    <3>2. Responses[batch[p].id].sim \in Int
      BY <1>3, <3>1, ResponsesAssumption
    <3>3. scores[p] = Responses[batch[p].id].sim
      BY <1>5, <2>1, <2>2
    <3> QED
      BY <3>2, <3>3
  <2> HIDE DEF scores, field
  <2>4. Len(scored) = RowCount /\ scored[p] = [batch[p] EXCEPT !.score = scores[p]]
    BY <1>2, <2>1
  <2> HIDE DEF scored
  <2>5. batch'[p] = [scored[p] EXCEPT !["rewards"] = cells[p]]
    BY <1>1, <2>4 DEF Union
  <2> HIDE DEF cells
  <2>6. batch'[p]["score"] = scores[p]
    <3> DEFINE old == batch[p]
               mid == scored[p]
               new == batch'[p]
    <3>1. /\ mid = [old EXCEPT !["score"] = scores[p]] /\ new = [mid EXCEPT !["rewards"] = cells[p]]
          /\ {"score", "rewards"} \subseteq DOMAIN old /\ "rewards" # "score"
      BY <2>1, <2>4, <2>5 DEF RowFields, Columns
    <3> HIDE DEF old, mid, new
    <3>2. mid["score"] = scores[p] /\ DOMAIN mid = DOMAIN old
      BY <3>1
    <3>3. new["score"] = mid["score"]
      BY <3>1, <3>2
    <3> QED
      BY <3>2, <3>3 DEF new
  <2> QED
    BY <2>3, <2>6
<1> QED
  BY <1>4, <1>5

-----------------------------------------------------------------------------
(* From the reward on rows have a score, from the call of the critic on    *)
(* their own values, and through the updates their advantages.             *)
AfterValues == {"adv", "update_critic", "update_actor"}
AfterRewards == {"old_log_probs", "ref_log_prob", "values"} \cup AfterValues

ValuesOwn == \A p \in 1 .. RowCount : batch[p].values.of = batch[p].id

AdvancedInv ==
  /\ pc \in AfterRewards => ScoresTyped
  /\ cfg.critic /\ pc \in AfterValues => ValuesOwn
  /\ pc \in Updates => Advanced

(* An advantage depends on the estimator, on scores, uids and lengths, and *)
(* on the row and the values that were joined to it.                       *)
Estimate(adv, scores, uids, lengths, id, of, p) ==
  CASE adv = "gae" -> Gae(TokenRewards(id, scores[p]), TokenValues[of], Masks[id], Gamma, Lam)
    [] adv = "grpo" -> Grpo(scores, uids, lengths, p)
    [] adv = "reinforce_plus_plus_baseline" -> ReinforcePlusPlusBaseline(scores, uids, lengths, p)
    [] adv = "rloo" -> Rloo(scores, uids, lengths, p)
    [] adv = "opo" -> Opo(scores, uids, lengths, p)
    [] adv = "gpg" -> Gpg(scores, uids, lengths, p)
    [] adv = "grpo_passk" -> GrpoPassk(scores, uids, lengths, p)

LEMMA AdvantageIs ==
  ASSUME NEW p
  PROVE  AdvantageAt(p) = Estimate(cfg.adv, BatchScores, BatchUids, BatchLengths,
                                   batch[p].id, batch[p].values.of, p)
BY DEF AdvantageAt, Estimate, BatchScores, BatchUids, BatchLengths

LEMMA AdvantageKept ==
  ASSUME NEW n, DOMAIN batch = 1 .. n, DOMAIN batch' = 1 .. n, UNCHANGED cfg,
         \A p \in 1 .. n : /\ batch'[p].id = batch[p].id /\ batch'[p].score = batch[p].score
                           /\ batch'[p].values = batch[p].values
  PROVE  \A p \in 1 .. n : AdvantageAt(p)' = AdvantageAt(p)
<1>1. BatchScores' = BatchScores
  BY DEF BatchScores
<1>2. BatchUids' = BatchUids
  BY DEF BatchUids, Uid
<1>3. BatchLengths' = BatchLengths
  BY DEF BatchLengths, Generated
<1> TAKE p \in 1 .. n
<1>4. AdvantageAt(p)' = Estimate(cfg.adv, BatchScores, BatchUids, BatchLengths,
                                 batch[p].id, batch[p].values.of, p)
  <2>1. AdvantageAt(p)' = Estimate(cfg'.adv, BatchScores', BatchUids', BatchLengths',
                                   batch'[p].id, batch'[p].values.of, p)
    BY DEF AdvantageAt, Estimate, BatchScores, BatchUids, BatchLengths
  <2> QED
    BY <1>1, <1>2, <1>3, <2>1
<1> QED
  BY <1>4, AdvantageIs

(* The advantages are computed from rows that keep everything else.        *)
LEMMA AdvancesRows ==
  ASSUME FlowInv, DataInv, AdvancedInv, ComputeAdvantage
  PROVE  AdvancedInv'
<1>1. /\ batch' = [i \in DOMAIN batch |-> [batch[i] EXCEPT !.advantages = AdvantageAt(i)]]
      /\ pc = "adv" /\ pc' = NextCall[pc] /\ UNCHANGED <<cfg, lens>>
  BY DEF ComputeAdvantage, workerVars
<1>2. /\ cfg \in Configs /\ lens \in LenProfiles /\ BatchOK(batch) /\ RowCount \in Nat
      /\ RowCount' = RowCount
  BY <1>1, LensType DEF FlowInv, DataInv, RowCount
<1>3. DOMAIN batch = 1 .. RowCount /\ \A p \in 1 .. RowCount : DOMAIN batch[p] = RowFields
  BY <1>2, RowsLen DEF BatchOK, HasRows
<1>4. ASSUME NEW p \in 1 .. RowCount
      PROVE  /\ batch'[p].id = batch[p].id /\ batch'[p].score = batch[p].score
             /\ batch'[p].values = batch[p].values /\ batch'[p].advantages = AdvantageAt(p)
  <2> DEFINE old == batch[p]
             new == batch'[p]
             a == AdvantageAt(p)
  <2>1. new = [old EXCEPT !["advantages"] = a] /\ DOMAIN old = RowFields
    BY <1>1, <1>3
  <2>2. {"id", "score", "values", "advantages"} \subseteq RowFields
    BY DEF RowFields, Columns
  <2> HIDE DEF old, new, a
  <2>3. /\ new["id"] = old["id"] /\ new["score"] = old["score"] /\ new["values"] = old["values"]
        /\ new["advantages"] = a
    BY <2>1, <2>2
  <2> QED
    BY <2>3 DEF old, new, a
<1>5. DOMAIN batch' = 1 .. RowCount
  BY <1>1, <1>3
<1>6. \A p \in 1 .. RowCount : AdvantageAt(p)' = AdvantageAt(p)
  BY <1>1, <1>3, <1>4, <1>5, AdvantageKept
<1>7. Advanced'
  BY <1>2, <1>4, <1>6 DEF Advanced
<1>8. ScoresTyped'
  BY <1>1, <1>2, <1>4 DEF AdvancedInv, ScoresTyped, AfterRewards, AfterValues
<1>9. cfg.critic => ValuesOwn'
  BY <1>1, <1>2, <1>4 DEF AdvancedInv, ValuesOwn, AfterValues
<1> QED
  BY <1>1, <1>7, <1>8, <1>9 DEF AdvancedInv

LEMMA CallKeepsScores ==
  ASSUME FlowInv, RaisedInv, DataInv, AdvancedInv, FinishCall
  PROVE  AdvancedInv'
<1>1. /\ job.call \in Calls /\ pc' = NextCall[pc] /\ pc = job.call
      /\ UNCHANGED <<cfg, lens>> /\ cfg \in Configs
  BY OneAtATime DEF FinishCall, FlowInv, RaisedInv, Calls, Updates
<1>2. lens \in LenProfiles /\ BatchOK(batch) /\ ComputeInv /\ RowCount \in Nat /\ RowCount' = RowCount
  BY <1>1, LensType DEF DataInv, RowCount
<1> DEFINE by == ComputedBy
           col == job.call
<1>3. PICK cells : /\ batch' = Union(batch, col, cells)
                   /\ \A i \in 1 .. RowCount : cells[i] = [of |-> batch[i].id, by |-> by]
  BY <1>1, <1>2, CallJoined
<1>4. col \in Columns /\ "score" # col /\ "score" \in RowFields
  BY <1>1 DEF Calls, Columns, RowFields
<1>5. /\ Len(batch) = RowCount
      /\ \A p \in 1 .. RowCount : DOMAIN batch[p] = RowFields
  BY <1>2, RowsLen DEF BatchOK, HasRows
<1> HIDE DEF by, col
<1>6. \A p \in 1 .. RowCount : batch'[p].score = batch[p].score
  <2> TAKE p \in 1 .. RowCount
  <2> DEFINE old == batch[p]
             new == batch'[p]
  <2>1. new = [old EXCEPT ![col] = cells[p]] /\ DOMAIN old = RowFields
    BY <1>3, <1>5 DEF Union
  <2> HIDE DEF old, new
  <2>2. new["score"] = old["score"]
    BY <1>4, <2>1
  <2> QED
    BY <2>2 DEF old, new
<1>7. pc' \in AfterRewards => ScoresTyped'
  <2> SUFFICES ASSUME pc' \in AfterRewards PROVE ScoresTyped'
    OBVIOUS
  <2>1. pc \in AfterRewards
    BY <1>1 DEF NextCall, Calls, AfterRewards, AfterValues
  <2>2. ScoresTyped
    BY <2>1 DEF AdvancedInv
  <2> QED
    BY <1>2, <1>6, <2>2 DEF ScoresTyped
<1>8. cfg.critic /\ pc' \in AfterValues => ValuesOwn'
  <2> SUFFICES ASSUME cfg.critic, pc' \in AfterValues PROVE ValuesOwn'
    OBVIOUS
  <2>1. pc = "values"
    BY <1>1 DEF NextCall, Calls, AfterValues
  <2>2. Filled(batch', "values", by)
    BY <1>1, <2>1, CallFills DEF by
  <2>3. ASSUME NEW p \in 1 .. RowCount PROVE batch'[p].values.of = batch'[p].id
    <3>1. batch'[p].values = [of |-> batch'[p].id, by |-> by]
      BY <2>2 DEF Filled
    <3> QED
      BY <3>1
  <2> QED
    BY <1>2, <2>3 DEF ValuesOwn
<1>9. pc' \notin Updates
  BY <1>1 DEF NextCall, Calls, Updates
<1> QED
  BY <1>1, <1>7, <1>8, <1>9 DEF AdvancedInv

-----------------------------------------------------------------------------
(* Between two calls and while a call is executed the rows stay.           *)
LEMMA AdvancedQuiet ==
  ASSUME FlowInv, DataInv, AdvancedInv, UNCHANGED <<cfg, lens, batch>>,
         \/ pc' \in {pc, "testing", "raised"}
         \/ pc = "update_critic" /\ pc' = "update_actor"
  PROVE  AdvancedInv'
<1>1. /\ cfg \in Configs /\ lens \in LenProfiles /\ BatchOK(batch) /\ RowCount \in Nat
      /\ RowCount' = RowCount
  BY LensType DEF FlowInv, DataInv, RowCount
<1>2. DOMAIN batch = 1 .. RowCount
  BY <1>1, RowsLen DEF BatchOK
<1>3. \A p \in 1 .. RowCount : AdvantageAt(p)' = AdvantageAt(p)
  BY <1>2, AdvantageKept
<1>4. (Advanced' <=> Advanced) /\ (ScoresTyped' <=> ScoresTyped) /\ (ValuesOwn' <=> ValuesOwn)
  BY <1>1, <1>3 DEF Advanced, ScoresTyped, ValuesOwn
<1>5. /\ pc' \in AfterRewards => pc \in AfterRewards
      /\ pc' \in AfterValues => pc \in AfterValues
      /\ pc' \in Updates => pc \in Updates
  BY DEF AfterRewards, AfterValues, Updates
<1> QED
  BY <1>4, <1>5 DEF AdvancedInv

LEMMA AdvancedStep == FlowInv /\ RaisedInv /\ DataInv /\ AdvancedInv /\ [Next]_vars => AdvancedInv'
<1> SUFFICES ASSUME FlowInv, RaisedInv, DataInv, AdvancedInv, [Next]_vars
             PROVE  AdvancedInv'
  OBVIOUS
<1> USE DEF workerVars
<1>1. ASSUME pc' \notin AfterRewards PROVE AdvancedInv'
  BY <1>1 DEF AdvancedInv, AfterRewards, AfterValues, Updates
<1>2. CASE UNCHANGED vars
  BY <1>2, AdvancedQuiet DEF vars
<1>3. CASE SendPrompts \/ SwitchMode \/ Generate \/ LeaveRollout
  <2>2. pc' = pc /\ pc \in GenerateCalls
    BY <1>3 DEF SendPrompts, SwitchMode, Generate, LeaveRollout, FlowInv, GenerateCalls
  <2> QED
    BY <1>1, <2>2 DEF GenerateCalls, AfterRewards, AfterValues
<1>4. CASE ReceiveResponses
  <2>1. request # NoRequest /\ pc \in GenerateCalls /\ pc' = NextCall[request.purpose]
    BY <1>4 DEF ReceiveResponses, FlowInv
  <2>2. PICK prompts, output : request = [purpose |-> pc, prompts |-> prompts, output |-> output]
    BY <2>1 DEF FlowInv
  <2>3. pc' = NextCall[pc]
    BY <2>1, <2>2
  <2>4. pc' \notin AfterRewards
    BY <2>1, <2>3 DEF NextCall, GenerateCalls, AfterRewards, AfterValues
  <2> QED
    BY <1>1, <2>4
<1>5. CASE BalanceBatch
  <2>1. pc = "balance" /\ pc' = NextCall[pc]
    BY <1>5 DEF BalanceBatch
  <2>2. pc' \notin AfterRewards
    BY <2>1 DEF NextCall, AfterRewards, AfterValues
  <2> QED
    BY <1>1, <2>2
<1>6. CASE ComputeReward
  <2>1. pc = "rewards" /\ pc' = NextCall[pc]
    BY <1>6, Zenon DEF ComputeReward
  <2>2. pc' = "old_log_probs"
    BY <2>1 DEF NextCall
  <2>3. ScoresTyped'
    BY <1>6, ScoresGiven
  <2> QED
    BY <2>2, <2>3 DEF AdvancedInv, AfterValues, Updates
<1>7. CASE ComputeAdvantage
  BY <1>7, AdvancesRows
<1>8. CASE SkipActorUpdate
  <2>1. pc = "update_actor" /\ pc' = NextCall[pc] /\ UNCHANGED <<cfg, lens, batch>>
    BY <1>8 DEF SkipActorUpdate
  <2>2. pc' = "testing"
    BY <2>1 DEF NextCall
  <2> QED
    BY <2>1, <2>2, AdvancedQuiet
<1>9. CASE EndStep \/ EndSave
  <2>1. pc' \in {"done", "generate", "endstep"}
    BY <1>9 DEF EndStep, EndSave
  <2> QED
    BY <1>1, <2>1 DEF AfterRewards, AfterValues
<1>10. CASE StartCall \/ Forward \/ StartUpdate \/ BeginMiniBatch \/ ForwardBackward
              \/ OptimizerStep \/ BeginSave
  <2>1. UNCHANGED <<cfg, lens, batch, pc>>
    BY <1>10 DEF StartCall, Forward, StartUpdate, BeginMiniBatch, ForwardBackward,
                 OptimizerStep, BeginSave
  <2> QED
    BY <2>1, AdvancedQuiet
<1>11. CASE MegatronStepFails
  <2>1. pc' = "raised" /\ UNCHANGED <<cfg, lens, batch>>
    BY <1>11 DEF MegatronStepFails
  <2> QED
    BY <2>1, AdvancedQuiet
<1>12. CASE FinishCall
  BY <1>12, CallKeepsScores
<1>13. CASE FinishUpdate
  <2>1. job.call \in Updates /\ pc' = NextCall[pc] /\ UNCHANGED <<cfg, lens, batch>>
    BY <1>13 DEF FinishUpdate
  <2>2. pc \in Updates
    <3>1. job # NoJob /\ pc # "raised"
      <4>1. job # NoJob
        BY <2>1 DEF NoJob, Updates
      <4>2. job.rows[0] = <<>>
        BY <1>13 DEF FinishUpdate
      <4> QED
        BY <4>1, <4>2 DEF RaisedInv
    <3> QED
      BY <2>1, <3>1 DEF FlowInv
  <2>3. pc' = "testing" \/ (pc = "update_critic" /\ pc' = "update_actor")
    BY <2>1, <2>2 DEF NextCall, Updates
  <2> QED
    BY <2>1, <2>3, AdvancedQuiet
<1> QED
  BY <1>2, <1>3, <1>4, <1>5, <1>6, <1>7, <1>8, <1>9, <1>10, <1>11, <1>12, <1>13
     DEF Next, Rollout, Driver, Compute, Train, Save, Finished

(* The advantages the updates use compare a response with the rollouts of  *)
(* its own prompt, wherever the balancing has put them (compute_advantage, *)
(* the estimators of core_algos.py): under every outcome estimator they    *)
(* cancel over the prompt, weighted by length under OPO, unless the batch  *)
(* is whitened, and keep the order of the scores; pass@k gives only a best *)
(* response a lead; and under GAE the tokens between the generated ones do *)
(* not count.  It holds for any scores, values, masks, numbers of rollouts,*)
(* gamma and lambda.                                                       *)
THEOREM PeersAreCompared == Spec => []AdvantagesComparePeers
<1>1. Init => FlowInv /\ RaisedInv /\ DataInv /\ AdvancedInv
  BY FlowInit, DataInit DEF Init, RaisedInv, AdvancedInv, AfterRewards, AfterValues, Updates
<1>2. FlowInv /\ RaisedInv /\ DataInv /\ AdvancedInv /\ [Next]_vars
        => FlowInv' /\ RaisedInv' /\ DataInv' /\ AdvancedInv'
  BY FlowStep, RaisedStep, DataStep, AdvancedStep
<1>3. FlowInv /\ DataInv /\ AdvancedInv => AdvantagesComparePeers
  <2> DEFINE adv == [j \in Ids |-> batch[Position(j)].advantages]
  <2> SUFFICES ASSUME FlowInv, DataInv, AdvancedInv, pc = "update_actor", NEW i \in Ids
               PROVE  IF cfg.adv = "gae"
                        THEN \A t \in Generated(i) : adv[i][t] = DiscountedDifferences(i, t)
                        ELSE /\ Cardinality(PeersOf(i)) > 1 /\ cfg.adv # "reinforce_plus_plus_baseline"
                                  => PeersCancel(PeersOf(i), adv)
                             /\ OrderKept(PeersOf(i), adv)
    BY DEF AdvantagesComparePeers, PeersOf
  <2>1. cfg \in Configs /\ lens \in LenProfiles /\ BatchOK(batch) /\ ScoresTyped /\ Advanced
    BY DEF FlowInv, DataInv, AdvancedInv, AfterRewards, AfterValues, Updates
  <2>2. CASE cfg.adv = "gae"
    <3> DEFINE p == Position(i)
    <3>1. p \in 1 .. RowCount /\ batch[p].id = i /\ DOMAIN batch = 1 .. RowCount
      BY <2>1, PositionIs, BatchRows
    <3>2. batch[p].values.of = i
      <4>1. cfg.critic
        BY <2>1, <2>2, AdvantagesAssumption
      <4> QED
        BY <3>1, <4>1 DEF AdvancedInv, AfterValues, ValuesOwn
    <3>3. BatchScores[p] = ScoreOf(i) /\ ScoreOf(i) \in Int
      BY <2>1, <3>1 DEF BatchScores, ScoreOf, ScoresTyped
    <3>4. adv[i] = Gae(TokenRewards(i, ScoreOf(i)), TokenValues[i], Masks[i], Gamma, Lam)
      <4>1. adv[i] = AdvantageAt(p)
        BY <2>1, <3>1 DEF Advanced
      <4> HIDE DEF adv, p
      <4>2. AdvantageAt(p) = Estimate(cfg.adv, BatchScores, BatchUids, BatchLengths,
                                      batch[p].id, batch[p].values.of, p)
        BY AdvantageIs
      <4> QED
        BY <2>2, <3>1, <3>2, <3>3, <4>1, <4>2 DEF Estimate
    <3> HIDE DEF adv, p
    <3>5. ASSUME NEW t \in Generated(i) PROVE adv[i][t] = DiscountedDifferences(i, t)
      <4>1. t \in 1 .. Len(Masks[i])
        BY <2>1, GeneratedFinite
      <4> QED
        BY <2>1, <3>3, <3>4, <4>1, GaeIsDiscounted
    <3> QED
      BY <2>2, <3>5
  <2>3. CASE cfg.adv = "grpo_passk"
    BY <2>1, <2>3, LeadersCompared
  <2>4. CASE cfg.adv \notin {"gae", "grpo_passk"}
    BY <2>1, <2>4, PeersCompared
  <2> QED
    BY <2>2, <2>3, <2>4
<1> QED
  BY <1>1, <1>2, <1>3, PTL DEF Spec
=============================================================================
